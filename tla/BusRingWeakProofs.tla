------------------------- MODULE BusRingWeakProofs -------------------------
(***************************************************************************)
(* Proofs about BusRingWeak, for every number of slots, of words and of    *)
(* publishes: on every execution the orderings of ring.rs allow, no event  *)
(* returned is torn, a head covers the slots below it, and a loss reported *)
(* is a loss.  WeakInv is shown inductive: it ties the value of every      *)
(* store to its timestamp and says what the view of each store covers.     *)
(***************************************************************************)
EXTENDS BusRingWeak, TLAPS

-----------------------------------------------------------------------------
(* The inductive invariant. *)

\* The lap of a sequence round the ring: the timestamp of its words.
Lap(s) == (s \div Cap) + 1
WordIndices == 1 .. WordCount

Views == [Locations -> Nat]
Stores == [val : Int, view : Views]

WeakTypes ==
  /\ store \in [Locations -> Seq(Stores)]
  /\ pview \in Views /\ released \in Views
  /\ cview \in Views /\ pending \in Views
  /\ ppc \in {"idle", "write", "announce"}
  /\ stored \in 0 .. WordCount
  /\ cpc \in {"off", "idle", "copy", "lag"}
  /\ next \in Nat
  /\ words \in Seq(Int) /\ Len(words) <= WordCount

\* A location's history is what the producer knows of it, and the value of a
\* store follows from its timestamp: head and versions count, words belong to
\* the sequence of that lap.
Histories ==
  /\ \A l \in Locations : Len(store[l]) = pview[l] + 1
  /\ \A l \in Locations : \A t \in 0 .. pview[l] : At(l, t).view[l] = t
  /\ \A t \in 0 .. pview[HeadLoc] : At(HeadLoc, t).val = t
  /\ \A s \in Nat : \A t \in 0 .. pview[Version(s)] : At(Version(s), t).val = t
  /\ \A s \in Nat, w \in WordIndices : \A t \in 1 .. pview[Word(s, w)] :
       LET v == At(Word(s, w), t).val
       IN  v \in Nat /\ v % Cap = s % Cap /\ Lap(v) = t

\* A view that has the head at h has the version of every sequence below h.
HeadCovered(view) ==
  \A s \in Nat : s < view[HeadLoc] => view[Version(s)] >= Expected(s)

\* A view that knows only stores made, and is covered.
Sound(view, newest) ==
  /\ \A l \in Locations : view[l] <= newest[l]
  /\ HeadCovered(view)

StoreViewsSound ==
  /\ Sound(pview, pview) /\ Sound(released, pview)
  /\ \A l \in Locations : \A t \in 0 .. pview[l] : Sound(At(l, t).view, pview)

\* What the two fences give: the even version of a sequence releases its
\* words, a word releases the odd version stored before it.
Releases ==
  /\ \A s \in Nat, w \in WordIndices :
       Expected(s) <= pview[Version(s)] =>
         At(Version(s), Expected(s)).view[Word(s, w)] >= Lap(s)
  /\ \A s \in Nat, w \in WordIndices : \A t \in 1 .. pview[Word(s, w)] :
       At(Word(s, w), t).view[Version(s)] >= 2 * t - 1

\* The slots from the one in flight to the end of the lap.
Begun == IF ppc = "idle" THEN pview[HeadLoc] ELSE pview[HeadLoc] + 1
SlotsAhead ==
  \A s \in Nat : Begun <= s /\ s < pview[HeadLoc] + Cap =>
    /\ pview[Version(s)] = Expected(s) - 2
    /\ \A w \in WordIndices : pview[Word(s, w)] = Lap(s) - 1

InFlight ==
  LET s == pview[HeadLoc]
  IN  /\ ppc = "write" =>
           /\ pview[Version(s)] = Expected(s) - 1
           /\ released[Version(s)] = Expected(s) - 1
           /\ \A w \in WordIndices :
                pview[Word(s, w)] = IF w <= stored THEN Lap(s) ELSE Lap(s) - 1
      /\ ppc = "announce" =>
           /\ pview[Version(s)] = Expected(s)
           /\ \A w \in WordIndices : pview[Word(s, w)] = Lap(s)

LapIsReal ==
  \A s \in Nat : pview[Version(s)] > Expected(s) => s + Cap <= pview[HeadLoc]

\* Everything about the stores and the producer.
ProducerInv ==
  /\ Histories /\ StoreViewsSound /\ Releases
  /\ SlotsAhead /\ InFlight /\ LapIsReal

\* A copy in progress has the words of its sequence or newer ones, and a newer
\* one shows in the version once the acquire fence is passed.
ConsumerInv ==
  /\ Sound(cview, pview) /\ Sound(pending, pview)
  /\ cpc = "off" => ret = <<"empty">>
  /\ cpc = "copy" =>
       /\ cview[Version(next)] >= Expected(next)
       /\ \A w \in WordIndices : cview[Word(next, w)] >= Lap(next)
       /\ \A w \in 1 .. Len(words) :
            words[w] = next \/ pending[Version(next)] > Expected(next)
  /\ cpc = "lag" => cview[Version(next)] > Expected(next)
  /\ NoTornReadWeak

WeakInv == WeakTypes /\ ProducerInv /\ ConsumerInv

-----------------------------------------------------------------------------
(* Locations and laps. *)

\* Sequences that differ in their slot differ in every location.
LEMMA LocationFacts ==
  /\ HeadLoc \in Locations
  /\ \A s \in Nat : Version(s) \in Locations /\ Version(s) # HeadLoc
  /\ \A s \in Nat, w \in WordIndices :
       Word(s, w) \in Locations /\ Word(s, w) # HeadLoc
  /\ \A s, r \in Nat, w \in WordIndices : Version(s) # Word(r, w)
  /\ \A s, r \in Nat : Version(s) = Version(r) <=> s % Cap = r % Cap
  /\ \A s, r \in Nat, w, x \in WordIndices :
       Word(s, w) = Word(r, x) <=> s % Cap = r % Cap /\ w = x
<1>1. \A s \in Nat : s % Cap \in Slots /\ (s % Cap) % Cap = s % Cap
  BY WeakAssumption, SMTT(60) DEF Slots
<1>2. \A s \in Nat : Version(s % Cap) = Version(s)
  BY <1>1 DEF Version
<1>3. \A s \in Nat, w \in WordIndices : Word(s % Cap, w) = Word(s, w)
  BY <1>1 DEF Word
<1>4. \A s \in Nat : Version(s) \in Locations
  BY <1>1, <1>2 DEF Locations
<1>5. \A s \in Nat, w \in WordIndices : Word(s, w) \in Locations
  BY <1>1, <1>3 DEF Locations, WordIndices
<1>6. HeadLoc \in Locations
  BY DEF Locations
<1>7. /\ HeadLoc[1] = "head"
      /\ \A s \in Nat : Version(s)[1] = "version" /\ Version(s)[2] = s % Cap
      /\ \A s \in Nat, w \in WordIndices :
           Word(s, w)[1] = "data" /\ Word(s, w)[2] = s % Cap /\ Word(s, w)[3] = w
  BY DEF HeadLoc, Version, Word
<1>8. \A s, r \in Nat : s % Cap = r % Cap => Version(s) = Version(r)
  BY DEF Version
<1>9. \A s, r \in Nat, w \in WordIndices :
        s % Cap = r % Cap => Word(s, w) = Word(r, w)
  BY DEF Word
<1>10. \A s \in Nat : Version(s) # HeadLoc
  BY <1>7
<1>11. \A s \in Nat, w \in WordIndices : Word(s, w) # HeadLoc
  BY <1>7
<1>12. \A s, r \in Nat, w \in WordIndices : Version(s) # Word(r, w)
  BY <1>7
<1>13. \A s, r \in Nat : Version(s) = Version(r) <=> s % Cap = r % Cap
  BY <1>7, <1>8
<1>14. \A s, r \in Nat, w, x \in WordIndices :
         Word(s, w) = Word(r, x) <=> s % Cap = r % Cap /\ w = x
  BY <1>7, <1>9
<1> QED BY <1>4, <1>5, <1>6, <1>10, <1>11, <1>12, <1>13, <1>14

\* A sequence is its lap times the capacity, plus its slot.
LEMMA DivisionWithRemainder ==
  ASSUME NEW s \in Nat
  PROVE  /\ s \div Cap \in Nat
         /\ s % Cap \in 0 .. Cap - 1
         /\ s = Cap * (s \div Cap) + (s % Cap)
  BY WeakAssumption, SMT

\* Laps count from one; a version is twice the lap when it is even.
LEMMA LapType ==
  ASSUME NEW s \in Nat
  PROVE  /\ Lap(s) \in Nat /\ Lap(s) >= 1 /\ Expected(s) = 2 * Lap(s)
         /\ Expected(s) \in Nat /\ Expected(s) >= 2
  BY DivisionWithRemainder DEF Lap, Expected

\* Slot and lap determine the sequence.
LEMMA SameLap ==
  ASSUME NEW s \in Nat, NEW r \in Nat, s % Cap = r % Cap, Lap(s) = Lap(r)
  PROVE  s = r
<1>1. /\ s = Cap * (s \div Cap) + (s % Cap) /\ s \div Cap \in Nat
      /\ r = Cap * (r \div Cap) + (r % Cap) /\ r \div Cap \in Nat
  BY DivisionWithRemainder
<1> QED BY <1>1 DEF Lap

\* One lap later the same slot holds a version larger by two.
LEMMA NextLap ==
  ASSUME NEW s \in Nat
  PROVE  /\ (s + Cap) % Cap = s % Cap
         /\ Lap(s + Cap) = Lap(s) + 1
         /\ Expected(s + Cap) = Expected(s) + 2
<1>1. /\ (s + Cap) % Cap = s % Cap
      /\ (s + Cap) \div Cap = (s \div Cap) + 1
  BY WeakAssumption, SMTT(60)
<1>2. s \div Cap \in Nat
  BY WeakAssumption, SMT
<1> QED BY <1>1, <1>2 DEF Lap, Expected

\* Two sequences that share a slot are at least a lap apart.
LEMMA SharedSlot ==
  ASSUME NEW s \in Nat, NEW r \in Nat, s < r, s % Cap = r % Cap
  PROVE  s + Cap <= r /\ Lap(s) < Lap(r)
<1> DEFINE p == s \div Cap
           q == r \div Cap
<1>1. /\ p \in Nat /\ q \in Nat /\ s % Cap \in Nat
      /\ s = Cap * p + (s % Cap)
      /\ r = Cap * q + (r % Cap)
  BY DivisionWithRemainder, WeakAssumption
<1>2. Cap * p < Cap * q
  BY <1>1, WeakAssumption
<1>3. Lap(s) = p + 1 /\ Lap(r) = q + 1
  BY DEF Lap
<1> HIDE DEF p, q
<1>4. p < q
  BY <1>1, <1>2, WeakAssumption
<1>5. Cap * q >= Cap * (p + 1)
  BY <1>1, <1>4, WeakAssumption
<1>6. Cap * (p + 1) = Cap * p + Cap
  BY <1>1, WeakAssumption
<1> QED BY <1>1, <1>3, <1>4, <1>5, <1>6, WeakAssumption

\* The first lap.
LEMMA FirstLap ==
  ASSUME NEW s \in Nat, s < Cap
  PROVE  Lap(s) = 1
<1>1. s \div Cap = 0
  BY WeakAssumption, SMTT(60)
<1> QED BY <1>1 DEF Lap

-----------------------------------------------------------------------------
(* Views. *)

\* A join knows what either view knows and nothing else.
LEMMA JoinType ==
  ASSUME NEW u \in Views, NEW v \in Views
  PROVE  /\ Join(u, v) \in Views
         /\ \A l \in Locations : /\ Join(u, v)[l] >= u[l] /\ Join(u, v)[l] >= v[l]
                                 /\ Join(u, v)[l] \in {u[l], v[l]}
  BY DEF Join, Views

\* The join of sound views is sound.
LEMMA JoinSound ==
  ASSUME NEW u \in Views, NEW v \in Views, NEW newest \in Views,
         Sound(u, newest), Sound(v, newest)
  PROVE  Sound(Join(u, v), newest)
<1> DEFINE j == Join(u, v)
<1>1. /\ j \in Views
      /\ \A l \in Locations : j[l] >= u[l] /\ j[l] >= v[l] /\ j[l] \in {u[l], v[l]}
  BY JoinType
<1> HIDE DEF j
<1>2. \A l \in Locations : j[l] <= newest[l]
  BY <1>1 DEF Sound
<1>3. ASSUME NEW s \in Nat, s < j[HeadLoc] PROVE j[Version(s)] >= Expected(s)
  <2>1. HeadLoc \in Locations /\ Version(s) \in Locations /\ Expected(s) \in Nat
    BY LocationFacts, LapType
  <2>2. /\ j[Version(s)] \in Nat /\ u[Version(s)] \in Nat /\ v[Version(s)] \in Nat
        /\ j[HeadLoc] \in {u[HeadLoc], v[HeadLoc]}
        /\ j[Version(s)] >= u[Version(s)] /\ j[Version(s)] >= v[Version(s)]
    BY <1>1, <2>1 DEF Views
  <2>3. u[Version(s)] >= Expected(s) \/ v[Version(s)] >= Expected(s)
    BY <1>3, <2>2 DEF Sound, HeadCovered
  <2> QED BY <2>1, <2>2, <2>3
<1>4. Sound(j, newest)
  BY <1>2, <1>3 DEF Sound, HeadCovered
<1> QED BY <1>4 DEF j

\* A view may learn of a newer store at any location but head.
LEMMA RaiseSound ==
  ASSUME NEW u \in Views, NEW newest \in Views, Sound(u, newest),
         NEW l \in Locations, l # HeadLoc,
         NEW t \in Nat, u[l] <= t, t <= newest[l]
  PROVE  [u EXCEPT ![l] = t] \in Views /\ Sound([u EXCEPT ![l] = t], newest)
<1> DEFINE r == [u EXCEPT ![l] = t]
<1>1. r \in Views /\ r[HeadLoc] = u[HeadLoc] /\ \A k \in Locations : r[k] >= u[k]
  BY LocationFacts DEF Views
<1>2. \A k \in Locations : r[k] <= newest[k]
  BY DEF Sound, Views
<1> HIDE DEF r
<1>3. ASSUME NEW s \in Nat, s < r[HeadLoc] PROVE r[Version(s)] >= Expected(s)
  <2>1. Version(s) \in Locations /\ Expected(s) \in Nat
    BY LocationFacts, LapType
  <2>2. u[Version(s)] >= Expected(s)
    BY <1>1, <1>3 DEF Sound, HeadCovered
  <2>3. r[Version(s)] \in Nat /\ u[Version(s)] \in Nat
    BY <1>1, <2>1 DEF Views
  <2> QED BY <1>1, <2>1, <2>2, <2>3
<1>4. Sound(r, newest)
  BY <1>2, <1>3 DEF Sound, HeadCovered
<1> QED BY <1>1, <1>4 DEF r

\* A view stays sound when stores are added.
LEMMA SoundGrows ==
  ASSUME NEW u \in Views, NEW old \in Views, NEW new \in Views, Sound(u, old),
         \A l \in Locations : old[l] <= new[l]
  PROVE  Sound(u, new)
<1>1. \A l \in Locations : u[l] \in Nat /\ old[l] \in Nat /\ new[l] \in Nat
  BY DEF Views
<1> QED BY <1>1 DEF Sound

\* Every store read is one that was made.
LEMMA StoreType ==
  ASSUME WeakTypes, Histories, NEW l \in Locations, NEW t \in 0 .. pview[l]
  PROVE  At(l, t) \in Stores /\ At(l, t).view \in Views /\ At(l, t).val \in Int
<1>1. store[l] \in Seq(Stores) /\ Len(store[l]) = pview[l] + 1 /\ pview[l] \in Nat
  BY DEF WeakTypes, Histories, Views
<1>2. store[l][t + 1] \in Stores
  BY <1>1
<1> QED BY <1>2 DEF At, Stores

\* The producer finds in each location what it stored there last.
LEMMA NewestIs ==
  ASSUME WeakTypes, Histories
  PROVE  /\ head = pview[HeadLoc]
         /\ \A s \in Nat : Newest(Version(s)) = pview[Version(s)]
<1>1. \A l \in Locations : /\ Len(store[l]) = pview[l] + 1 /\ pview[l] \in Nat
                           /\ Newest(l) = At(l, pview[l]).val
  BY DEF Histories, Newest, At, WeakTypes, Views
<1>2. head = pview[HeadLoc]
  BY <1>1, LocationFacts DEF head, Histories
<1>3. ASSUME NEW s \in Nat PROVE Newest(Version(s)) = pview[Version(s)]
  BY <1>1, LocationFacts DEF Histories
<1> QED BY <1>2, <1>3

\* The producer stores a value at a location, releasing a view.
Adds(l, rec) ==
  /\ store' = [store EXCEPT ![l] = Append(@, rec)]
  /\ pview' = Stamp(l)

\* One more store at a location leaves every earlier store as it was.
LEMMA AppendStore ==
  ASSUME WeakTypes, Histories, NEW l \in Locations, NEW rec \in Stores,
         Adds(l, rec)
  PROVE  /\ store' \in [Locations -> Seq(Stores)] /\ pview' \in Views
         /\ pview'[l] = pview[l] + 1
         /\ \A k \in Locations : k # l => pview'[k] = pview[k]
         /\ \A k \in Locations : pview[k] <= pview'[k]
         /\ \A k \in Locations : Len(store'[k]) = pview'[k] + 1
         /\ store'[l][pview'[l] + 1] = rec
         /\ \A k \in Locations : \A t \in 0 .. pview[k] :
              store'[k][t + 1] = store[k][t + 1]
<1>1. /\ store \in [Locations -> Seq(Stores)] /\ pview \in Views
      /\ \A k \in Locations : Len(store[k]) = pview[k] + 1 /\ pview[k] \in Nat
  BY DEF WeakTypes, Histories, Views
<1>2. pview' \in Views /\ pview'[l] = pview[l] + 1
  BY <1>1 DEF Adds, Stamp, Views
<1>3. \A k \in Locations : k # l => pview'[k] = pview[k]
  BY <1>1 DEF Adds, Stamp, Views
<1>5. store' = [store EXCEPT ![l] = Append(@, rec)]
  BY DEF Adds
<1>6. /\ store[l] \in Seq(Stores) /\ Len(store[l]) = pview[l] + 1
      /\ store'[l] = Append(store[l], rec)
      /\ \A k \in Locations : k # l => store'[k] = store[k]
  BY <1>1, <1>5
<1>7. /\ store'[l] \in Seq(Stores) /\ Len(store'[l]) = pview[l] + 2
      /\ store'[l][pview[l] + 2] = rec
      /\ \A i \in 1 .. pview[l] + 1 : store'[l][i] = store[l][i]
  <2>1. pview[l] \in Nat
    BY <1>1
  <2> QED BY <1>6, <2>1
<1>8. store' \in [Locations -> Seq(Stores)]
  BY <1>1, <1>5
<1>9. \A k \in Locations : Len(store'[k]) = pview'[k] + 1
  BY <1>1, <1>2, <1>3, <1>6, <1>7
<1>10. \A k \in Locations : \A t \in 0 .. pview[k] :
         store'[k][t + 1] = store[k][t + 1]
  <2> SUFFICES ASSUME NEW k \in Locations, NEW t \in 0 .. pview[k]
               PROVE  store'[k][t + 1] = store[k][t + 1]
    OBVIOUS
  <2>1. t + 1 \in 1 .. pview[k] + 1
    BY <1>1
  <2> QED BY <1>6, <1>7, <2>1
<1>11. store'[l][pview'[l] + 1] = rec
  BY <1>1, <1>2, <1>7
<1>12. \A k \in Locations : pview[k] <= pview'[k]
  BY <1>1, <1>2, <1>3
<1> QED BY <1>2, <1>3, <1>8, <1>9, <1>10, <1>11, <1>12

-----------------------------------------------------------------------------
(* The producer. *)

\* What a new ring holds: every location its initial store, seen by all.
LEMMA InitProducer == Init => WeakTypes /\ ProducerInv
<1> SUFFICES ASSUME Init PROVE WeakTypes /\ ProducerInv
  OBVIOUS
<1>1. Bottom \in Views /\ \A l \in Locations : Bottom[l] = 0
  BY DEF Bottom, Views
<1>2. \A l \in Locations : Initially(l) \in Int
  BY DEF Initially, Blank
<1>3. \A l \in Locations : [val |-> Initially(l), view |-> Bottom] \in Stores
  BY <1>1, <1>2 DEF Stores
<1>4. \A l \in Locations : pview[l] = 0
  BY <1>1 DEF Init
<1>5. \A l \in Locations :
        /\ Len(store[l]) = 1
        /\ store[l][1].val = Initially(l) /\ store[l][1].view = Bottom
  BY DEF Init
<1>6. WeakTypes
  <2>1. store \in [Locations -> Seq(Stores)]
    BY <1>3 DEF Init
  <2> QED BY <1>1, <2>1, WeakAssumption DEF Init, WeakTypes
<1>7. Initially(HeadLoc) = 0 /\ \A s \in Nat : Initially(Version(s)) = 0
  BY DEF Initially, HeadLoc, Version
<1>8. Histories
  <2>1. \A l \in Locations : \A t \in 0 .. pview[l] :
          t = 0 /\ At(l, t).val = Initially(l) /\ At(l, t).view = Bottom
    BY <1>4, <1>5 DEF At
  <2>2. \A s \in Nat, w \in WordIndices : pview[Word(s, w)] = 0
    BY <1>4, LocationFacts
  <2>3. \A l \in Locations : \A t \in 0 .. pview[l] : At(l, t).view[l] = t
    BY <1>1, <2>1
  <2>4. \A t \in 0 .. pview[HeadLoc] : At(HeadLoc, t).val = t
    BY <1>7, <2>1, LocationFacts
  <2>5. \A s \in Nat : \A t \in 0 .. pview[Version(s)] : At(Version(s), t).val = t
    BY <1>7, <2>1, LocationFacts
  <2>6. \A l \in Locations : Len(store[l]) = pview[l] + 1
    <3> SUFFICES ASSUME NEW l \in Locations PROVE Len(store[l]) = pview[l] + 1
      OBVIOUS
    <3>1. Len(store[l]) = 1 /\ pview[l] = 0
      BY <1>4, <1>5
    <3> QED BY <3>1
  <2>7. \A s \in Nat, w \in WordIndices : \A t \in 1 .. pview[Word(s, w)] :
          LET v == At(Word(s, w), t).val
          IN  v \in Nat /\ v % Cap = s % Cap /\ Lap(v) = t
    BY <2>2
  <2> QED BY <2>3, <2>4, <2>5, <2>6, <2>7 DEF Histories
<1>9. Sound(Bottom, Bottom)
  BY <1>1, LocationFacts DEF Sound, HeadCovered
<1>10. StoreViewsSound
  <2>1. pview = Bottom /\ released = Bottom
    BY DEF Init
  <2>2. \A l \in Locations : \A t \in 0 .. pview[l] : At(l, t).view = Bottom
    BY <1>4, <1>5 DEF At
  <2> QED BY <1>9, <2>1, <2>2 DEF StoreViewsSound
<1>11. Releases
  <2>1. \A s \in Nat : ~ (Expected(s) <= pview[Version(s)])
    BY <1>4, LapType, LocationFacts
  <2>2. \A s \in Nat, w \in WordIndices : \A t \in 1 .. pview[Word(s, w)] : FALSE
    BY <1>4, LocationFacts
  <2> QED BY <2>1, <2>2 DEF Releases
<1>12. SlotsAhead
  <2> SUFFICES ASSUME NEW s \in Nat, Begun <= s /\ s < pview[HeadLoc] + Cap
               PROVE  /\ pview[Version(s)] = Expected(s) - 2
                      /\ \A w \in WordIndices : pview[Word(s, w)] = Lap(s) - 1
    BY DEF SlotsAhead
  <2>1. s < Cap
    BY <1>4, LocationFacts, WeakAssumption
  <2>2. Lap(s) = 1 /\ Expected(s) = 2
    BY <2>1, FirstLap, LapType
  <2> QED BY <1>4, <2>2, LocationFacts
<1>13. InFlight
  BY DEF Init, InFlight
<1>14. LapIsReal
  <2>1. \A s \in Nat : ~ (pview[Version(s)] > Expected(s))
    BY <1>4, LapType, LocationFacts
  <2> QED BY <2>1 DEF LapIsReal
<1> QED
  BY <1>6, <1>8, <1>10, <1>11, <1>12, <1>13, <1>14 DEF ProducerInv

\* The history of a location stays what it says it is when a store with the
\* right value and view is added.
LEMMA AppendHistories ==
  ASSUME WeakTypes, Histories, NEW l \in Locations, NEW rec \in Stores,
         Adds(l, rec), rec.view[l] = pview[l] + 1,
         l = HeadLoc => rec.val = pview[l] + 1,
         \A s \in Nat : l = Version(s) => rec.val = pview[l] + 1,
         \A s \in Nat, w \in WordIndices : l = Word(s, w) =>
           /\ rec.val \in Nat /\ rec.val % Cap = s % Cap
           /\ Lap(rec.val) = pview[l] + 1
  PROVE  Histories'
<1>1. /\ pview' \in Views /\ pview \in Views /\ pview'[l] = pview[l] + 1
      /\ \A k \in Locations : k # l => pview'[k] = pview[k]
      /\ \A k \in Locations : Len(store'[k]) = pview'[k] + 1
      /\ store'[l][pview'[l] + 1] = rec
      /\ \A k \in Locations : \A t \in 0 .. pview[k] :
           store'[k][t + 1] = store[k][t + 1]
  BY AppendStore DEF WeakTypes
<1>2. \A k \in Locations : pview[k] \in Nat /\ pview'[k] \in Nat
  BY <1>1 DEF Views
<1>3. \A k \in Locations : \A t \in 0 .. pview'[k] :
        \/ t \in 0 .. pview[k] /\ store'[k][t + 1] = store[k][t + 1]
        \/ /\ k = l /\ t = pview[l] + 1
           /\ store'[k][t + 1] = rec
  BY <1>1, <1>2
<1>4. \A k \in Locations : \A t \in 0 .. pview'[k] :
        store'[k][t + 1].view[k] = t
  BY <1>3 DEF Histories, At
<1>5. \A t \in 0 .. pview'[HeadLoc] : store'[HeadLoc][t + 1].val = t
  BY <1>3, LocationFacts DEF Histories, At
<1>6. \A s \in Nat : \A t \in 0 .. pview'[Version(s)] :
        store'[Version(s)][t + 1].val = t
  BY <1>3, LocationFacts DEF Histories, At
<1>7. \A s \in Nat, w \in WordIndices : \A t \in 1 .. pview'[Word(s, w)] :
        LET u == store'[Word(s, w)][t + 1].val
        IN  u \in Nat /\ u % Cap = s % Cap /\ Lap(u) = t
  <2> SUFFICES ASSUME NEW s \in Nat, NEW w \in WordIndices,
                      NEW t \in 1 .. pview'[Word(s, w)]
               PROVE  LET u == store'[Word(s, w)][t + 1].val
                      IN  u \in Nat /\ u % Cap = s % Cap /\ Lap(u) = t
    OBVIOUS
  <2>1. Word(s, w) \in Locations /\ t \in 0 .. pview'[Word(s, w)]
    BY LocationFacts
  <2>2. CASE /\ t \in 0 .. pview[Word(s, w)]
             /\ store'[Word(s, w)][t + 1] = store[Word(s, w)][t + 1]
    BY <2>2 DEF Histories, At
  <2>3. CASE /\ Word(s, w) = l /\ t = pview[l] + 1
             /\ store'[Word(s, w)][t + 1] = rec
    BY <2>3
  <2> QED BY <1>3, <2>1, <2>2, <2>3
<1> QED BY <1>1, <1>4, <1>5, <1>6, <1>7 DEF Histories, At

\* The views of the stores stay sound when a sound one is added.
LEMMA AppendSound ==
  ASSUME WeakTypes, Histories, StoreViewsSound, NEW l \in Locations,
         NEW rec \in Stores, Adds(l, rec),
         Sound(rec.view, pview'), Sound(released', pview'), HeadCovered(pview')
  PROVE  StoreViewsSound'
<1>1. /\ pview' \in Views /\ pview \in Views /\ pview'[l] = pview[l] + 1
      /\ \A k \in Locations : k # l => pview'[k] = pview[k]
      /\ \A k \in Locations : pview[k] <= pview'[k]
      /\ store'[l][pview'[l] + 1] = rec
      /\ \A k \in Locations : \A t \in 0 .. pview[k] :
           store'[k][t + 1] = store[k][t + 1]
  BY AppendStore DEF WeakTypes
<1>2. \A k \in Locations : pview[k] \in Nat /\ pview'[k] \in Nat
  BY <1>1 DEF Views
<1>3. Sound(pview', pview')
  BY <1>2 DEF Sound
<1>4. ASSUME NEW k \in Locations, NEW t \in 0 .. pview'[k]
      PROVE  Sound(store'[k][t + 1].view, pview')
  <2>1. CASE t \in 0 .. pview[k]
    <3>1. store'[k][t + 1] = At(k, t) /\ At(k, t).view \in Views
      BY <1>1, <2>1, StoreType DEF At
    <3>2. Sound(At(k, t).view, pview)
      BY <2>1 DEF StoreViewsSound
    <3> QED BY <1>1, <3>1, <3>2, SoundGrows
  <2>2. CASE t \notin 0 .. pview[k]
    <3>1. k = l /\ t = pview'[l]
      BY <1>1, <1>2, <2>2
    <3> QED BY <1>1, <3>1
  <2> QED BY <2>1, <2>2
<1>5. Sound(released', pview')
  OBVIOUS
<1> QED BY <1>3, <1>4, <1>5 DEF StoreViewsSound, At

\* A relaxed store of a version or word releases the view of the last fence.
LEMMA RelaxedStoreAdds ==
  ASSUME WeakTypes, Histories, StoreViewsSound,
         NEW l \in Locations, l # HeadLoc, NEW v \in Int, RelaxedStore(l, v)
  PROVE  \E rec \in Stores :
           /\ Adds(l, rec) /\ rec.val = v
           /\ rec.view[l] = pview[l] + 1
           /\ \A k \in Locations : k # l => rec.view[k] = released[k]
           /\ Sound(rec.view, pview') /\ Sound(released, pview')
           /\ HeadCovered(pview')
<1> DEFINE view == [released EXCEPT ![l] = pview[l] + 1]
           rec == [val |-> v, view |-> view]
<1>1. /\ released \in Views /\ pview \in Views /\ pview[l] \in Nat
      /\ \A k \in Locations : released[k] \in Nat /\ pview[k] \in Nat
  BY DEF WeakTypes, Views
<1>2. /\ view \in Views /\ view[l] = pview[l] + 1
      /\ \A k \in Locations : k # l => view[k] = released[k]
  BY <1>1 DEF Views
<1>3. rec \in Stores /\ rec.val = v /\ rec.view = view
  BY <1>2 DEF Stores
<1>4. Adds(l, rec)
  BY DEF RelaxedStore, Adds
<1>5. /\ pview' \in Views /\ pview'[l] = pview[l] + 1
      /\ \A k \in Locations : k # l => pview'[k] = pview[k]
      /\ \A k \in Locations : pview[k] <= pview'[k]
  BY <1>3, <1>4, AppendStore
<1>6. Sound(released, pview) /\ Sound(pview, pview)
  BY DEF StoreViewsSound
<1>7. Sound(released, pview')
  BY <1>1, <1>5, <1>6, SoundGrows
<1>8. Sound(view, pview')
  <2>1. released[l] <= pview[l]
    BY <1>6 DEF Sound
  <2>2. released[l] <= pview[l] + 1 /\ pview[l] + 1 <= pview'[l] /\ pview[l] + 1 \in Nat
    BY <1>1, <1>5, <2>1
  <2> QED BY <1>1, <1>5, <1>7, <2>2, RaiseSound
<1>9. HeadCovered(pview')
  <2>1. Sound(pview, pview')
    BY <1>1, <1>5, <1>6, SoundGrows
  <2>2. pview' = [pview EXCEPT ![l] = pview[l] + 1]
    BY <1>1, <1>4 DEF Adds, Stamp
  <2>3. pview[l] + 1 \in Nat /\ pview[l] <= pview[l] + 1 /\ pview[l] + 1 <= pview'[l]
    BY <1>1, <1>5
  <2>4. Sound([pview EXCEPT ![l] = pview[l] + 1], pview')
    BY <1>1, <1>5, <2>1, <2>3, RaiseSound
  <2> QED BY <2>2, <2>4 DEF Sound
<1> HIDE DEF view
<1> QED BY <1>2, <1>3, <1>4, <1>7, <1>8, <1>9

\* A release store releases everything the producer knows.
LEMMA ReleaseStoreAdds ==
  ASSUME WeakTypes, Histories, NEW l \in Locations, NEW v \in Int,
         ReleaseStore(l, v)
  PROVE  \E rec \in Stores :
           /\ Adds(l, rec) /\ rec.val = v /\ rec.view = pview'
<1> DEFINE rec == [val |-> v, view |-> Stamp(l)]
<1>1. pview \in Views /\ pview[l] \in Nat
  BY DEF WeakTypes, Views
<1>2. Stamp(l) \in Views
  BY <1>1 DEF Stamp, Views
<1>3. rec \in Stores /\ rec.val = v /\ rec.view = Stamp(l)
  BY <1>2 DEF Stores
<1>4. Adds(l, rec) /\ pview' = Stamp(l)
  BY DEF ReleaseStore, Adds
<1> QED BY <1>3, <1>4

\* Where head stands, and the slots it shares with no sequence nearby.
LEMMA HeadFacts ==
  ASSUME WeakTypes, Histories
  PROVE  /\ head = pview[HeadLoc] /\ head \in Nat
         /\ Lap(head) \in Nat /\ Lap(head) >= 1 /\ Expected(head) = 2 * Lap(head)
         /\ Version(head) \in Locations /\ Version(head) # HeadLoc
         /\ \A s \in Nat : s # head /\ head < s + Cap /\ s < head + Cap =>
              s % Cap # head % Cap
<1>1. head = pview[HeadLoc]
  BY NewestIs
<1>2. head \in Nat
  BY <1>1, LocationFacts DEF WeakTypes, Views
<1> HIDE DEF head
<1>3. \A s \in Nat : s # head /\ head < s + Cap /\ s < head + Cap =>
              s % Cap # head % Cap
  <2> SUFFICES ASSUME NEW s \in Nat, s # head, head < s + Cap, s < head + Cap,
                      s % Cap = head % Cap
               PROVE  FALSE
    OBVIOUS
  <2>1. CASE s < head
    <3>1. s + Cap <= head
      BY <1>2, <2>1, SharedSlot
    <3> QED BY <1>2, <3>1, WeakAssumption
  <2>2. CASE head < s
    <3>1. head + Cap <= s
      BY <1>2, <2>2, SharedSlot
    <3> QED BY <1>2, <3>1, WeakAssumption
  <2> QED BY <1>2, <2>1, <2>2
<1>4. /\ Lap(head) \in Nat /\ Lap(head) >= 1 /\ Expected(head) = 2 * Lap(head)
      /\ Version(head) \in Locations /\ Version(head) # HeadLoc
  BY <1>2, LapType, LocationFacts
<1> QED BY <1>1, <1>2, <1>3, <1>4

\* BeginWrite takes the slot away from the sequence a lap before head.
LEMMA BeginWriteProducer ==
  ASSUME WeakTypes, ProducerInv, BeginWrite
  PROVE  WeakTypes' /\ ProducerInv'
<1> DEFINE l == Version(head)
<1>1. /\ Histories /\ StoreViewsSound /\ Releases /\ SlotsAhead /\ LapIsReal
      /\ ppc = "idle" /\ ppc' = "write" /\ stored' = 0 /\ released' = pview'
      /\ UNCHANGED consumerVars
  BY DEF ProducerInv, BeginWrite
<1>2. /\ head = pview[HeadLoc] /\ head \in Nat
      /\ Lap(head) \in Nat /\ Lap(head) >= 1 /\ Expected(head) = 2 * Lap(head)
      /\ l \in Locations /\ l # HeadLoc
      /\ \A s \in Nat : s # head /\ head < s + Cap /\ s < head + Cap =>
           s % Cap # head % Cap
  BY <1>1, HeadFacts
<1>3. /\ pview[l] = Expected(head) - 2
      /\ \A w \in WordIndices : pview[Word(head, w)] = Lap(head) - 1
  BY <1>1, <1>2, WeakAssumption DEF SlotsAhead, Begun
<1>4. RelaxedStore(l, pview[l] + 1) /\ pview[l] + 1 \in Int
  <2>1. Newest(l) = pview[l]
    BY <1>1, <1>2, NewestIs
  <2> QED BY <1>2, <1>3, <2>1 DEF BeginWrite
<1>5. PICK rec \in Stores :
           /\ Adds(l, rec) /\ rec.val = pview[l] + 1
           /\ rec.view[l] = pview[l] + 1
           /\ \A k \in Locations : k # l => rec.view[k] = released[k]
           /\ Sound(rec.view, pview') /\ Sound(released, pview')
           /\ HeadCovered(pview')
  BY <1>1, <1>2, <1>4, RelaxedStoreAdds
<1>6. /\ store' \in [Locations -> Seq(Stores)] /\ pview' \in Views
      /\ pview'[l] = pview[l] + 1
      /\ \A k \in Locations : k # l => pview'[k] = pview[k]
      /\ store'[l][pview'[l] + 1] = rec
      /\ \A k \in Locations : \A t \in 0 .. pview[k] :
           store'[k][t + 1] = store[k][t + 1]
  BY <1>1, <1>2, <1>5, AppendStore
<1>7. WeakTypes'
  BY <1>1, <1>6, WeakAssumption DEF WeakTypes, consumerVars
<1> HIDE DEF l
<1>8. /\ \A s \in Nat : l = Version(s) <=> s % Cap = head % Cap
      /\ \A s \in Nat, w \in WordIndices : l # Word(s, w)
  BY <1>2, LocationFacts DEF l
<1>9. Histories'
  BY <1>1, <1>2, <1>5, <1>8, AppendHistories
<1>10. StoreViewsSound'
  <2>1. Sound(released', pview')
    BY <1>1, <1>5, <1>6 DEF Sound, Views
  <2> QED BY <1>1, <1>2, <1>5, <2>1, AppendSound
<1>11. /\ pview'[HeadLoc] = head
       /\ \A s \in Nat : s % Cap # head % Cap => pview'[Version(s)] = pview[Version(s)]
       /\ \A s \in Nat : s % Cap = head % Cap => pview'[Version(s)] = Expected(head) - 1
       /\ \A s \in Nat, w \in WordIndices : pview'[Word(s, w)] = pview[Word(s, w)]
  <2>1. HeadLoc \in Locations /\ \A s \in Nat : Version(s) \in Locations
    BY LocationFacts
  <2>2. \A s \in Nat, w \in WordIndices : Word(s, w) \in Locations
    BY LocationFacts
  <2>3. pview'[HeadLoc] = head
    BY <1>2, <1>6, <2>1
  <2>4. \A s \in Nat : s % Cap # head % Cap => pview'[Version(s)] = pview[Version(s)]
    BY <1>6, <1>8, <2>1
  <2>5. pview'[l] = Expected(head) - 1
    BY <1>2, <1>3, <1>6
  <2>6. \A s \in Nat : s % Cap = head % Cap => pview'[Version(s)] = Expected(head) - 1
    BY <1>8, <2>5
  <2>7. \A s \in Nat, w \in WordIndices : pview'[Word(s, w)] = pview[Word(s, w)]
    BY <1>6, <1>8, <2>2
  <2> QED BY <2>3, <2>4, <2>6, <2>7
<1>12. Releases'
  <2>1. ASSUME NEW s \in Nat, NEW w \in WordIndices,
               Expected(s) <= pview'[Version(s)]
        PROVE  store'[Version(s)][Expected(s) + 1].view[Word(s, w)] >= Lap(s)
    <3>1. Expected(s) <= pview[Version(s)]
      <4>1. CASE s % Cap = head % Cap
        BY <1>2, <1>3, <1>8, <1>11, <2>1, <4>1, LapType
      <4>2. CASE s % Cap # head % Cap
        BY <1>11, <2>1, <4>2
      <4> QED BY <4>1, <4>2
    <3>2. Version(s) \in Locations /\ Expected(s) \in Nat
      BY LocationFacts, LapType
    <3>3. Expected(s) \in 0 .. pview[Version(s)]
      BY <3>1, <3>2 DEF WeakTypes, Views
    <3> QED BY <1>1, <1>6, <3>1, <3>2, <3>3 DEF Releases, At
  <2>2. ASSUME NEW s \in Nat, NEW w \in WordIndices,
               NEW t \in 1 .. pview'[Word(s, w)]
        PROVE  store'[Word(s, w)][t + 1].view[Version(s)] >= 2 * t - 1
    <3>1. Word(s, w) \in Locations /\ t \in 0 .. pview[Word(s, w)]
      BY <1>11, LocationFacts
    <3> QED BY <1>1, <1>6, <1>11, <3>1 DEF Releases, At
  <2> QED BY <2>1, <2>2 DEF Releases, At
<1>13. SlotsAhead'
  <2> SUFFICES ASSUME NEW s \in Nat, head + 1 <= s, s < head + Cap
               PROVE  /\ pview'[Version(s)] = Expected(s) - 2
                      /\ \A w \in WordIndices : pview'[Word(s, w)] = Lap(s) - 1
    BY <1>1, <1>11 DEF SlotsAhead, Begun
  <2>1. s % Cap # head % Cap
    BY <1>2, WeakAssumption
  <2> QED BY <1>1, <1>2, <1>11, <2>1 DEF SlotsAhead, Begun
<1>14. InFlight'
  <2>1. pview'[Version(head)] = Expected(head) - 1
    BY <1>2, <1>11
  <2>2. \A w \in WordIndices : ~ (w <= 0) /\ pview'[Word(head, w)] = Lap(head) - 1
    BY <1>2, <1>3, <1>11 DEF WordIndices
  <2> QED BY <1>1, <1>11, <2>1, <2>2 DEF InFlight
<1>15. LapIsReal'
  <2> SUFFICES ASSUME NEW s \in Nat, pview'[Version(s)] > Expected(s)
               PROVE  s + Cap <= head
    BY <1>11 DEF LapIsReal
  <2>1. CASE s % Cap # head % Cap
    BY <1>1, <1>2, <1>11, <2>1 DEF LapIsReal
  <2>2. CASE s % Cap = head % Cap
    <3>1. Expected(s) < Expected(head)
      BY <1>2, <1>11, <2>2, LapType
    <3>2. ~ (head < s) /\ s # head
      BY <1>2, <2>2, <3>1, SharedSlot, LapType
    <3> QED BY <1>2, <2>2, <3>2, SharedSlot
  <2> QED BY <2>1, <2>2
<1> QED
  BY <1>7, <1>9, <1>10, <1>12, <1>13, <1>14, <1>15 DEF ProducerInv

\* StoreWord puts the word under the odd version released before it.
LEMMA StoreWordProducer ==
  ASSUME WeakTypes, ProducerInv, StoreWord
  PROVE  WeakTypes' /\ ProducerInv'
<1> DEFINE i == stored + 1
           l == Word(head, i)
<1>1. /\ Histories /\ StoreViewsSound /\ Releases /\ SlotsAhead /\ LapIsReal
      /\ ppc = "write" /\ ppc' = "write" /\ stored' = stored + 1
      /\ released' = released /\ stored \in Nat /\ stored < WordCount
      /\ UNCHANGED consumerVars
  BY DEF ProducerInv, StoreWord, WeakTypes
<1>2. /\ head = pview[HeadLoc] /\ head \in Nat
      /\ Lap(head) \in Nat /\ Lap(head) >= 1 /\ Expected(head) = 2 * Lap(head)
      /\ \A s \in Nat : s # head /\ head < s + Cap /\ s < head + Cap =>
           s % Cap # head % Cap
  BY <1>1, HeadFacts
<1>3. i \in WordIndices /\ i \in Nat
  BY <1>1, WeakAssumption DEF WordIndices
<1>4. l \in Locations /\ l # HeadLoc
  BY <1>2, <1>3, LocationFacts
<1>5. /\ pview[Version(head)] = Expected(head) - 1
      /\ released[Version(head)] = Expected(head) - 1
      /\ \A w \in WordIndices :
           pview[Word(head, w)] = IF w <= stored THEN Lap(head) ELSE Lap(head) - 1
  BY <1>1, <1>2 DEF ProducerInv, InFlight
<1>6. pview[l] = Lap(head) - 1
  BY <1>1, <1>3, <1>5
<1>7. RelaxedStore(l, head) /\ head \in Int
  BY <1>2 DEF StoreWord
<1>8. PICK rec \in Stores :
           /\ Adds(l, rec) /\ rec.val = head
           /\ rec.view[l] = pview[l] + 1
           /\ \A k \in Locations : k # l => rec.view[k] = released[k]
           /\ Sound(rec.view, pview') /\ Sound(released, pview')
           /\ HeadCovered(pview')
  BY <1>1, <1>4, <1>7, RelaxedStoreAdds
<1>9. /\ store' \in [Locations -> Seq(Stores)] /\ pview' \in Views
      /\ pview'[l] = pview[l] + 1
      /\ \A k \in Locations : k # l => pview'[k] = pview[k]
      /\ store'[l][pview'[l] + 1] = rec
      /\ \A k \in Locations : \A t \in 0 .. pview[k] :
           store'[k][t + 1] = store[k][t + 1]
  BY <1>1, <1>4, <1>8, AppendStore
<1>10. WeakTypes'
  BY <1>1, <1>9, WeakAssumption DEF WeakTypes, consumerVars
<1> HIDE DEF l
<1>11. /\ \A s \in Nat : l # Version(s)
       /\ \A s \in Nat, w \in WordIndices :
            l = Word(s, w) <=> s % Cap = head % Cap /\ w = i
  <2>1. \A s \in Nat : l # Version(s)
    BY <1>2, <1>3, LocationFacts DEF l
  <2>2. ASSUME NEW s \in Nat, NEW w \in WordIndices
        PROVE  l = Word(s, w) <=> s % Cap = head % Cap /\ w = i
    BY <1>2, <1>3, LocationFacts DEF l
  <2> QED BY <2>1, <2>2
<1> HIDE DEF i
<1>12. Histories'
  <2>1. ASSUME NEW s \in Nat, NEW w \in WordIndices, l = Word(s, w)
        PROVE  /\ rec.val \in Nat /\ rec.val % Cap = s % Cap
               /\ Lap(rec.val) = pview[l] + 1
    BY <1>2, <1>6, <1>8, <1>11, <2>1
  <2> QED BY <1>1, <1>4, <1>8, <1>11, <2>1, AppendHistories
<1>13. StoreViewsSound'
  <2>1. Sound(released', pview')
    BY <1>1, <1>8
  <2> QED BY <1>1, <1>4, <1>8, <2>1, AppendSound
<1>14. /\ pview'[HeadLoc] = head
       /\ \A s \in Nat : pview'[Version(s)] = pview[Version(s)]
       /\ \A s \in Nat, w \in WordIndices : s % Cap # head % Cap \/ w # i =>
            pview'[Word(s, w)] = pview[Word(s, w)]
  <2>1. HeadLoc \in Locations /\ \A s \in Nat : Version(s) \in Locations
    BY LocationFacts
  <2>2. \A s \in Nat, w \in WordIndices : Word(s, w) \in Locations
    BY LocationFacts
  <2>3. pview'[HeadLoc] = head
    BY <1>2, <1>4, <1>9, <2>1
  <2>4. \A s \in Nat : pview'[Version(s)] = pview[Version(s)]
    BY <1>9, <1>11, <2>1
  <2>5. \A s \in Nat, w \in WordIndices : s % Cap # head % Cap \/ w # i =>
            pview'[Word(s, w)] = pview[Word(s, w)]
    BY <1>9, <1>11, <2>2
  <2> QED BY <2>3, <2>4, <2>5
<1>15. Releases'
  <2>1. ASSUME NEW s \in Nat, NEW w \in WordIndices,
               Expected(s) <= pview'[Version(s)]
        PROVE  store'[Version(s)][Expected(s) + 1].view[Word(s, w)] >= Lap(s)
    <3>1. Expected(s) <= pview[Version(s)]
      BY <1>14, <2>1
    <3>2. Version(s) \in Locations /\ Expected(s) \in Nat
      BY LocationFacts, LapType
    <3>3. Expected(s) \in 0 .. pview[Version(s)]
      BY <3>1, <3>2 DEF WeakTypes, Views
    <3> QED BY <1>1, <1>9, <3>1, <3>2, <3>3 DEF Releases, At
  <2>2. ASSUME NEW s \in Nat, NEW w \in WordIndices,
               NEW t \in 1 .. pview'[Word(s, w)]
        PROVE  store'[Word(s, w)][t + 1].view[Version(s)] >= 2 * t - 1
    <3>1. /\ Word(s, w) \in Locations /\ Version(s) \in Locations
          /\ pview[Word(s, w)] \in Nat
      BY LocationFacts DEF WeakTypes, Views
    <3>2. CASE t \in 0 .. pview[Word(s, w)]
      <4>1. store'[Word(s, w)][t + 1] = store[Word(s, w)][t + 1]
        BY <1>9, <3>1, <3>2
      <4>2. store[Word(s, w)][t + 1].view[Version(s)] >= 2 * t - 1
        BY <1>1, <3>2 DEF Releases, At
      <4> QED BY <4>1, <4>2
    <3>3. CASE t \notin 0 .. pview[Word(s, w)]
      <4>1. Word(s, w) = l /\ t = pview'[l]
        <5>1. pview'[Word(s, w)] # pview[Word(s, w)]
          BY <3>1, <3>3
        <5>2. Word(s, w) = l
          BY <1>9, <3>1, <5>1
        <5>3. pview'[Word(s, w)] = pview[Word(s, w)] + 1
          BY <1>9, <5>2
        <5>4. t = pview'[Word(s, w)]
          BY <3>1, <3>3, <5>3
        <5> QED BY <5>2, <5>4
      <4>2. Version(s) = Version(head)
        BY <1>2, <1>11, <4>1, LocationFacts
      <4>3. rec.view[Version(s)] = 2 * Lap(head) - 1 /\ t = Lap(head)
        BY <1>2, <1>5, <1>6, <1>8, <1>9, <1>11, <3>1, <4>1, <4>2
      <4> QED BY <1>2, <1>9, <4>1, <4>3
    <3> QED BY <3>2, <3>3
  <2> QED BY <2>1, <2>2 DEF Releases, At
<1>16. SlotsAhead'
  <2> SUFFICES ASSUME NEW s \in Nat, head + 1 <= s, s < head + Cap
               PROVE  /\ pview'[Version(s)] = Expected(s) - 2
                      /\ \A w \in WordIndices : pview'[Word(s, w)] = Lap(s) - 1
    BY <1>1, <1>14 DEF SlotsAhead, Begun
  <2>1. s % Cap # head % Cap
    BY <1>2, WeakAssumption
  <2> QED BY <1>1, <1>2, <1>14, <2>1 DEF SlotsAhead, Begun
<1>17. InFlight'
  <2>1. ASSUME NEW w \in WordIndices
        PROVE  pview'[Word(head, w)]
                 = IF w <= stored + 1 THEN Lap(head) ELSE Lap(head) - 1
    <3>1. CASE w = i
      <4>1. pview'[Word(head, w)] = Lap(head)
        BY <1>2, <1>6, <1>9, <1>11, <3>1
      <4> QED BY <1>1, <3>1, <4>1 DEF i
    <3>2. CASE w # i
      <4>1. pview'[Word(head, w)] = pview[Word(head, w)]
        BY <1>2, <1>14, <3>2
      <4>2. w <= stored + 1 <=> w <= stored
        BY <1>1, <3>2 DEF i, WordIndices
      <4> QED BY <1>5, <4>1, <4>2
    <3> QED BY <3>1, <3>2
  <2>2. /\ pview'[Version(head)] = Expected(head) - 1
        /\ released'[Version(head)] = Expected(head) - 1
    BY <1>1, <1>2, <1>5, <1>14
  <2> QED BY <1>1, <1>14, <2>1, <2>2 DEF InFlight
<1>18. LapIsReal'
  BY <1>1, <1>2, <1>14 DEF LapIsReal
<1> QED
  BY <1>10, <1>12, <1>13, <1>15, <1>16, <1>17, <1>18 DEF ProducerInv

\* EndWrite releases the words together with the even version.
LEMMA EndWriteProducer ==
  ASSUME WeakTypes, ProducerInv, EndWrite
  PROVE  WeakTypes' /\ ProducerInv'
<1> DEFINE l == Version(head)
<1>1. /\ Histories /\ StoreViewsSound /\ Releases /\ SlotsAhead /\ LapIsReal
      /\ ppc = "write" /\ ppc' = "announce" /\ stored' = stored
      /\ released' = released /\ stored = WordCount
      /\ UNCHANGED consumerVars
  BY DEF ProducerInv, EndWrite
<1>2. /\ head = pview[HeadLoc] /\ head \in Nat
      /\ Lap(head) \in Nat /\ Lap(head) >= 1 /\ Expected(head) = 2 * Lap(head)
      /\ l \in Locations /\ l # HeadLoc
      /\ \A s \in Nat : s # head /\ head < s + Cap /\ s < head + Cap =>
           s % Cap # head % Cap
  BY <1>1, HeadFacts
<1>3. /\ pview[l] = Expected(head) - 1
      /\ \A w \in WordIndices : pview[Word(head, w)] = Lap(head)
  <2>1. \A w \in WordIndices : w <= stored
    BY <1>1 DEF WordIndices
  <2> QED BY <1>1, <1>2, <2>1 DEF ProducerInv, InFlight
<1>4. ReleaseStore(l, pview[l] + 1) /\ pview[l] + 1 \in Int
  <2>1. Newest(l) = pview[l]
    BY <1>1, <1>2, NewestIs
  <2> QED BY <1>2, <1>3, <2>1 DEF EndWrite
<1>5. PICK rec \in Stores :
           Adds(l, rec) /\ rec.val = pview[l] + 1 /\ rec.view = pview'
  BY <1>1, <1>2, <1>4, ReleaseStoreAdds
<1>6. /\ store' \in [Locations -> Seq(Stores)] /\ pview' \in Views
      /\ pview'[l] = pview[l] + 1
      /\ \A k \in Locations : k # l => pview'[k] = pview[k]
      /\ \A k \in Locations : pview[k] <= pview'[k]
      /\ store'[l][pview'[l] + 1] = rec
      /\ \A k \in Locations : \A t \in 0 .. pview[k] :
           store'[k][t + 1] = store[k][t + 1]
  BY <1>1, <1>2, <1>5, AppendStore
<1>7. WeakTypes'
  BY <1>1, <1>6 DEF WeakTypes, consumerVars
<1> HIDE DEF l
<1>8. /\ \A s \in Nat : l = Version(s) <=> s % Cap = head % Cap
      /\ \A s \in Nat, w \in WordIndices : l # Word(s, w)
  BY <1>2, LocationFacts DEF l
<1>9. Histories'
  BY <1>1, <1>2, <1>5, <1>6, <1>8, AppendHistories
<1>10. /\ pview'[HeadLoc] = head
       /\ \A s \in Nat : s % Cap # head % Cap => pview'[Version(s)] = pview[Version(s)]
       /\ \A s \in Nat : s % Cap = head % Cap => pview'[Version(s)] = Expected(head)
       /\ \A s \in Nat, w \in WordIndices : pview'[Word(s, w)] = pview[Word(s, w)]
  <2>1. HeadLoc \in Locations /\ \A s \in Nat : Version(s) \in Locations
    BY LocationFacts
  <2>2. \A s \in Nat, w \in WordIndices : Word(s, w) \in Locations
    BY LocationFacts
  <2>3. pview'[HeadLoc] = head
    BY <1>2, <1>6, <2>1
  <2>4. \A s \in Nat : s % Cap # head % Cap => pview'[Version(s)] = pview[Version(s)]
    BY <1>6, <1>8, <2>1
  <2>5. pview'[l] = Expected(head)
    BY <1>2, <1>3, <1>6
  <2>6. \A s \in Nat : s % Cap = head % Cap => pview'[Version(s)] = Expected(head)
    BY <1>8, <2>5
  <2>7. \A s \in Nat, w \in WordIndices : pview'[Word(s, w)] = pview[Word(s, w)]
    BY <1>6, <1>8, <2>2
  <2> QED BY <2>3, <2>4, <2>6, <2>7
<1>11. StoreViewsSound'
  <2>1. Sound(pview, pview) /\ Sound(released, pview) /\ pview \in Views
        /\ released \in Views
    BY <1>1 DEF StoreViewsSound, WeakTypes
  <2>2. Sound(pview, pview') /\ Sound(released', pview')
    BY <1>1, <1>6, <2>1, SoundGrows
  <2>3. pview'[l] \in Nat /\ pview[l] <= pview'[l] /\ pview'[l] <= pview'[l]
    BY <1>2, <1>3, <1>6
  <2>4. pview' = [pview EXCEPT ![l] = pview'[l]]
    BY <1>2, <1>5, <1>6, <2>1 DEF Adds, Stamp, Views
  <2>5. Sound(pview', pview')
    BY <1>2, <1>6, <2>1, <2>2, <2>3, <2>4, RaiseSound
  <2> QED BY <1>1, <1>2, <1>5, <2>2, <2>5, AppendSound DEF Sound
<1>12. Releases'
  <2>1. ASSUME NEW s \in Nat, NEW w \in WordIndices,
               Expected(s) <= pview'[Version(s)]
        PROVE  store'[Version(s)][Expected(s) + 1].view[Word(s, w)] >= Lap(s)
    <3>1. /\ Version(s) \in Locations /\ Expected(s) \in Nat
          /\ Expected(s) = 2 * Lap(s) /\ Lap(s) \in Nat
      BY LocationFacts, LapType
    <3>2. CASE Expected(s) <= pview[Version(s)]
      <4>1. Expected(s) \in 0 .. pview[Version(s)]
        BY <3>1, <3>2 DEF WeakTypes, Views
      <4> QED BY <1>1, <1>6, <3>1, <3>2, <4>1 DEF Releases, At
    <3>3. CASE ~ (Expected(s) <= pview[Version(s)])
      <4>1. s % Cap = head % Cap
        BY <1>10, <2>1, <3>3
      <4>2. Version(s) = l /\ pview'[l] = Expected(head)
        BY <1>8, <1>10, <4>1
      <4>3. Expected(s) = Expected(head)
        BY <1>2, <1>3, <2>1, <3>1, <3>3, <4>2
      <4>4. s = head
        BY <1>2, <3>1, <4>1, <4>3, SameLap
      <4>5. pview'[Word(s, w)] = Lap(s)
        BY <1>2, <1>3, <1>10, <4>4
      <4> QED BY <1>2, <1>5, <1>6, <3>1, <4>2, <4>3, <4>5
    <3> QED BY <3>2, <3>3
  <2>2. ASSUME NEW s \in Nat, NEW w \in WordIndices,
               NEW t \in 1 .. pview'[Word(s, w)]
        PROVE  store'[Word(s, w)][t + 1].view[Version(s)] >= 2 * t - 1
    <3>1. Word(s, w) \in Locations /\ t \in 0 .. pview[Word(s, w)]
      BY <1>10, LocationFacts
    <3> QED BY <1>1, <1>6, <1>10, <3>1 DEF Releases, At
  <2> QED BY <2>1, <2>2 DEF Releases, At
<1>13. SlotsAhead'
  <2> SUFFICES ASSUME NEW s \in Nat, head + 1 <= s, s < head + Cap
               PROVE  /\ pview'[Version(s)] = Expected(s) - 2
                      /\ \A w \in WordIndices : pview'[Word(s, w)] = Lap(s) - 1
    BY <1>1, <1>10 DEF SlotsAhead, Begun
  <2>1. s % Cap # head % Cap
    BY <1>2, WeakAssumption
  <2> QED BY <1>1, <1>2, <1>10, <2>1 DEF SlotsAhead, Begun
<1>14. InFlight'
  <2>1. pview'[Version(head)] = Expected(head)
    BY <1>2, <1>10
  <2>2. \A w \in WordIndices : pview'[Word(head, w)] = Lap(head)
    BY <1>2, <1>3, <1>10
  <2> QED BY <1>1, <1>10, <2>1, <2>2 DEF InFlight
<1>15. LapIsReal'
  <2> SUFFICES ASSUME NEW s \in Nat, pview'[Version(s)] > Expected(s)
               PROVE  s + Cap <= head
    BY <1>10 DEF LapIsReal
  <2>1. CASE s % Cap # head % Cap
    BY <1>1, <1>2, <1>10, <2>1 DEF LapIsReal
  <2>2. CASE s % Cap = head % Cap
    <3>1. Expected(s) < Expected(head)
      BY <1>2, <1>10, <2>2, LapType
    <3>2. ~ (head < s) /\ s # head
      BY <1>2, <2>2, <3>1, SharedSlot, LapType
    <3> QED BY <1>2, <2>2, <3>2, SharedSlot
  <2> QED BY <2>1, <2>2
<1> QED
  BY <1>7, <1>9, <1>11, <1>12, <1>13, <1>14, <1>15 DEF ProducerInv

\* Announce releases the slot of head together with the head past it.
LEMMA AnnounceProducer ==
  ASSUME WeakTypes, ProducerInv, Announce
  PROVE  WeakTypes' /\ ProducerInv'
<1>1. /\ Histories /\ StoreViewsSound /\ Releases /\ SlotsAhead /\ LapIsReal
      /\ ppc = "announce" /\ ppc' = "idle" /\ stored' = stored
      /\ released' = released /\ UNCHANGED consumerVars
  BY DEF ProducerInv, Announce
<1>2. /\ head = pview[HeadLoc] /\ head \in Nat
      /\ Lap(head) \in Nat /\ Lap(head) >= 1 /\ Expected(head) = 2 * Lap(head)
      /\ \A s \in Nat : s # head /\ head < s + Cap /\ s < head + Cap =>
           s % Cap # head % Cap
  BY <1>1, HeadFacts
<1>3. /\ pview[Version(head)] = Expected(head)
      /\ \A w \in WordIndices : pview[Word(head, w)] = Lap(head)
  BY <1>1, <1>2 DEF ProducerInv, InFlight
<1>4. /\ HeadLoc \in Locations /\ \A s \in Nat : Version(s) \in Locations
      /\ \A s \in Nat : Version(s) # HeadLoc
      /\ \A s \in Nat, w \in WordIndices :
           Word(s, w) \in Locations /\ Word(s, w) # HeadLoc
  BY LocationFacts
<1>5. ReleaseStore(HeadLoc, head + 1) /\ head + 1 \in Int
  BY <1>2 DEF Announce
<1>6. PICK rec \in Stores :
           Adds(HeadLoc, rec) /\ rec.val = head + 1 /\ rec.view = pview'
  BY <1>1, <1>4, <1>5, ReleaseStoreAdds
<1>7. /\ store' \in [Locations -> Seq(Stores)] /\ pview' \in Views
      /\ pview'[HeadLoc] = pview[HeadLoc] + 1
      /\ \A k \in Locations : k # HeadLoc => pview'[k] = pview[k]
      /\ \A k \in Locations : pview[k] <= pview'[k]
      /\ \A k \in Locations : \A t \in 0 .. pview[k] :
           store'[k][t + 1] = store[k][t + 1]
  BY <1>1, <1>4, <1>6, AppendStore
<1>8. WeakTypes'
  BY <1>1, <1>7 DEF WeakTypes, consumerVars
<1>9. Histories'
  BY <1>1, <1>2, <1>4, <1>6, <1>7, AppendHistories
<1>10. /\ pview'[HeadLoc] = head + 1
       /\ \A s \in Nat : pview'[Version(s)] = pview[Version(s)]
       /\ \A s \in Nat, w \in WordIndices : pview'[Word(s, w)] = pview[Word(s, w)]
  BY <1>2, <1>4, <1>7
<1>11. StoreViewsSound'
  <2>1. Sound(pview, pview) /\ Sound(released, pview) /\ pview \in Views
        /\ released \in Views
    BY <1>1 DEF StoreViewsSound, WeakTypes
  <2>2. Sound(released', pview')
    BY <1>1, <1>7, <2>1, SoundGrows
  <2>3. HeadCovered(pview')
    <3> SUFFICES ASSUME NEW s \in Nat, s < head + 1
                 PROVE  pview'[Version(s)] >= Expected(s)
      BY <1>10 DEF HeadCovered
    <3>1. CASE s = head
      BY <1>2, <1>3, <1>10, <3>1
    <3>2. CASE s < head
      BY <1>2, <1>10, <2>1, <3>2 DEF Sound, HeadCovered
    <3> QED BY <1>2, <3>1, <3>2
  <2>4. Sound(pview', pview')
    BY <1>7, <2>3 DEF Sound, Views
  <2> QED BY <1>1, <1>4, <1>6, <2>2, <2>3, <2>4, AppendSound
<1>12. Releases'
  <2>1. ASSUME NEW s \in Nat, NEW w \in WordIndices,
               Expected(s) <= pview'[Version(s)]
        PROVE  store'[Version(s)][Expected(s) + 1].view[Word(s, w)] >= Lap(s)
    <3>1. Expected(s) \in Nat /\ Expected(s) <= pview[Version(s)]
      BY <1>10, <2>1, LapType
    <3>2. Expected(s) \in 0 .. pview[Version(s)]
      BY <1>4, <3>1 DEF WeakTypes, Views
    <3> QED BY <1>1, <1>4, <1>7, <3>1, <3>2 DEF Releases, At
  <2>2. ASSUME NEW s \in Nat, NEW w \in WordIndices,
               NEW t \in 1 .. pview'[Word(s, w)]
        PROVE  store'[Word(s, w)][t + 1].view[Version(s)] >= 2 * t - 1
    <3>1. t \in 0 .. pview[Word(s, w)]
      BY <1>10
    <3> QED BY <1>1, <1>4, <1>7, <1>10, <3>1 DEF Releases, At
  <2> QED BY <2>1, <2>2 DEF Releases, At
<1>13. SlotsAhead'
  <2> SUFFICES ASSUME NEW s \in Nat, head + 1 <= s, s < head + 1 + Cap
               PROVE  /\ pview'[Version(s)] = Expected(s) - 2
                      /\ \A w \in WordIndices : pview'[Word(s, w)] = Lap(s) - 1
    BY <1>1, <1>10 DEF SlotsAhead, Begun
  <2>1. CASE s < head + Cap
    BY <1>1, <1>2, <1>10, <2>1 DEF SlotsAhead, Begun
  <2>2. CASE s = head + Cap
    <3>1. /\ s % Cap = head % Cap /\ Lap(s) = Lap(head) + 1
          /\ Expected(s) = Expected(head) + 2
      BY <1>2, <2>2, NextLap
    <3>2. /\ Version(s) = Version(head)
          /\ \A w \in WordIndices : Word(s, w) = Word(head, w)
      BY <3>1 DEF Version, Word
    <3> QED BY <1>2, <1>3, <1>10, <3>1, <3>2
  <2> QED BY <1>2, <2>1, <2>2, WeakAssumption
<1>14. InFlight'
  BY <1>1 DEF InFlight
<1>15. LapIsReal'
  <2> SUFFICES ASSUME NEW s \in Nat, pview'[Version(s)] > Expected(s)
               PROVE  s + Cap <= head + 1
    BY <1>10 DEF LapIsReal
  <2>1. s + Cap <= head
    BY <1>1, <1>2, <1>10 DEF LapIsReal
  <2> QED BY <1>2, <2>1, WeakAssumption
<1> QED
  BY <1>8, <1>9, <1>11, <1>12, <1>13, <1>14, <1>15 DEF ProducerInv

\* The producer's view only grows, and the consumer does not move.
LEMMA ProducerStep ==
  ASSUME WeakTypes, ProducerInv, BeginWrite \/ StoreWord \/ EndWrite \/ Announce
  PROVE  /\ WeakTypes' /\ ProducerInv' /\ UNCHANGED consumerVars
         /\ \A k \in Locations : pview[k] <= pview'[k]
<1>1. WeakTypes' /\ ProducerInv'
  BY BeginWriteProducer, StoreWordProducer, EndWriteProducer, AnnounceProducer
<1>2. UNCHANGED consumerVars
  BY DEF BeginWrite, StoreWord, EndWrite, Announce
<1>3. \E l \in Locations : pview' = Stamp(l)
  <2>1. head \in Nat /\ HeadLoc \in Locations /\ Version(head) \in Locations
    BY HeadFacts, LocationFacts DEF ProducerInv
  <2>2. CASE BeginWrite
    BY <2>1, <2>2 DEF BeginWrite, RelaxedStore
  <2>3. CASE StoreWord
    <3>1. stored + 1 \in WordIndices
      BY <2>3, WeakAssumption DEF StoreWord, WeakTypes, WordIndices
    <3>2. Word(head, stored + 1) \in Locations
      BY <2>1, <3>1, LocationFacts
    <3> QED BY <2>3, <3>2 DEF StoreWord, RelaxedStore
  <2>4. CASE EndWrite
    BY <2>1, <2>4 DEF EndWrite, ReleaseStore
  <2>5. CASE Announce
    BY <2>1, <2>5 DEF Announce, ReleaseStore
  <2> QED BY <2>2, <2>3, <2>4, <2>5
<1>4. \A k \in Locations : pview[k] <= pview'[k]
  BY <1>3 DEF Stamp, WeakTypes, Views
<1> QED BY <1>1, <1>2, <1>4

-----------------------------------------------------------------------------
(* The consumer. *)

\* Nothing the invariant says of the producer changes while it stands still.
LEMMA ProducerStutters ==
  ASSUME ProducerInv, UNCHANGED producerVars
  PROVE  ProducerInv'
<1>1. /\ store' = store /\ ppc' = ppc /\ stored' = stored /\ pview' = pview
      /\ released' = released
  BY DEF producerVars
<1>2. Histories'
  BY <1>1 DEF ProducerInv, Histories, At
<1>3. StoreViewsSound'
  BY <1>1 DEF ProducerInv, StoreViewsSound, At
<1>4. Releases'
  BY <1>1 DEF ProducerInv, Releases, At
<1>5. SlotsAhead' /\ InFlight' /\ LapIsReal'
  BY <1>1 DEF ProducerInv, SlotsAhead, InFlight, LapIsReal, Begun
<1> QED BY <1>2, <1>3, <1>4, <1>5 DEF ProducerInv

\* What an acquire load teaches.
LEMMA AcquireTeaches ==
  ASSUME WeakTypes, ProducerInv, ConsumerInv, NEW l \in Locations, NEW t,
         MayRead(cview, l, t), AcquireLoad(l, t)
  PROVE  /\ t \in Nat /\ t \in 0 .. pview[l]
         /\ cview' \in Views /\ pending' \in Views
         /\ Sound(cview', pview) /\ Sound(pending', pview)
         /\ cview'[l] >= t
         /\ \A k \in Locations : cview'[k] >= cview[k]
         /\ \A k \in Locations : cview'[k] >= At(l, t).view[k]
<1>1. /\ cview \in Views /\ pending \in Views /\ pview \in Views
      /\ cview[l] \in Nat /\ pview[l] \in Nat /\ Len(store[l]) = pview[l] + 1
      /\ Sound(cview, pview) /\ Sound(pending, pview)
  BY DEF WeakTypes, Views, ProducerInv, Histories, ConsumerInv
<1>2. t \in Nat /\ t \in 0 .. pview[l] /\ cview[l] <= t
  BY <1>1 DEF MayRead
<1> DEFINE found == At(l, t).view
<1>3. found \in Views /\ Sound(found, pview) /\ found[l] = t
  BY <1>2, StoreType DEF ProducerInv, StoreViewsSound, Histories
<1>4. /\ cview' = Join([cview EXCEPT ![l] = t], found)
      /\ pending' = Join(pending, found)
  BY DEF AcquireLoad
<1> HIDE DEF found
<1>5. Join([cview EXCEPT ![l] = t], found) = Join(cview, found)
  <2>1. ASSUME NEW k \in Locations
        PROVE  (IF [cview EXCEPT ![l] = t][k] >= found[k]
                  THEN [cview EXCEPT ![l] = t][k] ELSE found[k])
                 = IF cview[k] >= found[k] THEN cview[k] ELSE found[k]
    <3>1. CASE k = l
      BY <1>1, <1>2, <1>3, <3>1 DEF Views
    <3>2. CASE k # l
      BY <1>1, <3>2 DEF Views
    <3> QED BY <3>1, <3>2
  <2> QED BY <2>1 DEF Join
<1>6. /\ cview' \in Views /\ Sound(cview', pview)
      /\ \A k \in Locations : cview'[k] >= cview[k] /\ cview'[k] >= found[k]
  BY <1>1, <1>3, <1>4, <1>5, JoinType, JoinSound
<1>7. pending' \in Views /\ Sound(pending', pview)
  BY <1>1, <1>3, <1>4, JoinType, JoinSound
<1> QED BY <1>2, <1>3, <1>6, <1>7 DEF found

\* What a relaxed load of a version or a word teaches.
LEMMA RelaxedTeaches ==
  ASSUME WeakTypes, ProducerInv, ConsumerInv, NEW l \in Locations, l # HeadLoc,
         NEW view \in Views, Sound(view, pview), NEW t,
         MayRead(view, l, t), RelaxedLoad(view, l, t)
  PROVE  /\ t \in Nat /\ t \in 0 .. pview[l] /\ view[l] <= t
         /\ cview' \in Views /\ pending' \in Views
         /\ Sound(cview', pview) /\ Sound(pending', pview)
         /\ \A k \in Locations : cview'[k] >= view[k]
         /\ \A k \in Locations : pending'[k] >= pending[k]
         /\ \A k \in Locations : pending'[k] >= At(l, t).view[k]
<1>1. /\ pending \in Views /\ pview \in Views
      /\ view[l] \in Nat /\ pview[l] \in Nat /\ Len(store[l]) = pview[l] + 1
      /\ Sound(pending, pview)
  BY DEF WeakTypes, Views, ProducerInv, Histories, ConsumerInv
<1>2. t \in Nat /\ t \in 0 .. pview[l] /\ view[l] <= t
  BY <1>1 DEF MayRead
<1>3. At(l, t).view \in Views /\ Sound(At(l, t).view, pview)
  BY <1>2, StoreType DEF ProducerInv, StoreViewsSound
<1>4. /\ cview' = [view EXCEPT ![l] = t]
      /\ pending' = Join(pending, At(l, t).view)
  BY DEF RelaxedLoad
<1>5. cview' \in Views /\ Sound(cview', pview)
  <2>1. t <= pview[l]
    BY <1>1, <1>2
  <2>2. /\ [view EXCEPT ![l] = t] \in Views
        /\ Sound([view EXCEPT ![l] = t], pview)
    BY <1>1, <1>2, <2>1, RaiseSound
  <2> QED BY <1>4, <2>2
<1>6. \A k \in Locations : cview'[k] >= view[k]
  BY <1>1, <1>2, <1>4 DEF Views
<1>7. /\ pending' \in Views /\ Sound(pending', pview)
      /\ \A k \in Locations : /\ pending'[k] >= pending[k]
                              /\ pending'[k] >= At(l, t).view[k]
  BY <1>1, <1>3, <1>4, JoinType, JoinSound
<1> QED BY <1>2, <1>5, <1>6, <1>7

\* What the consumer's cursor names.
LEMMA CursorFacts ==
  ASSUME WeakTypes
  PROVE  /\ next \in Nat /\ Lap(next) \in Nat /\ Expected(next) = 2 * Lap(next)
         /\ Lap(next) >= 1 /\ Expected(next) \in Nat
         /\ HeadLoc \in Locations
         /\ Version(next) \in Locations /\ Version(next) # HeadLoc
         /\ \A w \in WordIndices :
              Word(next, w) \in Locations /\ Word(next, w) # HeadLoc
<1>1. next \in Nat
  BY DEF WeakTypes
<1> QED BY <1>1, LapType, LocationFacts

\* A subscription starts with no result.
LEMMA SubscribeConsumer ==
  ASSUME WeakTypes, ProducerInv, ConsumerInv, NEW t, Subscribe(t)
  PROVE  WeakTypes' /\ ConsumerInv'
<1>1. /\ MayRead(cview, HeadLoc, t) /\ AcquireLoad(HeadLoc, t) /\ cpc = "off"
      /\ next' = At(HeadLoc, t).val /\ cpc' = "idle"
      /\ UNCHANGED <<producerVars, words, ret>>
  BY DEF Subscribe
<1>2. /\ t \in Nat /\ t \in 0 .. pview[HeadLoc]
      /\ cview' \in Views /\ pending' \in Views
      /\ Sound(cview', pview) /\ Sound(pending', pview)
  BY <1>1, CursorFacts, AcquireTeaches
<1>3. next' \in Nat
  BY <1>1, <1>2 DEF ProducerInv, Histories
<1>4. WeakTypes'
  BY <1>1, <1>2, <1>3 DEF WeakTypes, producerVars
<1>5. ret' = <<"empty">> /\ pview' = pview
  BY <1>1 DEF ConsumerInv, producerVars
<1>6. NoTornReadWeak'
  BY <1>5 DEF NoTornReadWeak
<1> QED BY <1>1, <1>2, <1>4, <1>5, <1>6 DEF ConsumerInv

\* Acquiring the expected version brings every word of that lap into view.
LEMMA PollConsumer ==
  ASSUME WeakTypes, ProducerInv, ConsumerInv, NEW t, Poll(t)
  PROVE  WeakTypes' /\ ConsumerInv'
<1> DEFINE l == Version(next)
<1>1. /\ MayRead(cview, l, t) /\ AcquireLoad(l, t) /\ cpc = "idle"
      /\ words' = <<>> /\ UNCHANGED <<producerVars, next>>
      /\ \/ ret' = <<"empty">> /\ cpc' = cpc
         \/ At(l, t).val = Expected(next) /\ cpc' = "copy" /\ ret' = ret
         \/ At(l, t).val > Expected(next) /\ cpc' = "lag" /\ ret' = ret
  BY DEF Poll
<1>2. /\ next \in Nat /\ Lap(next) \in Nat /\ Expected(next) \in Nat
      /\ l \in Locations
      /\ \A w \in WordIndices : Word(next, w) \in Locations
  BY CursorFacts
<1>3. /\ t \in Nat /\ t \in 0 .. pview[l]
      /\ cview' \in Views /\ pending' \in Views
      /\ Sound(cview', pview) /\ Sound(pending', pview)
      /\ cview'[l] >= t
      /\ \A k \in Locations : cview'[k] >= At(l, t).view[k]
  BY <1>1, <1>2, AcquireTeaches
<1>4. At(l, t).val = t
  BY <1>2, <1>3 DEF ProducerInv, Histories
<1>5. WeakTypes'
  BY <1>1, <1>3, WeakAssumption DEF WeakTypes, producerVars
<1>6. pview' = pview /\ next' = next /\ Len(words') = 0
  BY <1>1 DEF producerVars
<1>7. cpc' # "off"
  BY <1>1
<1>8. cpc' = "copy" =>
        /\ cview'[l] >= Expected(next)
        /\ \A w \in WordIndices : cview'[Word(next, w)] >= Lap(next)
  <2> SUFFICES ASSUME cpc' = "copy"
               PROVE  /\ cview'[l] >= Expected(next)
                      /\ \A w \in WordIndices : cview'[Word(next, w)] >= Lap(next)
    OBVIOUS
  <2>1. t = Expected(next)
    BY <1>1, <1>4
  <2>2. Expected(next) <= pview[l]
    BY <1>3, <2>1
  <2>3. ASSUME NEW w \in WordIndices PROVE cview'[Word(next, w)] >= Lap(next)
    <3>1. At(l, t).view[Word(next, w)] >= Lap(next)
      BY <1>2, <2>1, <2>2 DEF ProducerInv, Releases
    <3>2. At(l, t).view \in Views
      BY <1>2, <1>3, StoreType DEF ProducerInv
    <3>3. At(l, t).view[Word(next, w)] \in Nat /\ cview'[Word(next, w)] \in Nat
      BY <1>2, <1>3, <3>2 DEF Views
    <3> QED BY <1>2, <1>3, <3>1, <3>3
  <2> QED BY <1>3, <2>1, <2>3
<1>9. cpc' = "lag" => cview'[l] > Expected(next)
  <2> SUFFICES ASSUME cpc' = "lag" PROVE cview'[l] > Expected(next)
    OBVIOUS
  <2>1. t > Expected(next)
    BY <1>1, <1>4
  <2>2. cview'[l] \in Nat
    BY <1>2, <1>3 DEF Views
  <2> QED BY <1>2, <1>3, <2>1, <2>2
<1>10. NoTornReadWeak'
  <2>1. CASE ret' = <<"empty">>
    BY <2>1 DEF NoTornReadWeak
  <2>2. CASE ret' = ret
    BY <1>6, <2>2 DEF ConsumerInv, NoTornReadWeak
  <2> QED BY <1>1, <2>1, <2>2
<1> QED
  BY <1>3, <1>5, <1>6, <1>7, <1>8, <1>9, <1>10 DEF ConsumerInv

\* A word is the one of the cursor, or it brings a newer version into view.
LEMMA LoadWordConsumer ==
  ASSUME WeakTypes, ProducerInv, ConsumerInv, NEW t, LoadWord(t)
  PROVE  WeakTypes' /\ ConsumerInv'
<1> DEFINE i == Len(words) + 1
           l == Word(next, i)
           v == Version(next)
<1>1. /\ MayRead(cview, l, t) /\ RelaxedLoad(cview, l, t) /\ cpc = "copy"
      /\ Len(words) < WordCount /\ words' = Append(words, At(l, t).val)
      /\ UNCHANGED <<producerVars, cpc, next, ret>>
  BY DEF LoadWord
<1>2. /\ next \in Nat /\ Lap(next) \in Nat /\ Lap(next) >= 1
      /\ Expected(next) = 2 * Lap(next) /\ v \in Locations
      /\ \A w \in WordIndices :
           Word(next, w) \in Locations /\ Word(next, w) # HeadLoc
  BY CursorFacts
<1>3. /\ words \in Seq(Int) /\ Len(words) \in Nat
      /\ cview \in Views /\ pending \in Views /\ Sound(cview, pview)
  BY DEF WeakTypes, ConsumerInv
<1>4. i \in WordIndices
  BY <1>1, <1>3, WeakAssumption DEF WordIndices
<1>5. l \in Locations /\ l # HeadLoc
  BY <1>2, <1>4
<1>6. /\ t \in Nat /\ t \in 0 .. pview[l] /\ cview[l] <= t
      /\ cview' \in Views /\ pending' \in Views
      /\ Sound(cview', pview) /\ Sound(pending', pview)
      /\ \A k \in Locations : cview'[k] >= cview[k]
      /\ \A k \in Locations : pending'[k] >= pending[k]
      /\ \A k \in Locations : pending'[k] >= At(l, t).view[k]
  BY <1>1, <1>3, <1>5, RelaxedTeaches
<1>7. At(l, t).val \in Int /\ At(l, t).view \in Views
  BY <1>5, <1>6, StoreType DEF ProducerInv
<1>8. /\ words' \in Seq(Int) /\ Len(words') = i
      /\ words'[i] = At(l, t).val
      /\ \A w \in 1 .. Len(words) : words'[w] = words[w]
  BY <1>1, <1>3, <1>7
<1>9. WeakTypes'
  <2>1. Len(words') <= WordCount
    BY <1>1, <1>3, <1>8, WeakAssumption
  <2> QED BY <1>1, <1>6, <1>8, <2>1 DEF WeakTypes, producerVars
<1>10. /\ pview' = pview /\ next' = next /\ cpc' = "copy" /\ ret' = ret
  BY <1>1 DEF producerVars
<1>11. /\ \A k \in Locations : cview[k] \in Nat /\ cview'[k] \in Nat
       /\ \A k \in Locations : pending[k] \in Nat /\ pending'[k] \in Nat
       /\ \A k \in Locations : At(l, t).view[k] \in Nat
  BY <1>3, <1>6, <1>7 DEF Views
<1>12. /\ cview[v] >= Expected(next)
       /\ \A w \in WordIndices : cview[Word(next, w)] >= Lap(next)
       /\ \A w \in 1 .. Len(words) :
            words[w] = next \/ pending[v] > Expected(next)
  BY <1>1 DEF ConsumerInv
<1>13. /\ cview'[v] >= Expected(next)
       /\ \A w \in WordIndices : cview'[Word(next, w)] >= Lap(next)
  <2>1. cview'[v] >= Expected(next)
    BY <1>2, <1>6, <1>11, <1>12
  <2>2. ASSUME NEW w \in WordIndices PROVE cview'[Word(next, w)] >= Lap(next)
    <3>1. Word(next, w) \in Locations /\ cview[Word(next, w)] >= Lap(next)
      BY <1>2, <1>12
    <3> QED BY <1>2, <1>6, <1>11, <3>1
  <2> QED BY <2>1, <2>2
<1>14. At(l, t).val = next \/ pending'[v] > Expected(next)
  <2>1. t >= Lap(next) /\ t \in 1 .. pview[l]
    BY <1>2, <1>4, <1>6, <1>11, <1>12
  <2>2. /\ At(l, t).val \in Nat /\ At(l, t).val % Cap = next % Cap
        /\ Lap(At(l, t).val) = t /\ At(l, t).view[v] >= 2 * t - 1
    BY <1>2, <1>4, <2>1 DEF ProducerInv, Histories, Releases
  <2>3. CASE t = Lap(next)
    BY <1>2, <2>2, <2>3, SameLap
  <2>4. CASE t > Lap(next)
    <3>1. pending'[v] >= At(l, t).view[v] /\ pending'[v] \in Nat
          /\ At(l, t).view[v] \in Nat
      BY <1>2, <1>6, <1>11
    <3> QED BY <1>2, <1>6, <2>2, <2>4, <3>1
  <2> QED BY <1>2, <1>6, <2>1, <2>3, <2>4
<1>15. ASSUME NEW w \in 1 .. Len(words')
       PROVE  words'[w] = next \/ pending'[v] > Expected(next)
  <2>1. CASE w = i
    BY <1>8, <1>14, <2>1
  <2>2. CASE w # i
    <3>1. w \in 1 .. Len(words)
      BY <1>3, <1>8, <2>2
    <3>2. words'[w] = words[w]
      BY <1>8, <3>1
    <3>3. words[w] = next \/ pending[v] > Expected(next)
      BY <1>12, <3>1
    <3>4. pending'[v] >= pending[v] /\ pending'[v] \in Nat /\ pending[v] \in Nat
      BY <1>2, <1>6, <1>11
    <3> QED BY <1>2, <3>2, <3>3, <3>4
  <2> QED BY <2>1, <2>2
<1>16. NoTornReadWeak'
  BY <1>10 DEF ConsumerInv, NoTornReadWeak
<1> QED BY <1>6, <1>9, <1>10, <1>13, <1>15, <1>16 DEF ConsumerInv

\* Past the acquire fence the expected version excludes every newer word.
LEMMA RecheckConsumer ==
  ASSUME WeakTypes, ProducerInv, ConsumerInv, NEW t, Recheck(t)
  PROVE  WeakTypes' /\ ConsumerInv'
<1> DEFINE l == Version(next)
<1>1. /\ MayRead(Fenced, l, t) /\ RelaxedLoad(Fenced, l, t) /\ cpc = "copy"
      /\ Len(words) = WordCount /\ words' = <<>> /\ UNCHANGED producerVars
      /\ \/ /\ At(l, t).val = Expected(next)
            /\ ret' = <<"event", words>> /\ next' = next + 1 /\ cpc' = "idle"
         \/ /\ At(l, t).val # Expected(next)
            /\ next' = next /\ ret' = ret /\ cpc' = "lag"
  BY DEF Recheck
<1>2. /\ next \in Nat /\ Expected(next) \in Nat /\ l \in Locations /\ l # HeadLoc
  BY CursorFacts
<1>3. /\ cview \in Views /\ pending \in Views /\ pview \in Views
      /\ Sound(cview, pview) /\ Sound(pending, pview)
      /\ cview[l] >= Expected(next)
      /\ \A w \in 1 .. Len(words) :
           words[w] = next \/ pending[l] > Expected(next)
  BY <1>1 DEF WeakTypes, ConsumerInv
<1>4. /\ Fenced \in Views /\ Sound(Fenced, pview)
      /\ Fenced[l] >= cview[l] /\ Fenced[l] >= pending[l]
  BY <1>2, <1>3, JoinType, JoinSound DEF Fenced
<1>5. /\ t \in Nat /\ t \in 0 .. pview[l] /\ Fenced[l] <= t
      /\ cview' \in Views /\ pending' \in Views
      /\ Sound(cview', pview) /\ Sound(pending', pview)
      /\ \A k \in Locations : cview'[k] >= Fenced[k]
  BY <1>1, <1>2, <1>4, RelaxedTeaches
<1>6. At(l, t).val = t
  BY <1>2, <1>5 DEF ProducerInv, Histories
<1>7. /\ cview[l] \in Nat /\ pending[l] \in Nat /\ Fenced[l] \in Nat
      /\ cview'[l] \in Nat
  BY <1>2, <1>3, <1>4, <1>5 DEF Views
<1>8. WeakTypes'
  BY <1>1, <1>2, <1>5, WeakAssumption DEF WeakTypes, producerVars
<1>9. pview' = pview /\ Len(words') = 0 /\ cpc' \in {"idle", "lag"}
  BY <1>1 DEF producerVars
<1>10. CASE /\ At(l, t).val = Expected(next)
            /\ ret' = <<"event", words>> /\ next' = next + 1 /\ cpc' = "idle"
  <2>1. ~ (pending[l] > Expected(next))
    BY <1>2, <1>4, <1>5, <1>6, <1>7, <1>10
  <2>2. \A w \in 1 .. WordCount : words[w] = next
    BY <1>1, <1>3, <2>1
  <2>3. ret'[2] = words /\ next' - 1 = next
    BY <1>2, <1>10
  <2>4. NoTornReadWeak'
    BY <2>2, <2>3 DEF NoTornReadWeak
  <2> QED BY <1>5, <1>8, <1>9, <1>10, <2>4 DEF ConsumerInv
<1>11. CASE /\ At(l, t).val # Expected(next)
            /\ next' = next /\ ret' = ret /\ cpc' = "lag"
  <2>1. t > Expected(next)
    BY <1>2, <1>3, <1>4, <1>5, <1>6, <1>7, <1>11
  <2>2. cview'[l] > Expected(next)
    <3>1. cview'[l] >= Fenced[l] /\ Fenced[l] >= Expected(next)
      BY <1>2, <1>3, <1>4, <1>5, <1>7
    <3>2. cview'[l] = t
      BY <1>1, <1>2, <1>4 DEF RelaxedLoad, Views
    <3> QED BY <2>1, <3>2
  <2>3. NoTornReadWeak'
    BY <1>11 DEF ConsumerInv, NoTornReadWeak
  <2> QED BY <1>5, <1>8, <1>9, <1>11, <2>2, <2>3 DEF ConsumerInv
<1> QED BY <1>1, <1>10, <1>11

\* A jump returns no event.
LEMMA JumpConsumer ==
  ASSUME WeakTypes, ProducerInv, ConsumerInv, NEW t, Jump(t)
  PROVE  /\ WeakTypes' /\ ConsumerInv'
         /\ next' = next + ret'[2] /\ next' - 1 + Cap <= head
<1> DEFINE behind == At(HeadLoc, t).val - Cap - next
           lost == IF behind >= 1 THEN behind ELSE 1
<1>1. /\ MayRead(cview, HeadLoc, t) /\ AcquireLoad(HeadLoc, t) /\ cpc = "lag"
      /\ next' = next + lost /\ ret' = <<"lagged", lost>> /\ cpc' = "idle"
      /\ UNCHANGED <<producerVars, words>>
  BY DEF Jump
<1>2. /\ next \in Nat /\ Expected(next) \in Nat /\ Version(next) \in Locations
      /\ HeadLoc \in Locations
  BY CursorFacts
<1>3. /\ t \in Nat /\ t \in 0 .. pview[HeadLoc]
      /\ cview' \in Views /\ pending' \in Views
      /\ Sound(cview', pview) /\ Sound(pending', pview)
  BY <1>1, <1>2, AcquireTeaches
<1>4. At(HeadLoc, t).val = t
  BY <1>3 DEF ProducerInv, Histories
<1>5. lost \in Nat /\ lost >= 1
  BY <1>2, <1>3, <1>4, WeakAssumption
<1>6. WeakTypes'
  <2>1. next' \in Nat
    BY <1>1, <1>2, <1>5
  <2> QED BY <1>1, <1>3, <2>1 DEF WeakTypes, producerVars
<1>7. pview' = pview /\ NoTornReadWeak'
  BY <1>1 DEF producerVars, NoTornReadWeak
<1>8. ConsumerInv'
  BY <1>1, <1>3, <1>7 DEF ConsumerInv
<1>9. head = pview[HeadLoc] /\ head \in Nat
  BY HeadFacts DEF ProducerInv
<1>10. next + Cap <= head
  <2>1. /\ cview[Version(next)] > Expected(next)
        /\ cview[Version(next)] <= pview[Version(next)]
    BY <1>1, <1>2 DEF ConsumerInv, Sound
  <2>2. cview[Version(next)] \in Nat /\ pview[Version(next)] \in Nat
    BY <1>2 DEF WeakTypes, Views
  <2>3. pview[Version(next)] > Expected(next)
    BY <1>2, <2>1, <2>2
  <2> QED BY <1>2, <1>9, <2>3 DEF ProducerInv, LapIsReal
<1>11. next' - 1 + Cap <= head
  <2>1. CASE behind >= 1
    BY <1>1, <1>2, <1>3, <1>4, <1>9, <2>1, WeakAssumption
  <2>2. CASE ~ (behind >= 1)
    BY <1>1, <1>2, <1>9, <1>10, <2>2, WeakAssumption
  <2> QED BY <2>1, <2>2
<1>12. ret'[2] = lost
  BY <1>1
<1> QED BY <1>1, <1>6, <1>8, <1>11, <1>12

-----------------------------------------------------------------------------
(* The invariant and what follows from it. *)

\* The new ring satisfies the invariant.
LEMMA InitWeakInv == Init => WeakInv
<1> SUFFICES ASSUME Init PROVE WeakInv
  OBVIOUS
<1>1. WeakTypes /\ ProducerInv
  BY InitProducer
<1>2. Sound(cview, pview) /\ Sound(pending, pview)
  BY <1>1 DEF Init, ProducerInv, StoreViewsSound
<1>3. NoTornReadWeak
  BY DEF Init, NoTornReadWeak
<1> QED BY <1>1, <1>2, <1>3 DEF Init, WeakInv, ConsumerInv

\* Every step of the producer and every load of the consumer keeps it.
LEMMA NextWeakInv == WeakInv /\ [Next]_vars => WeakInv'
<1> SUFFICES ASSUME WeakInv, [Next]_vars PROVE WeakInv'
  OBVIOUS
<1>1. WeakTypes /\ ProducerInv /\ ConsumerInv
  BY DEF WeakInv
<1>2. CASE BeginWrite \/ StoreWord \/ EndWrite \/ Announce
  <2>1. /\ WeakTypes' /\ ProducerInv' /\ UNCHANGED consumerVars
        /\ \A k \in Locations : pview[k] <= pview'[k]
    BY <1>1, <1>2, ProducerStep
  <2>2. /\ cview \in Views /\ pending \in Views /\ pview \in Views
        /\ pview' \in Views /\ cview' = cview /\ pending' = pending
    BY <1>1, <2>1 DEF WeakTypes, consumerVars
  <2>3. Sound(cview, pview') /\ Sound(pending, pview')
    BY <1>1, <2>1, <2>2, SoundGrows DEF ConsumerInv
  <2>4. NoTornReadWeak'
    BY <1>1, <2>1 DEF ConsumerInv, NoTornReadWeak, consumerVars
  <2>5. ConsumerInv'
    BY <1>1, <2>1, <2>2, <2>3, <2>4 DEF ConsumerInv, consumerVars
  <2> QED BY <2>1, <2>5 DEF WeakInv
<1>3. ASSUME NEW t \in Timestamps,
             Subscribe(t) \/ Poll(t) \/ LoadWord(t) \/ Recheck(t) \/ Jump(t)
      PROVE  WeakInv'
  <2>1. UNCHANGED producerVars
    BY <1>3 DEF Subscribe, Poll, LoadWord, Recheck, Jump
  <2>2. WeakTypes' /\ ConsumerInv'
    BY <1>1, <1>3, SubscribeConsumer, PollConsumer, LoadWordConsumer,
       RecheckConsumer, JumpConsumer
  <2>3. ProducerInv'
    BY <1>1, <2>1, ProducerStutters
  <2> QED BY <2>2, <2>3 DEF WeakInv
<1>4. CASE UNCHANGED vars
  <2>1. UNCHANGED producerVars /\ UNCHANGED consumerVars
    BY <1>4 DEF vars, producerVars, consumerVars
  <2>2. ProducerInv'
    BY <1>1, <2>1, ProducerStutters
  <2>3. WeakTypes'
    BY <1>1, <2>1 DEF WeakTypes, producerVars, consumerVars
  <2>4. NoTornReadWeak'
    BY <1>1, <2>1 DEF ConsumerInv, NoTornReadWeak, consumerVars
  <2>5. ConsumerInv'
    BY <1>1, <2>1, <2>4 DEF ConsumerInv, producerVars, consumerVars
  <2> QED BY <2>2, <2>3, <2>5 DEF WeakInv
<1> QED BY <1>2, <1>3, <1>4 DEF Next

\* On every execution the orderings of ring.rs allow, the values and views of
\* all stores and what producer and consumer know of them fit together.
THEOREM WeakInvariant == Spec => []WeakInv
<1>1. Init => WeakInv
  BY InitWeakInv
<1>2. WeakInv /\ [Next]_vars => WeakInv'
  BY NextWeakInv
<1> QED BY <1>1, <1>2, PTL DEF Spec

\* try_next returns no event mixed from two, however loads are reordered: the
\* release fence before the words and the acquire fence after them suffice.
THEOREM NoTornReadEver == Spec => []NoTornReadWeak
<1>1. WeakInv => NoTornReadWeak
  BY DEF WeakInv, ConsumerInv
<1> QED BY <1>1, WeakInvariant, PTL

\* A consumer that has seen the head at h sees every slot below h written: the
\* Release store of head in publish carries the versions before it.
THEOREM HeadCoversSlotsEver == Spec => []HeadCoversSlots
<1>1. WeakInv => HeadCoversSlots
  <2> SUFFICES ASSUME WeakInv, NEW s \in next .. cview[HeadLoc] - 1
               PROVE  At(Version(s), cview[Version(s)]).val >= Expected(s)
    BY DEF HeadCoversSlots
  <2>1. WeakTypes /\ Histories /\ Sound(cview, pview)
    BY DEF WeakInv, ProducerInv, ConsumerInv
  <2>2. HeadLoc \in Locations /\ cview[HeadLoc] \in Nat /\ next \in Nat
    BY <2>1, LocationFacts DEF WeakTypes, Views
  <2>3. s \in Nat /\ s < cview[HeadLoc]
    BY <2>2
  <2>4. Version(s) \in Locations /\ cview[Version(s)] \in Nat
        /\ pview[Version(s)] \in Nat
    BY <2>1, <2>3, LocationFacts DEF WeakTypes, Views
  <2>5. /\ cview[Version(s)] >= Expected(s)
        /\ cview[Version(s)] \in 0 .. pview[Version(s)]
    BY <2>1, <2>3, <2>4 DEF Sound, HeadCovered
  <2>6. At(Version(s), cview[Version(s)]).val = cview[Version(s)]
    BY <2>1, <2>3, <2>5 DEF Histories
  <2> QED BY <2>5, <2>6
<1> QED BY <1>1, WeakInvariant, PTL

\* Whatever old head the lag handling loads, the events it reports as lost
\* have been overwritten, or are being overwritten.
THEOREM NoFalseLossEver == Spec => NoFalseLossWeak
<1>1. WeakInv /\ [Next]_vars =>
        [ret'[1] = "lagged" /\ next' # next =>
           next' = next + ret'[2] /\ next' - 1 + Cap <= head]_vars
  <2> SUFFICES ASSUME WeakInv, Next, ret'[1] = "lagged", next' # next
               PROVE  next' = next + ret'[2] /\ next' - 1 + Cap <= head
    OBVIOUS
  <2>1. WeakTypes /\ ProducerInv /\ ConsumerInv
    BY DEF WeakInv
  <2>2. CASE BeginWrite \/ StoreWord \/ EndWrite \/ Announce
    BY <2>2 DEF BeginWrite, StoreWord, EndWrite, Announce, consumerVars
  <2>3. ASSUME NEW t \in Timestamps, Subscribe(t) PROVE FALSE
    BY <2>1, <2>3 DEF Subscribe, ConsumerInv
  <2>4. ASSUME NEW t \in Timestamps, Poll(t) \/ LoadWord(t) PROVE FALSE
    BY <2>4 DEF Poll, LoadWord
  <2>5. ASSUME NEW t \in Timestamps, Recheck(t) PROVE FALSE
    <3>1. ret' = <<"event", words>> \/ next' = next
      BY <2>5 DEF Recheck
    <3> QED BY <3>1
  <2>6. ASSUME NEW t \in Timestamps, Jump(t)
        PROVE  next' = next + ret'[2] /\ next' - 1 + Cap <= head
    BY <2>1, <2>6, JumpConsumer
  <2> QED BY <2>2, <2>3, <2>4, <2>5, <2>6 DEF Next
<1> QED BY <1>1, WeakInvariant, PTL DEF Spec, NoFalseLossWeak

=============================================================================
