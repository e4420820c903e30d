--------------------------- MODULE BusRingProofs ----------------------------
(***************************************************************************)
(* Proofs about BusRing, for every number of consumers, of words, of slots *)
(* and of publishes.  RingInv is shown inductive; the absence of torn      *)
(* reads, the honesty of loss reports and the implementation of            *)
(* BroadcastLog follow from it.                                            *)
(***************************************************************************)
EXTENDS BusRing, TLAPS

-----------------------------------------------------------------------------
(* The arithmetic of s & mask and ((s >> shift) + 1) << 1. *)

\* A sequence is its lap times the capacity, plus its slot.
LEMMA DivisionWithRemainder ==
  ASSUME NEW s \in Nat
  PROVE  /\ s \div Cap \in Nat
         /\ s % Cap \in 0 .. Cap - 1
         /\ s = Cap * (s \div Cap) + (s % Cap)
  BY CapAssumption, SMT

\* A sequence maps to a slot and to an even version of at least two.
LEMMA SlotType ==
  ASSUME NEW s \in Nat
  PROVE  Slot(s) \in Slots /\ Expected(s) \in Nat /\ Expected(s) >= 2
  BY DivisionWithRemainder DEF Slot, Slots, Expected

\* One lap later the same slot holds a version larger by two.
LEMMA NextLap ==
  ASSUME NEW s \in Nat
  PROVE  Slot(s + Cap) = Slot(s) /\ Expected(s + Cap) = Expected(s) + 2
<1>1. /\ (s + Cap) % Cap = s % Cap
      /\ (s + Cap) \div Cap = (s \div Cap) + 1
  BY CapAssumption, SMTT(60)
<1>2. s \div Cap \in Nat
  BY DivisionWithRemainder
<1> QED BY <1>1, <1>2 DEF Slot, Expected

\* Two sequences that share a slot are at least a lap apart.
LEMMA SharedSlot ==
  ASSUME NEW s \in Nat, NEW t \in Nat, s < t, Slot(s) = Slot(t)
  PROVE  s + Cap <= t /\ Expected(s) + 2 <= Expected(t)
<1> DEFINE p == s \div Cap
           q == t \div Cap
<1>1. /\ p \in Nat /\ q \in Nat /\ s % Cap \in Nat
      /\ s = Cap * p + (s % Cap)
      /\ t = Cap * q + (t % Cap)
  BY DivisionWithRemainder, CapAssumption
<1>2. s % Cap = t % Cap
  BY DEF Slot
<1>3. Cap * p < Cap * q
  BY <1>1, <1>2, CapAssumption
<1>4. Expected(s) = 2 * (p + 1) /\ Expected(t) = 2 * (q + 1)
  BY DEF Expected
<1> HIDE DEF p, q
<1>5. p < q
  BY <1>1, <1>3, CapAssumption
<1>6. Cap * q >= Cap * (p + 1)
  BY <1>1, <1>5, CapAssumption
<1>7. Cap * (p + 1) = Cap * p + Cap
  BY <1>1, CapAssumption
<1> QED BY <1>1, <1>2, <1>4, <1>5, <1>6, <1>7, CapAssumption

\* The first lap.
LEMMA FirstLap ==
  ASSUME NEW s \in Nat, s < Cap
  PROVE  Expected(s) = 2
<1>1. s \div Cap = 0
  BY CapAssumption, SMTT(60)
<1> QED BY <1>1 DEF Expected

-----------------------------------------------------------------------------
(* Type correctness. *)

\* The new ring is well typed.
LEMMA InitTypes == Init => TypeOK
<1> SUFFICES ASSUME Init PROVE TypeOK
  OBVIOUS
<1>1. ret \in [Consumers -> Outcomes]
  BY DEF Init, Outcomes, Bus!Nothing, Bus!NoEvent
<1> QED BY <1>1 DEF Init, TypeOK, Blank

\* Every step of the producer and of a consumer keeps the types.
LEMMA NextTypes == TypeOK /\ [Next]_vars => TypeOK'
<1> SUFFICES ASSUME TypeOK, [Next]_vars PROVE TypeOK'
  OBVIOUS
<1> USE DEF TypeOK, producerVars, consumerVars
<1>1. Slot(head) \in Slots
  BY SlotType
<1>2. \A c \in Consumers : Slot(next[c]) \in Slots
  BY SlotType
<1>3. CASE BeginWrite
  BY <1>1, <1>3 DEF BeginWrite
<1>4. ASSUME NEW w \in Words, StoreWord(w) PROVE TypeOK'
  BY <1>1, <1>4 DEF StoreWord
<1>5. CASE EndWrite
  BY <1>1, <1>5 DEF EndWrite
<1>6. CASE Announce
  BY <1>6 DEF Announce
<1>7. ASSUME NEW c \in Consumers, Subscribe(c) PROVE TypeOK'
  BY <1>7 DEF Subscribe
<1>8. ASSUME NEW c \in Consumers, PollEmpty(c) PROVE TypeOK'
  <2>1. Bus!Empty \in Outcomes
    BY DEF Bus!Empty, Bus!NoEvent, Outcomes
  <2> QED BY <1>8, <2>1 DEF PollEmpty
<1>9. ASSUME NEW c \in Consumers, PollReady(c) PROVE TypeOK'
  BY <1>9 DEF PollReady
<1>10. ASSUME NEW c \in Consumers, PollLapped(c) PROVE TypeOK'
  BY <1>10 DEF PollLapped
<1>11. ASSUME NEW c \in Consumers, NEW w \in Words, LoadWord(c, w)
       PROVE  TypeOK'
  BY <1>2, <1>11 DEF LoadWord
<1>12. ASSUME NEW c \in Consumers, Accept(c) PROVE TypeOK'
  <2>1. Bus!Received(words[c]) \in Outcomes
    BY DEF Bus!Received, Outcomes
  <2> QED BY <1>12, <2>1 DEF Accept
<1>13. ASSUME NEW c \in Consumers, Discard(c) PROVE TypeOK'
  BY <1>13 DEF Discard
<1>14. ASSUME NEW c \in Consumers, Jump(c) PROVE TypeOK'
  <2>1. LostAt(next[c]) \in Nat
    BY CapAssumption DEF LostAt
  <2>2. Bus!Lagged(LostAt(next[c])) \in Outcomes
    BY <2>1 DEF Bus!Lagged, Bus!NoEvent, Outcomes
  <2> QED BY <1>14, <2>1, <2>2 DEF Jump
<1>15. CASE UNCHANGED vars
  BY <1>15 DEF vars
<1> QED
  BY <1>3, <1>4, <1>5, <1>6, <1>7, <1>8, <1>9, <1>10, <1>11, <1>12, <1>13,
     <1>14, <1>15 DEF Next, Publish, TryNext

\* Every variable of the ring keeps its type.
THEOREM TypeCorrect == Spec => []TypeOK
<1>1. Init => TypeOK
  BY InitTypes
<1>2. TypeOK /\ [Next]_vars => TypeOK'
  BY NextTypes
<1> QED BY <1>1, <1>2, PTL DEF Spec

-----------------------------------------------------------------------------
(* What versions say about sequences. *)

\* try_next's three-way classification is exact for a cursor that is not
\* ahead of the log.
LEMMA Classification ==
  ASSUME TypeOK, VersionsTell, NEW s \in 0 .. Written
  PROVE  /\ version[Slot(s)] < Expected(s) <=> s = Written
         /\ version[Slot(s)] = Expected(s) <=> s < Written /\ Begun <= s + Cap
         /\ version[Slot(s)] > Expected(s) <=> s + Cap < Begun
<1> USE CapAssumption DEF Written, Begun
<1>1. /\ s \in Nat /\ head \in Nat /\ ppc \in {"idle", "write", "announce"}
      /\ version[Slot(s)] \in Nat /\ Expected(s) \in Nat
  BY SlotType DEF TypeOK
<1>2. CASE s < Written /\ Begun <= s + Cap
  BY <1>1, <1>2 DEF VersionsTell, SlotsReady
<1>3. CASE s + Cap < Begun
  BY <1>1, <1>3 DEF VersionsTell, SlotsLapped
<1>4. CASE s = Written
  <2>1. CASE ppc = "write"
    BY <1>1, <1>4, <2>1 DEF VersionsTell, SlotInFlight
  <2>2. CASE ppc # "write"
    BY <1>1, <1>4, <2>2 DEF VersionsTell, SlotsAhead
  <2> QED BY <2>1, <2>2
<1> QED BY <1>1, <1>2, <1>3, <1>4

\* A version never decreases.
LEMMA VersionsGrow ==
  ASSUME TypeOK, [Next]_vars, NEW i \in Slots
  PROVE  version'[i] \in Nat /\ version'[i] >= version[i]
<1>1. Slot(head) \in Slots
  BY SlotType DEF TypeOK
<1> QED
  BY <1>1 DEF TypeOK, Next, Publish, TryNext, BeginWrite, StoreWord, EndWrite,
     Announce, Subscribe, PollEmpty, PollReady, PollLapped, LoadWord, Accept,
     Discard, Jump, vars, producerVars, consumerVars

\* On a new ring every slot waits for the first lap.
LEMMA InitVersionsTell == Init => VersionsTell
<1> SUFFICES ASSUME Init PROVE VersionsTell
  OBVIOUS
<1> USE CapAssumption DEF Init, Written, Begun
<1>1. SlotsAhead
  BY FirstLap, SlotType DEF SlotsAhead
<1> QED BY <1>1 DEF VersionsTell, SlotsReady, SlotInFlight, SlotsLapped

\* BeginWrite takes the slot away from the sequence a lap before head.
LEMMA BeginWriteVersionsTell ==
  ASSUME TypeOK, VersionsTell, BeginWrite
  PROVE  VersionsTell'
<1> USE CapAssumption DEF Written, Begun
<1>1. /\ head \in Nat /\ head' = head /\ data' = data /\ ppc = "idle"
      /\ ppc' = "write" /\ unwritten' = Words
      /\ version' = [version EXCEPT ![Slot(head)] = @ + 1]
      /\ version \in [Slots -> Nat] /\ Slot(head) \in Slots
      /\ Expected(head) \in Nat
  BY SlotType DEF TypeOK, BeginWrite
<1>2. version[Slot(head)] = Expected(head) - 2
  BY <1>1 DEF VersionsTell, SlotsAhead
<1>3. \A s \in Nat : s # head /\ head < s + Cap /\ s < head + Cap =>
        Slot(s) # Slot(head)
  BY <1>1, SharedSlot
<1>4. SlotsReady'
  <2> SUFFICES ASSUME NEW s \in 0 .. Written' - 1, Begun' <= s + Cap
               PROVE  /\ version'[Slot(s)] = Expected(s)
                      /\ data'[Slot(s)] = Bus!EventAt(s)
    BY DEF SlotsReady
  <2>1. Slot(s) # Slot(head)
    BY <1>1, <1>3
  <2> QED BY <1>1, <2>1, SlotType DEF VersionsTell, SlotsReady
<1>5. SlotInFlight'
  BY <1>1, <1>2 DEF SlotInFlight
<1>6. SlotsAhead'
  <2> SUFFICES ASSUME NEW s \in Begun' .. Written' + Cap - 1
               PROVE  version'[Slot(s)] = Expected(s) - 2
    BY DEF SlotsAhead
  <2>1. s \in Nat /\ Slot(s) # Slot(head)
    BY <1>1, <1>3
  <2> QED BY <1>1, <2>1, SlotType DEF VersionsTell, SlotsAhead
<1>7. SlotsLapped'
  <2> SUFFICES ASSUME NEW s \in 0 .. Begun' - Cap - 1
               PROVE  version'[Slot(s)] > Expected(s)
    BY DEF SlotsLapped
  <2>1. s \in Nat /\ Slot(s) \in Slots /\ Expected(s) \in Nat
    BY SlotType
  <2>2. CASE s = head - Cap
    <3>1. Slot(head) = Slot(s) /\ Expected(head) = Expected(s) + 2
      BY <1>1, <2>1, <2>2, NextLap
    <3> QED BY <1>1, <1>2, <2>1, <3>1
  <2>3. CASE s # head - Cap
    <3>1. version[Slot(s)] > Expected(s)
      BY <1>1, <2>1, <2>3 DEF VersionsTell, SlotsLapped
    <3> QED BY <1>1, <2>1, <3>1
  <2> QED BY <2>2, <2>3
<1> QED BY <1>4, <1>5, <1>6, <1>7 DEF VersionsTell

\* StoreWord changes the data of no ready slot.
LEMMA StoreWordVersionsTell ==
  ASSUME TypeOK, VersionsTell, NEW w \in Words, StoreWord(w)
  PROVE  VersionsTell'
<1> USE CapAssumption DEF Written, Begun
<1>1. /\ head \in Nat /\ head' = head /\ ppc = "write" /\ ppc' = "write"
      /\ version' = version /\ unwritten' = unwritten \ {w}
      /\ data' = [data EXCEPT ![Slot(head)][w] = head]
      /\ data \in [Slots -> [Words -> Int]] /\ Slot(head) \in Slots
  BY SlotType DEF TypeOK, StoreWord
<1>2. SlotsReady'
  <2> SUFFICES ASSUME NEW s \in 0 .. Written' - 1, Begun' <= s + Cap
               PROVE  /\ version'[Slot(s)] = Expected(s)
                      /\ data'[Slot(s)] = Bus!EventAt(s)
    BY DEF SlotsReady
  <2>1. s \in Nat /\ s < head /\ head < s + Cap
    BY <1>1
  <2>2. Slot(s) # Slot(head)
    BY <1>1, <2>1, SharedSlot
  <2> QED BY <1>1, <2>1, <2>2, SlotType DEF VersionsTell, SlotsReady
<1>3. SlotInFlight'
  BY <1>1 DEF VersionsTell, SlotInFlight
<1>4. SlotsAhead' /\ SlotsLapped'
  BY <1>1 DEF VersionsTell, SlotsAhead, SlotsLapped
<1> QED BY <1>2, <1>3, <1>4 DEF VersionsTell

\* EndWrite makes head ready: its slot is even and holds all its words.
LEMMA EndWriteVersionsTell ==
  ASSUME TypeOK, VersionsTell, EndWrite
  PROVE  VersionsTell'
<1> USE CapAssumption DEF Written, Begun
<1>1. /\ head \in Nat /\ head' = head /\ data' = data /\ ppc = "write"
      /\ ppc' = "announce" /\ unwritten = {}
      /\ version' = [version EXCEPT ![Slot(head)] = @ + 1]
      /\ version \in [Slots -> Nat] /\ Slot(head) \in Slots
      /\ Expected(head) \in Nat /\ data \in [Slots -> [Words -> Int]]
  BY SlotType DEF TypeOK, EndWrite
<1>2. /\ version[Slot(head)] = Expected(head) - 1
      /\ data[Slot(head)] = Bus!EventAt(head)
  BY <1>1 DEF VersionsTell, SlotInFlight, Bus!EventAt
<1>3. \A s \in Nat : s # head /\ head < s + Cap /\ s < head + Cap =>
        Slot(s) # Slot(head)
  BY <1>1, SharedSlot
<1>4. SlotsReady'
  <2> SUFFICES ASSUME NEW s \in 0 .. Written' - 1, Begun' <= s + Cap
               PROVE  /\ version'[Slot(s)] = Expected(s)
                      /\ data'[Slot(s)] = Bus!EventAt(s)
    BY DEF SlotsReady
  <2>1. CASE s = head
    BY <1>1, <1>2, <2>1
  <2>2. CASE s # head
    <3>1. s \in Nat /\ Slot(s) # Slot(head)
      BY <1>1, <1>3, <2>2
    <3> QED BY <1>1, <2>2, <3>1, SlotType DEF VersionsTell, SlotsReady
  <2> QED BY <2>1, <2>2
<1>5. SlotInFlight'
  BY <1>1 DEF SlotInFlight
<1>6. SlotsAhead'
  <2> SUFFICES ASSUME NEW s \in Begun' .. Written' + Cap - 1
               PROVE  version'[Slot(s)] = Expected(s) - 2
    BY DEF SlotsAhead
  <2>1. CASE s = head + Cap
    BY <1>1, <1>2, <2>1, NextLap
  <2>2. CASE s # head + Cap
    <3>1. s \in Nat /\ Slot(s) # Slot(head)
      BY <1>1, <1>3, <2>2
    <3> QED BY <1>1, <2>2, <3>1, SlotType DEF VersionsTell, SlotsAhead
  <2> QED BY <2>1, <2>2
<1>7. SlotsLapped'
  <2> SUFFICES ASSUME NEW s \in 0 .. Begun' - Cap - 1
               PROVE  version'[Slot(s)] > Expected(s)
    BY DEF SlotsLapped
  <2>1. version[Slot(s)] > Expected(s) /\ Slot(s) \in Slots /\ Expected(s) \in Nat
    BY <1>1, SlotType DEF VersionsTell, SlotsLapped
  <2> QED BY <1>1, <2>1
<1> QED BY <1>4, <1>5, <1>6, <1>7 DEF VersionsTell

\* Announce only moves head: what is written is written already.
LEMMA AnnounceVersionsTell ==
  ASSUME TypeOK, VersionsTell, Announce
  PROVE  VersionsTell'
<1>1. /\ head \in Nat /\ ppc' = "idle" /\ Written' = Written /\ Begun' = Begun
      /\ version' = version /\ data' = data
  BY DEF TypeOK, Announce, Written, Begun
<1> QED
  BY <1>1 DEF VersionsTell, SlotsReady, SlotInFlight, SlotsAhead, SlotsLapped

\* What versions say depends on the producer's state alone.
LEMMA StutterVersionsTell ==
  ASSUME VersionsTell, UNCHANGED producerVars
  PROVE  VersionsTell'
  BY DEF VersionsTell, SlotsReady, SlotInFlight, SlotsAhead, SlotsLapped,
     producerVars, Written, Begun

\* The steps of consumers leave the shared state alone.
LEMMA NextVersionsTell ==
  ASSUME TypeOK, VersionsTell, [Next]_vars
  PROVE  VersionsTell'
<1>1. CASE Publish
  BY <1>1, BeginWriteVersionsTell, StoreWordVersionsTell,
     EndWriteVersionsTell, AnnounceVersionsTell DEF Publish
<1>2. ASSUME NEW c \in Consumers, Subscribe(c) \/ TryNext(c)
      PROVE  VersionsTell'
  <2>1. UNCHANGED producerVars
    BY <1>2 DEF Subscribe, TryNext, PollEmpty, PollReady, PollLapped,
       LoadWord, Accept, Discard, Jump
  <2> QED BY <2>1, StutterVersionsTell
<1>3. CASE UNCHANGED vars
  BY <1>3, StutterVersionsTell DEF vars, producerVars
<1> QED BY <1>1, <1>2, <1>3 DEF Next

-----------------------------------------------------------------------------
(* The inductive invariant. *)

\* Head and the number of complete events never decrease.
LEMMA HeadGrows ==
  ASSUME TypeOK, [Next]_vars
  PROVE  /\ head \in Nat /\ head' \in Nat /\ Written \in Nat /\ Written' \in Nat
         /\ head <= head' /\ Written <= Written' /\ head <= Written
  BY DEF TypeOK, Next, Publish, TryNext, BeginWrite, StoreWord, EndWrite,
     Announce, Subscribe, PollEmpty, PollReady, PollLapped, LoadWord, Accept,
     Discard, Jump, vars, producerVars, consumerVars, Written

\* No consumer has subscribed yet.
LEMMA InitRingInv == Init => RingInv
<1> SUFFICES ASSUME Init PROVE RingInv
  OBVIOUS
<1>1. TypeOK /\ VersionsTell
  BY InitTypes, InitVersionsTell
<1>2. CursorsBehind /\ CopyDetectsOverwrite /\ LapIsReal
  BY DEF Init, CursorsBehind, CopyDetectsOverwrite, LapIsReal, Written
<1>3. NoTornRead
  BY DEF Init, NoTornRead, Bus!Nothing
<1> QED BY <1>1, <1>2, <1>3 DEF RingInv

\* What the invariant says of one consumer.
ConsumerInv(c) ==
  /\ next[c] <= Written
  /\ cpc[c] = "off" => ret[c] = Bus!Nothing
  /\ cpc[c] = "copy" =>
       /\ next[c] < Written
       /\ \A w \in Words \ uncopied[c] :
            words[c][w] = next[c] \/ version[Slot(next[c])] > Expected(next[c])
  /\ cpc[c] = "lag" => next[c] + Cap <= head
  /\ ret[c].kind = "Event" => ret[c].event = Bus!EventAt(next[c] - 1)

\* The invariant, consumer by consumer.
LEMMA RingInvByConsumer ==
  RingInv <=> TypeOK /\ VersionsTell /\ \A c \in Consumers : ConsumerInv(c)
  BY DEF RingInv, CursorsBehind, CopyDetectsOverwrite, LapIsReal, NoTornRead,
     ConsumerInv

\* A consumer that does not move keeps its part of the invariant: the
\* producer only adds events and only increases versions.
LEMMA IdleConsumer ==
  ASSUME TypeOK, [Next]_vars, NEW c \in Consumers, ConsumerInv(c),
         cpc'[c] = cpc[c], next'[c] = next[c], uncopied'[c] = uncopied[c],
         words'[c] = words[c], ret'[c] = ret[c]
  PROVE  ConsumerInv(c)'
<1>1. next[c] \in Nat /\ Slot(next[c]) \in Slots /\ Expected(next[c]) \in Nat
  BY SlotType DEF TypeOK
<1>2. version[Slot(next[c])] \in Nat
  BY <1>1 DEF TypeOK
<1>3. /\ version'[Slot(next[c])] \in Nat
      /\ version'[Slot(next[c])] >= version[Slot(next[c])]
  BY <1>1, VersionsGrow
<1> QED BY <1>1, <1>2, <1>3, HeadGrows, CapAssumption DEF ConsumerInv

\* A consumer that polls, copies, accepts, discards or jumps keeps its part.
LEMMA ConsumerStep ==
  ASSUME RingInv, NEW c \in Consumers, Subscribe(c) \/ TryNext(c)
  PROVE  ConsumerInv(c)'
<1> USE CapAssumption
<1>1. /\ TypeOK /\ VersionsTell /\ ConsumerInv(c)
      /\ [Next]_vars /\ TypeOK' /\ UNCHANGED producerVars
  <2>1. [Next]_vars
    BY DEF Next
  <2>2. UNCHANGED producerVars
    BY DEF Subscribe, TryNext, PollEmpty, PollReady, PollLapped, LoadWord,
       Accept, Discard, Jump
  <2> QED BY <2>1, <2>2, NextTypes, RingInvByConsumer
<1>2. /\ version' = version /\ head' = head /\ Written' = Written
      /\ Begun' = Begun /\ data' = data
  BY <1>1 DEF producerVars, Written, Begun
<1>3. /\ next[c] \in Nat /\ Slot(next[c]) \in Slots /\ Expected(next[c]) \in Nat
      /\ version[Slot(next[c])] \in Nat /\ head \in Nat /\ Written \in Nat
      /\ Begun \in Nat /\ head <= Written /\ Written <= Begun
      /\ Begun <= head + 1
  BY <1>1, SlotType DEF TypeOK, Written, Begun
<1>4. next[c] \in 0 .. Written
  BY <1>1, <1>3 DEF ConsumerInv
<1>5. CASE Subscribe(c)
  <2>1. next'[c] = head /\ cpc'[c] = "idle" /\ ret' = ret
    BY <1>1, <1>5 DEF Subscribe, TypeOK
  <2>2. ret[c].kind # "Event"
    BY <1>1, <1>5 DEF ConsumerInv, Subscribe, Bus!Nothing
  <2> QED BY <1>2, <1>3, <2>1, <2>2 DEF ConsumerInv
<1>6. CASE PollEmpty(c)
  <2>1. next'[c] = next[c] /\ cpc'[c] = "idle" /\ ret'[c] = Bus!Empty
    BY <1>1, <1>6 DEF PollEmpty, TypeOK
  <2> QED BY <1>1, <1>2, <2>1 DEF ConsumerInv, Bus!Empty
<1>7. CASE PollReady(c)
  <2>1. /\ next' = next /\ cpc'[c] = "copy" /\ ret' = ret
        /\ uncopied'[c] = Words /\ cpc[c] = "idle"
        /\ version[Slot(next[c])] = Expected(next[c])
    BY <1>1, <1>7 DEF PollReady, TypeOK
  <2>2. next[c] < Written
    BY <1>1, <1>4, <2>1, Classification
  <2> QED BY <1>1, <1>2, <2>1, <2>2 DEF ConsumerInv
<1>8. ASSUME PollLapped(c) \/ Discard(c) PROVE ConsumerInv(c)'
  <2>1. next' = next /\ cpc'[c] = "lag" /\ ret' = ret /\ cpc[c] # "off"
    BY <1>1, <1>8 DEF PollLapped, Discard, TypeOK
  <2>2. version[Slot(next[c])] > Expected(next[c])
    <3>1. CASE PollLapped(c)
      BY <3>1 DEF PollLapped
    <3>2. CASE Discard(c)
      <4>1. next[c] < Written /\ version[Slot(next[c])] # Expected(next[c])
        BY <1>1, <3>2 DEF Discard, ConsumerInv
      <4> QED BY <1>1, <1>3, <1>4, <4>1, Classification
    <3> QED BY <1>8, <3>1, <3>2
  <2>3. next[c] + Cap < Begun
    BY <1>1, <1>4, <2>2, Classification
  <2> QED BY <1>1, <1>2, <1>3, <2>1, <2>3 DEF ConsumerInv
<1>9. ASSUME NEW w \in Words, LoadWord(c, w) PROVE ConsumerInv(c)'
  <2>1. /\ next' = next /\ cpc' = cpc /\ ret' = ret /\ cpc[c] = "copy"
        /\ words' = [words EXCEPT ![c][w] = data[Slot(next[c])][w]]
        /\ uncopied' = [uncopied EXCEPT ![c] = @ \ {w}]
    BY <1>9 DEF LoadWord
  <2>2. \/ data[Slot(next[c])][w] = next[c]
        \/ version[Slot(next[c])] > Expected(next[c])
    <3>1. next[c] < Written
      BY <1>1, <2>1 DEF ConsumerInv
    <3>2. CASE Begun <= next[c] + Cap
      <4>1. next[c] \in 0 .. Written - 1
        BY <1>3, <3>1
      <4>2. data[Slot(next[c])] = Bus!EventAt(next[c])
        BY <1>1, <3>2, <4>1 DEF VersionsTell, SlotsReady
      <4> QED BY <4>2 DEF Bus!EventAt
    <3>3. CASE next[c] + Cap < Begun
      BY <1>1, <1>4, <3>3, Classification
    <3> QED BY <1>3, <3>2, <3>3
  <2>3. \A v \in Words \ uncopied'[c] :
          words'[c][v] = next[c] \/ version[Slot(next[c])] > Expected(next[c])
    BY <1>1, <2>1, <2>2 DEF ConsumerInv, TypeOK
  <2> QED BY <1>1, <1>2, <2>1, <2>3 DEF ConsumerInv
<1>10. CASE Accept(c)
  <2>1. /\ next'[c] = next[c] + 1 /\ cpc'[c] = "idle" /\ cpc[c] = "copy"
        /\ ret'[c] = Bus!Received(words[c]) /\ uncopied[c] = {}
        /\ version[Slot(next[c])] = Expected(next[c])
    BY <1>1, <1>10 DEF Accept, TypeOK
  <2>2. next[c] < Written /\ \A w \in Words : words[c][w] = next[c]
    BY <1>1, <1>3, <2>1 DEF ConsumerInv
  <2>3. words[c] = Bus!EventAt(next[c])
    BY <1>1, <2>2 DEF TypeOK, Bus!EventAt
  <2>4. ret'[c].event = Bus!EventAt(next'[c] - 1)
    BY <1>3, <2>1, <2>3 DEF Bus!Received
  <2> QED BY <1>2, <1>3, <2>1, <2>2, <2>4 DEF ConsumerInv
<1>11. CASE Jump(c)
  <2>1. /\ next'[c] = next[c] + LostAt(next[c]) /\ cpc'[c] = "idle"
        /\ ret'[c].kind # "Event" /\ cpc[c] = "lag"
    BY <1>1, <1>11 DEF Jump, TypeOK, Bus!Lagged
  <2>2. next[c] + Cap <= head
    BY <1>1, <2>1 DEF ConsumerInv
  <2> QED BY <1>2, <1>3, <2>1, <2>2 DEF ConsumerInv, LostAt
<1> QED BY <1>5, <1>6, <1>7, <1>8, <1>9, <1>10, <1>11 DEF TryNext

\* The actions of one consumer leave every other one's state alone.
LEMMA OtherConsumers ==
  ASSUME TypeOK, NEW c \in Consumers, Subscribe(c) \/ TryNext(c),
         NEW d \in Consumers, d # c
  PROVE  /\ cpc'[d] = cpc[d] /\ next'[d] = next[d]
         /\ uncopied'[d] = uncopied[d] /\ words'[d] = words[d]
         /\ ret'[d] = ret[d]
  BY DEF TypeOK, Subscribe, TryNext, PollEmpty, PollReady, PollLapped,
     LoadWord, Accept, Discard, Jump

\* The invariant is inductive.
LEMMA NextRingInv == RingInv /\ [Next]_vars => RingInv'
<1> SUFFICES ASSUME RingInv, [Next]_vars PROVE RingInv'
  OBVIOUS
<1>1. /\ TypeOK /\ VersionsTell /\ TypeOK' /\ VersionsTell'
      /\ \A c \in Consumers : ConsumerInv(c)
  BY NextTypes, NextVersionsTell, RingInvByConsumer
<1>2. ASSUME UNCHANGED consumerVars, NEW d \in Consumers
      PROVE  ConsumerInv(d)'
  BY <1>1, <1>2, IdleConsumer DEF consumerVars
<1>3. ASSUME NEW c \in Consumers, Subscribe(c) \/ TryNext(c),
             NEW d \in Consumers
      PROVE  ConsumerInv(d)'
  <2>1. CASE d = c
    BY <1>3, <2>1, ConsumerStep
  <2>2. CASE d # c
    BY <1>1, <1>3, <2>2, OtherConsumers, IdleConsumer
  <2> QED BY <2>1, <2>2
<1>4. CASE Publish
  <2>1. UNCHANGED consumerVars
    BY <1>4 DEF Publish, BeginWrite, StoreWord, EndWrite, Announce
  <2> QED BY <1>1, <1>2, <2>1 DEF RingInv, ConsumerInv, CursorsBehind,
             CopyDetectsOverwrite, LapIsReal, NoTornRead
<1>5. CASE UNCHANGED vars
  <2>1. UNCHANGED consumerVars
    BY <1>5 DEF vars, consumerVars
  <2> QED BY <1>1, <1>2, <2>1 DEF RingInv, ConsumerInv, CursorsBehind,
             CopyDetectsOverwrite, LapIsReal, NoTornRead
<1>6. ASSUME NEW c \in Consumers, Subscribe(c) \/ TryNext(c)
      PROVE  RingInv'
  BY <1>1, <1>3, <1>6 DEF RingInv, ConsumerInv, CursorsBehind,
     CopyDetectsOverwrite, LapIsReal, NoTornRead
<1> QED BY <1>4, <1>5, <1>6 DEF Next

\* The invariant holds in every reachable state.
THEOREM RingInvariant == Spec => []RingInv
<1>1. Init => RingInv
  BY InitRingInv
<1>2. RingInv /\ [Next]_vars => RingInv'
  BY NextRingInv
<1> QED BY <1>1, <1>2, PTL DEF Spec

\* A slot's version says exactly where the sequence looked for stands.
THEOREM VersionsTellTheorem == Spec => []VersionsTell
<1>1. RingInv => VersionsTell
  BY DEF RingInv
<1> QED BY <1>1, RingInvariant, PTL

\* A word copied from another event comes with a version that has moved on.
THEOREM CopyDetectsOverwriteTheorem == Spec => []CopyDetectsOverwrite
<1>1. RingInv => CopyDetectsOverwrite
  BY DEF RingInv
<1> QED BY <1>1, RingInvariant, PTL

\* No consumer is ever handed words of two events, nor an event other than
\* the one at its cursor.
THEOREM NoTornReadTheorem == Spec => []NoTornRead
<1>1. RingInv => NoTornRead
  BY DEF RingInv
<1> QED BY <1>1, RingInvariant, PTL

\* A consumer reports a loss only when the producer has begun to overwrite
\* the event at its cursor.
THEOREM LapIsRealTheorem == Spec => []LapIsReal
<1>1. RingInv => LapIsReal
  BY DEF RingInv
<1> QED BY <1>1, RingInvariant, PTL

-----------------------------------------------------------------------------
(* Losses and the abstract log. *)

\* What Jump skips: at least one event, all of them overwritten or being
\* overwritten, and everything up to the oldest retained event.
LEMMA JumpIsHonest ==
  ASSUME RingInv, NEW c \in Consumers, cpc[c] = "lag"
  PROVE  /\ LostAt(next[c]) \in Nat /\ LostAt(next[c]) >= 1
         /\ next[c] + LostAt(next[c]) - 1 + Cap <= head
         /\ head <= next[c] + LostAt(next[c]) + Cap
<1>1. next[c] \in Nat /\ head \in Nat /\ next[c] + Cap <= head
  BY DEF RingInv, TypeOK, LapIsReal
<1> QED BY <1>1, CapAssumption DEF LostAt

\* No event is skipped in silence, and none is reported lost that the
\* producer had not begun to overwrite.
THEOREM NoFalseLossTheorem == Spec => NoFalseLoss
<1> DEFINE Honest(c) ==
      next'[c] # next[c] /\ cpc[c] # "off" =>
        \/ ret'[c].kind = "Event" /\ next'[c] = next[c] + 1
        \/ /\ ret'[c].kind = "Lagged"
           /\ next'[c] = next[c] + ret'[c].lost
           /\ next'[c] - 1 + Cap <= head
<1>1. ASSUME RingInv, [Next]_vars, NEW c \in Consumers PROVE Honest(c)
  <2>1. ASSUME NEW d \in Consumers, Subscribe(d) \/ TryNext(d), d # c
        PROVE  Honest(c)
    BY <1>1, <2>1, OtherConsumers DEF RingInv
  <2>2. CASE Accept(c)
    BY <1>1, <2>2 DEF Accept, RingInv, TypeOK, Bus!Received
  <2>3. CASE Jump(c)
    <3>1. /\ next'[c] = next[c] + LostAt(next[c])
          /\ ret'[c] = Bus!Lagged(LostAt(next[c])) /\ cpc[c] = "lag"
      BY <1>1, <2>3 DEF Jump, RingInv, TypeOK
    <3>2. next'[c] - 1 + Cap <= head
      <4>1. next[c] \in Nat /\ head \in Nat
        BY <1>1 DEF RingInv, TypeOK
      <4> QED BY <1>1, <3>1, <4>1, JumpIsHonest, CapAssumption
    <3> QED BY <3>1, <3>2 DEF Bus!Lagged
  <2>4. CASE Subscribe(c)
    BY <2>4 DEF Subscribe
  <2>5. ASSUME next' = next PROVE Honest(c)
    BY <2>5
  <2>6. CASE Publish
    BY <2>5, <2>6 DEF Publish, BeginWrite, StoreWord, EndWrite, Announce,
       consumerVars
  <2>7. CASE UNCHANGED vars
    BY <2>5, <2>7 DEF vars
  <2>8. CASE TryNext(c)
    <3>1. CASE PollEmpty(c) \/ PollReady(c) \/ PollLapped(c) \/ Discard(c)
      BY <2>5, <3>1 DEF PollEmpty, PollReady, PollLapped, Discard
    <3>2. ASSUME NEW w \in Words, LoadWord(c, w) PROVE Honest(c)
      BY <2>5, <3>2 DEF LoadWord
    <3> QED BY <2>2, <2>3, <2>8, <3>1, <3>2 DEF TryNext
  <2> QED BY <1>1, <2>1, <2>4, <2>6, <2>7, <2>8 DEF Next
<1>2. RingInv /\ [Next]_vars => [\A c \in Consumers : Honest(c)]_vars
  BY <1>1
<1> QED BY <1>2, RingInvariant, PTL DEF Spec, NoFalseLoss

\* A new ring is an empty log with no subscriber.
LEMMA InitRefines == Init => Bus!AbsInit
  BY DEF Init, Bus!AbsInit, Written, Bus!NotSubscribed

\* Each step of one consumer is a step of the abstract log or changes
\* nothing of it.
LEMMA ConsumerStepRefines ==
  ASSUME RingInv, NEW c \in Consumers, Subscribe(c) \/ TryNext(c)
  PROVE  [Bus!AbsNext]_(Bus!absVars)
<1> DEFINE cursor == [d \in Consumers |-> IF cpc[d] = "off" THEN -1 ELSE next[d]]
<1> USE CapAssumption DEF Bus!absVars
<1>1. /\ TypeOK /\ VersionsTell /\ UNCHANGED producerVars
      /\ next[c] <= Written
  BY DEF RingInv, CursorsBehind, Subscribe, TryNext, PollEmpty, PollReady,
     PollLapped, LoadWord, Accept, Discard, Jump
<1>2. /\ Written' = Written /\ Written \in Nat /\ head \in Nat
      /\ head <= Written /\ Written <= head + 1
      /\ Begun \in Nat /\ Written <= Begun /\ next[c] \in Nat
  BY <1>1 DEF producerVars, Written, Begun, TypeOK
<1>3. next[c] \in 0 .. Written
  BY <1>1, <1>2
<1>4. ASSUME PollReady(c) \/ PollLapped(c) \/ Discard(c)
             \/ \E w \in Words : LoadWord(c, w)
      PROVE  UNCHANGED Bus!absVars
  <2>1. next' = next /\ ret' = ret
        /\ \A d \in Consumers : cpc'[d] = "off" <=> cpc[d] = "off"
    BY <1>1, <1>4 DEF PollReady, PollLapped, Discard, LoadWord, TypeOK
  <2> QED BY <1>2, <2>1
<1>5. CASE Subscribe(c)
  <2>1. /\ cursor' = [cursor EXCEPT ![c] = head] /\ cursor[c] = -1
        /\ ret' = ret
    BY <1>1, <1>2, <1>5 DEF Subscribe, TypeOK
  <2>2. head \in {Written - 1, Written} /\ head >= 0
    BY <1>2
  <2>3. Bus!Join(c)
    BY <1>2, <2>1, <2>2 DEF Bus!Join, Bus!NotSubscribed
  <2> QED BY <2>3 DEF Bus!AbsNext
<1>6. CASE PollEmpty(c)
  <2>1. cursor' = cursor /\ cursor[c] = next[c]
        /\ ret' = [ret EXCEPT ![c] = Bus!Empty]
    BY <1>6 DEF PollEmpty
  <2>2. next[c] = Written
    BY <1>1, <1>3, <1>6, Classification DEF PollEmpty
  <2>3. Bus!ReportEmpty(c)
    BY <1>2, <2>1, <2>2 DEF Bus!ReportEmpty
  <2> QED BY <2>3 DEF Bus!AbsNext
<1>7. CASE Accept(c)
  <2>1. /\ cursor' = [cursor EXCEPT ![c] = @ + 1] /\ cursor[c] = next[c]
        /\ ret' = [ret EXCEPT ![c] = Bus!Received(words[c])]
    BY <1>1, <1>7 DEF Accept, TypeOK
  <2>2. next[c] < Written /\ Begun <= next[c] + Cap
    BY <1>1, <1>3, <1>7, Classification DEF Accept
  <2>3. words[c] = Bus!EventAt(next[c])
    <3>1. \A w \in Words : words[c][w] = next[c]
      <4>1. cpc[c] = "copy" /\ uncopied[c] = {}
            /\ version[Slot(next[c])] = Expected(next[c])
        BY <1>7 DEF Accept
      <4>2. Expected(next[c]) \in Nat
        BY <1>2, SlotType
      <4> QED BY <4>1, <4>2 DEF RingInv, CopyDetectsOverwrite
    <3> QED BY <1>1, <3>1 DEF TypeOK, Bus!EventAt
  <2>4. cursor[c] # -1 /\ cursor[c] < Written /\ Written <= cursor[c] + Cap
    BY <1>2, <2>1, <2>2
  <2>5. ret' = [ret EXCEPT ![c] = Bus!Received(Bus!EventAt(cursor[c]))]
    BY <2>1, <2>3
  <2>6. Bus!Deliver(c)
    BY <1>2, <2>1, <2>4, <2>5 DEF Bus!Deliver, Bus!NotSubscribed
  <2> QED BY <2>6 DEF Bus!AbsNext
<1>8. CASE Jump(c)
  <2>0. PICK n \in Nat : n = LostAt(next[c])
    BY <1>8, JumpIsHonest DEF Jump
  <2>1. /\ cursor' = [cursor EXCEPT ![c] = @ + n] /\ cursor[c] = next[c]
        /\ ret' = [ret EXCEPT ![c] = Bus!Lagged(n)] /\ cpc[c] = "lag"
    BY <1>1, <1>8, <2>0 DEF Jump, TypeOK
  <2>2. /\ n \in Nat /\ n >= 1 /\ next[c] + n - 1 + Cap <= head
        /\ head <= next[c] + n + Cap
    BY <2>0, <2>1, JumpIsHonest
  <2>4. n \in 1 .. Written
    BY <1>2, <2>2
  <2>3. Bus!Lose(c, n)
    BY <1>2, <2>1, <2>2 DEF Bus!Lose, Bus!NotSubscribed
  <2>5. \E m \in 1 .. Written : Bus!Lose(c, m)
    BY <2>3, <2>4
  <2>6. Bus!AbsNext
    BY <2>5 DEF Bus!AbsNext
  <2> QED BY <2>6
<1> QED BY <1>4, <1>5, <1>6, <1>7, <1>8 DEF TryNext

\* Every step of the ring is a step of the log, or changes nothing there.
LEMMA NextRefines ==
  RingInv /\ [Next]_vars => [Bus!AbsNext]_(Bus!absVars)
<1> SUFFICES ASSUME RingInv, [Next]_vars PROVE [Bus!AbsNext]_(Bus!absVars)
  OBVIOUS
<1> USE DEF Bus!absVars
<1>1. CASE Publish
  <2>1. cpc' = cpc /\ next' = next /\ ret' = ret
    BY <1>1 DEF Publish, BeginWrite, StoreWord, EndWrite, Announce,
       consumerVars
  <2>2. CASE EndWrite
    <3>1. Written' = Written + 1
      BY <2>2 DEF EndWrite, Written
    <3>2. Bus!Extend
      BY <2>1, <3>1 DEF Bus!Extend
    <3> QED BY <3>2 DEF Bus!AbsNext
  <2>3. CASE ~ EndWrite
    <3>1. Written' = Written
      BY <1>1, <2>3 DEF Publish, BeginWrite, StoreWord, Announce, Written
    <3> QED BY <2>1, <3>1
  <2> QED BY <2>2, <2>3
<1>2. ASSUME NEW c \in Consumers, Subscribe(c) \/ TryNext(c)
      PROVE  [Bus!AbsNext]_(Bus!absVars)
  BY <1>2, ConsumerStepRefines
<1>3. CASE UNCHANGED vars
  BY <1>3 DEF vars, Written
<1> QED BY <1>1, <1>2, <1>3 DEF Next

\* The ring implements the broadcast log: what its consumers see is what
\* one log with exact loss reports would show them.
THEOREM RingImplementsLog == Spec => Refinement
<1>1. Init => Bus!AbsInit
  BY InitRefines
<1>2. RingInv /\ [Next]_vars => [Bus!AbsNext]_(Bus!absVars)
  BY NextRefines
<1> QED BY <1>1, <1>2, RingInvariant, PTL DEF Spec, Refinement, Bus!AbsSpec
=============================================================================
