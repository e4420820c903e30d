----------------------------- MODULE BusRingWeak ----------------------------
(***************************************************************************)
(* The memory orderings of crates/bus/src/ring.rs.  BusRing interleaves    *)
(* the atomic accesses as if every load returned the newest store; the     *)
(* language promises less.  Here each location keeps the stores made to    *)
(* it, each with the view it releases, and a load may return any of them   *)
(* that its thread's view does not exclude:                                *)
(*                                                                         *)
(*  - a relaxed store releases what its thread knew at its last release    *)
(*    fence, a release store all its thread knows now;                     *)
(*  - an acquire load takes over the view of the store it reads, a relaxed *)
(*    load only remembers it until the thread's next acquire fence.        *)
(*                                                                         *)
(* The k-th store to a location has timestamp k, timestamp 0 being its     *)
(* initial value.  One consumer suffices: consumers share no location they *)
(* write.  Capacity, sequence and version arithmetic are those of BusRing. *)
(***************************************************************************)
EXTENDS Integers, Sequences

CONSTANTS
  Cap,          \* slots in the ring
  WordCount,    \* words of an event, stored and loaded in this order
  MaxPublish    \* bound of the model: events published in one behaviour

ASSUME WeakAssumption ==
  Cap \in Nat /\ Cap >= 2 /\ WordCount \in Nat \ {0} /\ MaxPublish \in Nat

VARIABLES
  store,        \* store[l][t + 1]: value and view of the store at timestamp t
  ppc,          \* where the producer is in publish: "idle", "write", "announce"
  stored,       \* words of the event in flight stored so far
  pview,        \* the producer's view: its newest store to each location
  released,     \* pview at the producer's last release fence
  cpc,          \* where the consumer is in try_next; "off" before subscribe
  next,         \* its cursor
  words,        \* the words it has loaded
  cview,        \* its view: the oldest store it may still read, per location
  pending,      \* views its relaxed loads found, until its next acquire fence
  ret           \* the result of its last try_next: an event, "lagged", "empty"

producerVars == <<store, ppc, stored, pview, released>>
consumerVars == <<cpc, next, words, cview, pending, ret>>
vars == <<store, ppc, stored, pview, released,
          cpc, next, words, cview, pending, ret>>

Slots == 0 .. Cap - 1
HeadLoc == <<"head">>
Version(s) == <<"version", s % Cap>>
Word(s, w) == <<"data", s % Cap, w>>
Locations ==
  {HeadLoc} \cup {Version(i) : i \in Slots}
         \cup {Word(i, w) : i \in Slots, w \in 1 .. WordCount}

Expected(s) == 2 * ((s \div Cap) + 1)

Bottom == [l \in Locations |-> 0]
Join(u, v) == [l \in Locations |-> IF u[l] >= v[l] THEN u[l] ELSE v[l]]

\* The initial value of a data word belongs to no event.
Blank == -1
Initially(l) == IF l[1] = "data" THEN Blank ELSE 0

Init ==
  /\ store = [l \in Locations |-> <<[val |-> Initially(l), view |-> Bottom]>>]
  /\ ppc = "idle"
  /\ stored = 0
  /\ pview = Bottom
  /\ released = Bottom
  /\ cpc = "off"
  /\ next = 0
  /\ words = <<>>
  /\ cview = Bottom
  /\ pending = Bottom
  /\ ret = <<"empty">>

-----------------------------------------------------------------------------
(* The producer reads its own stores only, so it always reads the newest. *)

Newest(l) == store[l][Len(store[l])].val
head == Newest(HeadLoc)
Stamp(l) == [pview EXCEPT ![l] = @ + 1]    \* its view with one more store

RelaxedStore(l, v) ==
  /\ store' = [store EXCEPT
       ![l] = Append(@, [val |-> v, view |-> [released EXCEPT ![l] = pview[l] + 1]])]
  /\ pview' = Stamp(l)

ReleaseStore(l, v) ==
  /\ store' = [store EXCEPT ![l] = Append(@, [val |-> v, view |-> Stamp(l)])]
  /\ pview' = Stamp(l)

\* Mutant: no release fence between the odd version and the words.
BeginWriteUnfenced ==
  /\ ppc = "idle"
  /\ head < MaxPublish
  /\ RelaxedStore(Version(head), Newest(Version(head)) + 1)
  /\ ppc' = "write"
  /\ stored' = 0
  /\ UNCHANGED <<released, consumerVars>>

\* version.store(v + 1, Relaxed); fence(Release).
BeginWrite ==
  /\ ppc = "idle"
  /\ head < MaxPublish
  /\ RelaxedStore(Version(head), Newest(Version(head)) + 1)
  /\ released' = pview'
  /\ ppc' = "write"
  /\ stored' = 0
  /\ UNCHANGED consumerVars

\* d.store(w, Relaxed).
StoreWord ==
  /\ ppc = "write"
  /\ stored < WordCount
  /\ RelaxedStore(Word(head, stored + 1), head)
  /\ stored' = stored + 1
  /\ UNCHANGED <<ppc, released, consumerVars>>

\* version.store(v + 2, Release).
EndWrite ==
  /\ ppc = "write"
  /\ stored = WordCount
  /\ ReleaseStore(Version(head), Newest(Version(head)) + 1)
  /\ ppc' = "announce"
  /\ UNCHANGED <<stored, released, consumerVars>>

\* Mutant: the head is stored relaxed.
AnnounceRelaxed ==
  /\ ppc = "announce"
  /\ RelaxedStore(HeadLoc, head + 1)
  /\ ppc' = "idle"
  /\ UNCHANGED <<stored, released, consumerVars>>

\* head.store(s + 1, Release).
Announce ==
  /\ ppc = "announce"
  /\ ReleaseStore(HeadLoc, head + 1)
  /\ ppc' = "idle"
  /\ UNCHANGED <<stored, released, consumerVars>>

-----------------------------------------------------------------------------
(* The consumer. *)

\* A load at location l may return the store m at timestamp t.
MayRead(view, l, t) == t \in view[l] .. Len(store[l]) - 1
At(l, t) == store[l][t + 1]

\* The consumer's views after a load of store m at timestamp t.
AcquireLoad(l, t) ==
  /\ cview' = Join([cview EXCEPT ![l] = t], At(l, t).view)
  /\ pending' = Join(pending, At(l, t).view)
RelaxedLoad(view, l, t) ==
  /\ cview' = [view EXCEPT ![l] = t]
  /\ pending' = Join(pending, At(l, t).view)

\* head.load(Acquire) in subscribe_ring.
Subscribe(t) ==
  /\ cpc = "off"
  /\ MayRead(cview, HeadLoc, t)
  /\ AcquireLoad(HeadLoc, t)
  /\ next' = At(HeadLoc, t).val
  /\ cpc' = "idle"
  /\ UNCHANGED <<producerVars, words, ret>>

\* Mutant: any version but the expected one counts as lapped.
PollImpatient(t) ==
  LET l == Version(next)
      v1 == At(l, t).val
  IN  /\ cpc = "idle"
      /\ MayRead(cview, l, t)
      /\ AcquireLoad(l, t)
      /\ cpc' = IF v1 = Expected(next) THEN "copy" ELSE "lag"
      /\ words' = <<>>
      /\ UNCHANGED <<producerVars, next, ret>>

\* The first version load of try_next, and what it decides.
Poll(t) ==
  LET l == Version(next)
      v1 == At(l, t).val
  IN  /\ cpc = "idle"
      /\ MayRead(cview, l, t)
      /\ AcquireLoad(l, t)
      /\ \/ /\ v1 < Expected(next)
            /\ ret' = <<"empty">>
            /\ UNCHANGED cpc
         \/ /\ v1 = Expected(next)
            /\ cpc' = "copy"
            /\ UNCHANGED ret
         \/ /\ v1 > Expected(next)
            /\ cpc' = "lag"
            /\ UNCHANGED ret
      /\ words' = <<>>
      /\ UNCHANGED <<producerVars, next>>

\* d.load(Relaxed) of the copy loop.
LoadWord(t) ==
  LET l == Word(next, Len(words) + 1)
  IN  /\ cpc = "copy"
      /\ Len(words) < WordCount
      /\ MayRead(cview, l, t)
      /\ RelaxedLoad(cview, l, t)
      /\ words' = Append(words, At(l, t).val)
      /\ UNCHANGED <<producerVars, cpc, next, ret>>

\* The view after fence(Acquire).
Fenced == Join(cview, pending)

\* fence(Acquire), then the second version load and what it decides.
Recheck(t) ==
  LET l == Version(next)
  IN  /\ cpc = "copy"
      /\ Len(words) = WordCount
      /\ MayRead(Fenced, l, t)
      /\ RelaxedLoad(Fenced, l, t)
      /\ \/ /\ At(l, t).val = Expected(next)
            /\ ret' = <<"event", words>>
            /\ next' = next + 1
            /\ cpc' = "idle"
         \/ /\ At(l, t).val # Expected(next)
            /\ cpc' = "lag"
            /\ UNCHANGED <<next, ret>>
      /\ words' = <<>>
      /\ UNCHANGED producerVars

\* head.load(Acquire) in the lag handling, possibly an old one.
Jump(t) ==
  LET behind == At(HeadLoc, t).val - Cap - next
      lost == IF behind >= 1 THEN behind ELSE 1
  IN  /\ cpc = "lag"
      /\ MayRead(cview, HeadLoc, t)
      /\ AcquireLoad(HeadLoc, t)
      /\ next' = next + lost
      /\ ret' = <<"lagged", lost>>
      /\ cpc' = "idle"
      /\ UNCHANGED <<producerVars, words>>

-----------------------------------------------------------------------------
Timestamps == 0 .. 2 * MaxPublish

Next ==
  \/ BeginWrite \/ StoreWord \/ EndWrite \/ Announce
  \/ \E t \in Timestamps :
       Subscribe(t) \/ Poll(t) \/ LoadWord(t) \/ Recheck(t) \/ Jump(t)

Spec == Init /\ [][Next]_vars

-----------------------------------------------------------------------------
(* Properties *)

\* No torn read on any execution the memory model allows: an event returned
\* is, word for word, the one at the cursor (the Soundness section of ring.rs
\* rests this on the two fences and the release of the version).
NoTornReadWeak ==
  ret[1] = "event" =>
    \A w \in 1 .. WordCount : ret[2][w] = next - 1

\* A consumer that has seen the head at h finds the slot of every sequence
\* below h written: it is never told Empty for an event the head it read
\* already counts (publish stores the head AFTER the slot, with Release).
HeadCoversSlots ==
  \A s \in next .. cview[HeadLoc] - 1 :
    At(Version(s), cview[Version(s)]).val >= Expected(s)

\* However old the head it reads, a consumer reports as lost only events the
\* producer has overwritten or begun to overwrite.
NoFalseLossWeak ==
  [][ret'[1] = "lagged" /\ next' # next =>
       /\ next' = next + ret'[2]
       /\ next' - 1 + Cap <= head]_vars
=============================================================================
