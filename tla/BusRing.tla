------------------------------- MODULE BusRing ------------------------------
(***************************************************************************)
(* The broadcast ring of crates/bus/src/ring.rs: one producer, any number  *)
(* of consumers, a fixed array of slots, each a seqlock.                   *)
(*                                                                         *)
(* One action is one atomic access of the code (or a local step).  The     *)
(* relaxed accesses that stand between two fences -- the stores of the     *)
(* words of an event in publish, their loads in try_next -- happen in any  *)
(* order, because neither the compiler nor the processor keeps one.  What  *)
(* the fences themselves are needed for is the subject of BusRingWeak.     *)
(*                                                                         *)
(* An event is identified by its global sequence; the value of each of its *)
(* words is that sequence, so a copy made of words of two events shows.    *)
(***************************************************************************)
EXTENDS Integers, FiniteSets

CONSTANTS
  Consumers,    \* consumer handles, subscribed or not yet
  Words,        \* the u64 words of an event (WORDS of them)
  Cap,          \* slots in the ring
  MaxPublish    \* bound of the model: events published in one behaviour

ASSUME CapAssumption == Cap \in Nat /\ Cap >= 2
ASSUME MaxPublishAssumption == MaxPublish \in Nat

VARIABLES
  version,      \* version[i]: the seqlock counter of slot i
  data,         \* data[i][w]: word w of slot i
  head,         \* the next sequence to publish, as announced
  ppc,          \* where the producer is in publish
  unwritten,    \* the words publish still has to store
  cpc,          \* where each consumer is in try_next; "off" before subscribe
  next,         \* each consumer's cursor
  uncopied,     \* the words try_next still has to load
  words,        \* the words it has loaded
  ret           \* what the consumer's last try_next returned

producerVars == <<version, data, head, ppc, unwritten>>
consumerVars == <<cpc, next, uncopied, words, ret>>
vars == <<version, data, head, ppc, unwritten, cpc, next, uncopied, words, ret>>

Slots == 0 .. Cap - 1
Blank == -1    \* the content of a word before the first store

\* ring(capacity): the requested size rounded up to a power of two, at least 2.
Capacity(requested) ==
  LET powers == {2 ^ k : k \in 1 .. 10}
  IN  CHOOSE p \in powers :
        /\ p >= requested
        /\ \A q \in powers : q >= requested => p <= q

\* s & mask, and the version slot s & mask has once s is published there
\* ((s >> shift) + 1) << 1; Cap is a power of two in the code.
Slot(s) == s % Cap
Expected(s) == 2 * ((s \div Cap) + 1)

\* The abstract log this module implements, see Refinement below.
Written == IF ppc = "announce" THEN head + 1 ELSE head
Bus == INSTANCE BroadcastLog
         WITH published <- Written,
              cursor <- [c \in Consumers |-> IF cpc[c] = "off" THEN -1 ELSE next[c]],
              outcome <- ret

Init ==
  /\ version = [i \in Slots |-> 0]
  /\ data = [i \in Slots |-> [w \in Words |-> Blank]]
  /\ head = 0
  /\ ppc = "idle"
  /\ unwritten = {}
  /\ cpc = [c \in Consumers |-> "off"]
  /\ next = [c \in Consumers |-> 0]
  /\ uncopied = [c \in Consumers |-> {}]
  /\ words = [c \in Consumers |-> [w \in Words |-> Blank]]
  /\ ret = [c \in Consumers |-> Bus!Nothing]

-----------------------------------------------------------------------------
(* publish *)

\* version.store(v + 1): the slot of sequence head is odd, being written.
BeginWrite ==
  /\ ppc = "idle"
  /\ head < MaxPublish
  /\ version' = [version EXCEPT ![Slot(head)] = @ + 1]
  /\ ppc' = "write"
  /\ unwritten' = Words
  /\ UNCHANGED <<data, head, consumerVars>>

\* One relaxed store of the loop over slot.data.
StoreWord(w) ==
  /\ ppc = "write"
  /\ w \in unwritten
  /\ data' = [data EXCEPT ![Slot(head)][w] = head]
  /\ unwritten' = unwritten \ {w}
  /\ UNCHANGED <<version, head, ppc, consumerVars>>

\* Mutant: the slot is declared ready before its words are stored.
EndWriteEarly ==
  /\ ppc = "write"
  /\ version' = [version EXCEPT ![Slot(head)] = @ + 1]
  /\ ppc' = "announce"
  /\ UNCHANGED <<data, head, unwritten, consumerVars>>

\* version.store(v + 2), after every word: the slot is even again.
EndWrite ==
  /\ ppc = "write"
  /\ unwritten = {}
  /\ version' = [version EXCEPT ![Slot(head)] = @ + 1]
  /\ ppc' = "announce"
  /\ UNCHANGED <<data, head, unwritten, consumerVars>>

\* head.store(s + 1), after the slot.
Announce ==
  /\ ppc = "announce"
  /\ head' = head + 1
  /\ ppc' = "idle"
  /\ UNCHANGED <<version, data, unwritten, consumerVars>>

Publish == BeginWrite \/ (\E w \in Words : StoreWord(w)) \/ EndWrite \/ Announce

-----------------------------------------------------------------------------
(* subscribe and try_next *)

\* A new cursor at the current head.
Subscribe(c) ==
  /\ cpc[c] = "off"
  /\ next' = [next EXCEPT ![c] = head]
  /\ cpc' = [cpc EXCEPT ![c] = "idle"]
  /\ UNCHANGED <<producerVars, uncopied, words, ret>>

\* Mutant: an overwritten slot also counts as empty.
PollEmptyOrLapped(c) ==
  /\ cpc[c] = "idle"
  /\ version[Slot(next[c])] # Expected(next[c])
  /\ ret' = [ret EXCEPT ![c] = Bus!Empty]
  /\ UNCHANGED <<producerVars, cpc, next, uncopied, words>>

\* The first version load, v1 < want: not written yet, or being written.
PollEmpty(c) ==
  /\ cpc[c] = "idle"
  /\ version[Slot(next[c])] < Expected(next[c])
  /\ ret' = [ret EXCEPT ![c] = Bus!Empty]
  /\ UNCHANGED <<producerVars, cpc, next, uncopied, words>>

\* v1 = want: ready, so copy it.
PollReady(c) ==
  /\ cpc[c] = "idle"
  /\ version[Slot(next[c])] = Expected(next[c])
  /\ cpc' = [cpc EXCEPT ![c] = "copy"]
  /\ uncopied' = [uncopied EXCEPT ![c] = Words]
  /\ UNCHANGED <<producerVars, next, words, ret>>

\* v1 > want: overwritten, or being overwritten.
PollLapped(c) ==
  /\ cpc[c] = "idle"
  /\ version[Slot(next[c])] > Expected(next[c])
  /\ cpc' = [cpc EXCEPT ![c] = "lag"]
  /\ UNCHANGED <<producerVars, next, uncopied, words, ret>>

\* One relaxed load of the copy loop.
LoadWord(c, w) ==
  /\ cpc[c] = "copy"
  /\ w \in uncopied[c]
  /\ words' = [words EXCEPT ![c][w] = data[Slot(next[c])][w]]
  /\ uncopied' = [uncopied EXCEPT ![c] = @ \ {w}]
  /\ UNCHANGED <<producerVars, cpc, next, ret>>

\* Mutant: the version is not read again after the copy.
AcceptUnchecked(c) ==
  /\ cpc[c] = "copy"
  /\ uncopied[c] = {}
  /\ next' = [next EXCEPT ![c] = @ + 1]
  /\ ret' = [ret EXCEPT ![c] = Bus!Received(words[c])]
  /\ cpc' = [cpc EXCEPT ![c] = "idle"]
  /\ UNCHANGED <<producerVars, uncopied, words>>

\* The second version load, v2 = want: the copy is one event, return it.
Accept(c) ==
  /\ cpc[c] = "copy"
  /\ uncopied[c] = {}
  /\ version[Slot(next[c])] = Expected(next[c])
  /\ next' = [next EXCEPT ![c] = @ + 1]
  /\ ret' = [ret EXCEPT ![c] = Bus!Received(words[c])]
  /\ cpc' = [cpc EXCEPT ![c] = "idle"]
  /\ UNCHANGED <<producerVars, uncopied, words>>

\* v2 # want: overwritten while copying, fall through to the lag handling.
Discard(c) ==
  /\ cpc[c] = "copy"
  /\ uncopied[c] = {}
  /\ version[Slot(next[c])] # Expected(next[c])
  /\ cpc' = [cpc EXCEPT ![c] = "lag"]
  /\ UNCHANGED <<producerVars, next, uncopied, words, ret>>

\* Mutants: jump to the head, past events still held; no .max(1).
LostAtHead(s) == IF head - s >= 1 THEN head - s ELSE 1
LostAtZero(s) == IF head - Cap - s >= 1 THEN head - Cap - s ELSE 0

\* oldest.saturating_sub(s).max(1), with oldest = head.saturating_sub(cap).
LostAt(s) == IF head - Cap - s >= 1 THEN head - Cap - s ELSE 1

\* The head load of the lag handling, and the jump of the cursor.
Jump(c) ==
  /\ cpc[c] = "lag"
  /\ next' = [next EXCEPT ![c] = @ + LostAt(@)]
  /\ ret' = [ret EXCEPT ![c] = Bus!Lagged(LostAt(next[c]))]
  /\ cpc' = [cpc EXCEPT ![c] = "idle"]
  /\ UNCHANGED <<producerVars, uncopied, words>>

TryNext(c) ==
  \/ PollEmpty(c) \/ PollReady(c) \/ PollLapped(c)
  \/ \E w \in Words : LoadWord(c, w)
  \/ Accept(c) \/ Discard(c) \/ Jump(c)

-----------------------------------------------------------------------------
Next ==
  \/ Publish
  \/ \E c \in Consumers : Subscribe(c) \/ TryNext(c)

Spec == Init /\ [][Next]_vars

\* A consumer thread calls try_next in a loop; nothing is assumed of the
\* producer, which may stop for ever anywhere, also in the middle of a slot.
FairSpec == Spec /\ \A c \in Consumers : WF_vars(TryNext(c))

-----------------------------------------------------------------------------
(* Properties *)

Outcomes == [kind : {"None", "Empty", "Event", "Lagged"},
             event : [Words -> Int], lost : Nat]

\* The types of the ring's shared and private state.
TypeOK ==
  /\ version \in [Slots -> Nat]
  /\ data \in [Slots -> [Words -> Int]]
  /\ head \in Nat
  /\ ppc \in {"idle", "write", "announce"}
  /\ unwritten \in SUBSET Words
  /\ cpc \in [Consumers -> {"off", "idle", "copy", "lag"}]
  /\ next \in [Consumers -> Nat]
  /\ uncopied \in [Consumers -> SUBSET Words]
  /\ words \in [Consumers -> [Words -> Int]]
  /\ ret \in [Consumers -> Outcomes]

\* No torn read: an event try_next returned is, word for word, the event that
\* stood at the cursor, whatever the producer overwrote during the copy
\* (the seqlock protocol in ring.rs's Soundness section).
NoTornRead ==
  \A c \in Consumers :
    ret[c].kind = "Event" => ret[c].event = Bus!EventAt(next[c] - 1)

\* Publishes begun, the one in flight included.
Begun == IF ppc = "idle" THEN head ELSE head + 1

\* What a slot's version says, for every sequence s that maps to it: s is
\* ready and intact while fewer than Cap publishes have begun after it; the
\* slot being written is odd and holds the words stored so far; a sequence
\* not begun finds the version of the previous lap; a lapped one finds a
\* larger version, for ever.  try_next classifies a slot by nothing else.
SlotsReady ==
  \A s \in 0 .. Written - 1 : Begun <= s + Cap =>
    /\ version[Slot(s)] = Expected(s)
    /\ data[Slot(s)] = Bus!EventAt(s)
SlotInFlight ==
  ppc = "write" =>
    /\ version[Slot(head)] = Expected(head) - 1
    /\ \A w \in Words \ unwritten : data[Slot(head)][w] = head
SlotsAhead ==
  \A s \in Begun .. Written + Cap - 1 : version[Slot(s)] = Expected(s) - 2
SlotsLapped ==
  \A s \in 0 .. Begun - Cap - 1 : version[Slot(s)] > Expected(s)
VersionsTell == SlotsReady /\ SlotInFlight /\ SlotsAhead /\ SlotsLapped

\* A cursor never runs ahead of the log (nothing was returned before it is
\* created), and a copy in progress is of an
\* event that was ready; a word of it that is not that event's was read
\* after the version moved on, so the second version load refuses the copy.
CursorsBehind ==
  \A c \in Consumers :
    /\ next[c] <= Written
    /\ cpc[c] = "off" => ret[c] = Bus!Nothing
CopyDetectsOverwrite ==
  \A c \in Consumers : cpc[c] = "copy" =>
    /\ next[c] < Written
    /\ \A w \in Words \ uncopied[c] :
         words[c][w] = next[c] \/ version[Slot(next[c])] > Expected(next[c])

\* A consumer about to report a loss really was lapped: the producer has
\* begun to overwrite the event at its cursor, so the .max(1) of the lag
\* handling never skips an event that could still be read.
LapIsReal == \A c \in Consumers : cpc[c] = "lag" => next[c] + Cap <= head

\* The inductive invariant: what the other safety properties follow from.
RingInv ==
  /\ TypeOK
  /\ VersionsTell
  /\ CursorsBehind
  /\ CopyDetectsOverwrite
  /\ LapIsReal
  /\ NoTornRead

\* No event is skipped in silence or lost by mistake: a step moves a cursor
\* by one with the event in hand, or by the number of events it reports, all
\* of which the producer has overwritten or is overwriting.
NoFalseLoss ==
  [][\A c \in Consumers : next'[c] # next[c] /\ cpc[c] # "off" =>
       \/ ret'[c].kind = "Event" /\ next'[c] = next[c] + 1
       \/ /\ ret'[c].kind = "Lagged"
          /\ next'[c] = next[c] + ret'[c].lost
          /\ next'[c] - 1 + Cap <= head]_vars

\* The ring implements the broadcast log.
Refinement == Bus!AbsSpec

\* Every event complete in its slot is in the end received or reported lost
\* by every consumer subscribed before it, even when the producer stops in
\* the middle of a publish: try_next never waits.
EveryEventAccountedFor ==
  \A c \in Consumers : \A s \in 0 .. MaxPublish - 1 :
    (cpc[c] # "off" /\ next[c] <= s /\ s < Written) ~> next[c] > s
=============================================================================
