---------------------------- MODULE BroadcastLog ----------------------------
(***************************************************************************)
(* What the broadcast bus of crates/bus promises, with no slot, version or *)
(* word in sight: one producer appends events, every consumer owns a       *)
(* cursor, and each poll of a consumer either hands it the event at its    *)
(* cursor, says that there is none yet, or says exactly how many events it *)
(* has lost.  An event may be lost only once the Cap newest events no      *)
(* longer include it, so a slow consumer loses ticks and knows it.         *)
(*                                                                         *)
(* BusRing implements this module; the refinement is checked by TLC and    *)
(* its safety part proved in BusRingProofs.                                *)
(***************************************************************************)
EXTENDS Integers

CONSTANTS
  Consumers,    \* consumer handles
  Words,        \* the words of one event
  Cap           \* events the bus retains

VARIABLES
  published,    \* events whose payload is complete: sequences 0..published-1
  cursor,       \* the sequence each consumer expects, NotSubscribed before
  outcome       \* what each consumer's last poll returned

absVars == <<published, cursor, outcome>>

NotSubscribed == -1

\* The payload of the event with sequence s: every word derives from s.
EventAt(s) == [w \in Words |-> s]

\* The results of a poll.  A result without an event carries the payload of
\* no event, and one without a loss counts zero events lost.
NoEvent == [w \in Words |-> -1]
Nothing == [kind |-> "None", event |-> NoEvent, lost |-> 0]
Empty == [kind |-> "Empty", event |-> NoEvent, lost |-> 0]
Received(e) == [kind |-> "Event", event |-> e, lost |-> 0]
Lagged(n) == [kind |-> "Lagged", event |-> NoEvent, lost |-> n]

AbsInit ==
  /\ published = 0
  /\ cursor = [c \in Consumers |-> NotSubscribed]
  /\ outcome = [c \in Consumers |-> Nothing]

Extend ==
  /\ published' = published + 1
  /\ UNCHANGED <<cursor, outcome>>

\* A new consumer starts at the end of the log.  The event the producer is
\* just announcing may still count as a future one.
Join(c) ==
  /\ cursor[c] = NotSubscribed
  /\ \E s \in {published - 1, published} :
       /\ s >= 0
       /\ cursor' = [cursor EXCEPT ![c] = s]
  /\ UNCHANGED <<published, outcome>>

\* The event at the cursor, while it is one of the Cap newest.
Deliver(c) ==
  /\ cursor[c] # NotSubscribed
  /\ cursor[c] < published
  /\ published <= cursor[c] + Cap
  /\ cursor' = [cursor EXCEPT ![c] = @ + 1]
  /\ outcome' = [outcome EXCEPT ![c] = Received(EventAt(cursor[c]))]
  /\ UNCHANGED published

\* Nothing new: only a consumer that has seen the whole log is told so.
ReportEmpty(c) ==
  /\ cursor[c] = published
  /\ outcome' = [outcome EXCEPT ![c] = Empty]
  /\ UNCHANGED <<published, cursor>>

\* The n events from the cursor on are lost: each of them is no longer among
\* the Cap events that precede the next one to be published.  The jump stops
\* short of the oldest retained event by at most the one publish in flight.
Lose(c, n) ==
  /\ cursor[c] # NotSubscribed
  /\ n >= 1
  /\ cursor[c] + n - 1 + Cap <= published
  /\ published <= cursor[c] + n + Cap + 1
  /\ cursor' = [cursor EXCEPT ![c] = @ + n]
  /\ outcome' = [outcome EXCEPT ![c] = Lagged(n)]
  /\ UNCHANGED published

AbsNext ==
  \/ Extend
  \/ \E c \in Consumers :
       \/ Join(c)
       \/ Deliver(c)
       \/ ReportEmpty(c)
       \/ \E n \in 1 .. published : Lose(c, n)

AbsSpec == AbsInit /\ [][AbsNext]_absVars
=============================================================================
