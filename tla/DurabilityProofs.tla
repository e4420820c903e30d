--------------------------- MODULE DurabilityProofs -------------------------
(***************************************************************************)
(* What is promised of data that was written, proved of the two writers    *)
(* and of the blocks they write.                                           *)
(*                                                                         *)
(* CaptureProcess, for any list of venues and any bounds: a clean exit     *)
(* leaves nothing that was not synced.  Of the constants only the          *)
(* assumption on Order is used.                                            *)
(*                                                                         *)
(* StoreSegment, for every block size and number of events: whatever a     *)
(* crash leaves of the unsynced pieces, the reader yields a prefix of what *)
(* was appended that reaches the last checkpoint, and a recovered file     *)
(* reads clean.  The invariant ties the pieces written to the events       *)
(* appended, and the pieces on disk to the pieces written.                 *)
(*                                                                         *)
(* BlockCodec, for every size of a word and every events a block may hold: *)
(* a scan gives back what was written, and a full scan never takes a       *)
(* damaged header for a good one.                                          *)
(***************************************************************************)
EXTENDS CaptureProcess, StoreSegment, BlockCodec, SequenceTheorems, WellFoundedInduction, TLAPS

-----------------------------------------------------------------------------
(* The capture process *)

Places == {"none", "top", "connecting", "backoff", "session", "fetching", "finishing",
           "done", "failed", "panicked"}

\* The types of what the proof speaks about.
ProcessTypeOK ==
  /\ task \in [Venues -> Places]
  /\ unsynced \subseteq Venues
  /\ supervisor \in {"starting", "serving", "joining", "exited"}
  /\ toJoin \in Seq(Venues)
  /\ failed \in BOOLEAN
  /\ code \in {"none", "success", "failure"}

\* A task ends well only after its log was synced, and then writes no more.
DoneIsSynced == \A v \in Venues : task[v] = "done" => v \notin unsynced

Awaited(v) == \E i \in 1 .. Len(toJoin) : toJoin[i] = v

\* Handles are kept in the order of the venues until the joining begins.
HandlesKept ==
  /\ supervisor = "starting" =>
       Len(toJoin) <= Len(Order) /\ \A i \in 1 .. Len(toJoin) : toJoin[i] = Order[i]
  /\ supervisor = "serving" => toJoin = Order

\* While joining without a failure so far, and after a clean exit, every task
\* is yet to be joined or has ended well.
JoinedIsDone ==
  (supervisor = "joining" \/ code = "success") /\ ~failed =>
    \A v \in Venues : Awaited(v) \/ task[v] = "done"

\* The exit code tells how the process ended.
CodeTells ==
  /\ code # "none" <=> supervisor = "exited"
  /\ code = "success" => ~failed /\ toJoin = <<>>

CaptureInv == ProcessTypeOK /\ DoneIsSynced /\ HandlesKept /\ JoinedIsDone /\ CodeTells

-----------------------------------------------------------------------------
\* Every element of Order is a venue, and every venue one of Order.
LEMMA OrderIsVenues ==
  /\ Order \in Seq(Venues)
  /\ \A i \in 1 .. Len(Order) : Order[i] \in Venues
  /\ \A v \in Venues : \E i \in 1 .. Len(Order) : Order[i] = v
<1>1. Order \in Seq(Venues)
  BY CaptureAssumption DEF CaptureAssumption
<1>2. DOMAIN Order = 1 .. Len(Order)
  BY <1>1
<1> QED BY <1>1, <1>2 DEF Venues

LEMMA InitInv == CaptureInit => CaptureInv
<1> SUFFICES ASSUME CaptureInit PROVE CaptureInv
  OBVIOUS
<1>1. ProcessTypeOK
  <2>1. task \in [Venues -> Places]
    BY DEF CaptureInit, Places
  <2>2. unsynced \subseteq Venues /\ toJoin \in Seq(Venues)
    BY DEF CaptureInit
  <2>3. failed \in BOOLEAN
    BY DEF CaptureInit
  <2> QED BY <2>1, <2>2, <2>3 DEF CaptureInit, ProcessTypeOK
<1>2. DoneIsSynced
  BY DEF CaptureInit, DoneIsSynced
<1>3. HandlesKept
  BY OrderIsVenues DEF CaptureInit, HandlesKept
<1>4. JoinedIsDone /\ CodeTells
  BY DEF CaptureInit, JoinedIsDone, CodeTells
<1> QED BY <1>1, <1>2, <1>3, <1>4 DEF CaptureInv

\* A step of a venue's task leaves the supervisor alone, and an ended task
\* where it is.
LEMMA TaskStep ==
  ASSUME CaptureInv, NEW v \in Venues, TaskNext(v)
  PROVE  CaptureInv'
<1>1. /\ UNCHANGED supervisorVars
      /\ \E there \in Places \ {"none"} : task' = [task EXCEPT ![v] = there] \/ task' = task
  BY DEF TaskNext, LoopTop, Connect, Wake, ReadFrame, Sync, StartFetch, FinishFetch, EndSession,
         SessionSeesShutdown, FinishSink, Fail, Panic, Goto, Places, taskVars, supervisorVars
<1>2. task[v] \notin Ended /\ supervisor # "exited"
  BY DEF TaskNext, LoopTop, Connect, Wake, ReadFrame, Sync, StartFetch, FinishFetch, EndSession,
         SessionSeesShutdown, FinishSink, Fail, Panic, At, Alive, Ended, Writing
<1>3. /\ unsynced' \in {unsynced, unsynced \cup {v}, unsynced \ {v}}
      /\ task'[v] = "done" => unsynced' = unsynced \ {v}
  BY <1>2 DEF CaptureInv, ProcessTypeOK, TaskNext, LoopTop, Connect, Wake, ReadFrame, Sync, StartFetch,
         FinishFetch, EndSession, SessionSeesShutdown, FinishSink, Fail, Panic, Goto, At, Ended,
         taskVars, supervisorVars
<1>4. \A w \in Venues : w # v => task'[w] = task[w]
  BY <1>1 DEF CaptureInv, ProcessTypeOK
<1>5. ProcessTypeOK'
  BY <1>1, <1>3 DEF CaptureInv, ProcessTypeOK, supervisorVars
<1>6. DoneIsSynced'
  BY <1>3, <1>4 DEF CaptureInv, DoneIsSynced
<1>7. HandlesKept' /\ CodeTells'
  BY <1>1 DEF CaptureInv, HandlesKept, CodeTells, supervisorVars
<1>8. JoinedIsDone'
  BY <1>1, <1>2, <1>4 DEF CaptureInv, JoinedIsDone, Awaited, supervisorVars, Ended
<1> QED BY <1>5, <1>6, <1>7, <1>8 DEF CaptureInv

\* A handle is kept for every task started, the next for the next venue.
LEMMA StartStep ==
  ASSUME CaptureInv, StartVenue
  PROVE  CaptureInv'
<1> DEFINE v == Order[Len(toJoin) + 1]
<1>1. /\ supervisor = "starting" /\ Len(toJoin) < Len(Order)
      /\ UNCHANGED <<unsynced, failed>>
  BY DEF StartVenue
<1>2. code = "none"
  BY <1>1 DEF CaptureInv, CodeTells
<1>3. v \in Venues
  BY <1>1, OrderIsVenues DEF CaptureInv, ProcessTypeOK
<1>4. CASE Goto(v, "top") /\ toJoin' = Append(toJoin, v) /\ UNCHANGED <<supervisor, code>>
  <2>1. ProcessTypeOK'
    BY <1>1, <1>3, <1>4 DEF CaptureInv, ProcessTypeOK, Goto, Places
  <2>2. DoneIsSynced'
    BY <1>1, <1>4 DEF CaptureInv, ProcessTypeOK, DoneIsSynced, Goto
  <2>3. HandlesKept'
    <3>1. /\ Len(toJoin') = Len(toJoin) + 1
          /\ \A i \in 1 .. Len(toJoin) : toJoin'[i] = toJoin[i]
          /\ toJoin'[Len(toJoin) + 1] = v
      BY <1>3, <1>4 DEF CaptureInv, ProcessTypeOK
    <3>2. Len(toJoin) \in Nat /\ Len(Order) \in Nat
      BY OrderIsVenues DEF CaptureInv, ProcessTypeOK
    <3> QED BY <1>1, <1>4, <3>1, <3>2 DEF CaptureInv, HandlesKept
  <2>4. JoinedIsDone' /\ CodeTells'
    BY <1>1, <1>2, <1>4 DEF JoinedIsDone, CodeTells
  <2> QED BY <2>1, <2>2, <2>3, <2>4 DEF CaptureInv
<1>5. CASE Exit("failure") /\ UNCHANGED <<task, toJoin>>
  BY <1>1, <1>5 DEF Exit, CaptureInv, ProcessTypeOK, DoneIsSynced, HandlesKept, JoinedIsDone,
     CodeTells
<1> QED BY <1>4, <1>5 DEF StartVenue

\* When the joining begins, every task is still to be joined.
LEMMA StopStep ==
  ASSUME CaptureInv, Serve \/ Signal \/ SeeFailure
  PROVE  CaptureInv'
<1>1. UNCHANGED <<task, unsynced, toJoin, code>> /\ supervisor' \in {"serving", "joining"}
  BY DEF Serve, Signal, SeeFailure, taskVars
<1>2. code = "none"
  BY DEF CaptureInv, CodeTells, Serve, Signal, SeeFailure
<1>3. toJoin = Order
  <2>1. CASE supervisor = "serving"
    BY <2>1 DEF CaptureInv, HandlesKept
  <2>2. CASE Serve
    <3>1. Len(toJoin) = Len(Order) /\ \A i \in 1 .. Len(toJoin) : toJoin[i] = Order[i]
      BY <2>2 DEF CaptureInv, HandlesKept, Serve
    <3> QED BY <3>1, OrderIsVenues, SeqEqual DEF CaptureInv, ProcessTypeOK
  <2> QED BY <2>1, <2>2 DEF Signal, SeeFailure
<1>4. failed' \in BOOLEAN
  BY DEF CaptureInv, ProcessTypeOK, Serve, Signal, SeeFailure
<1>5. ProcessTypeOK' /\ DoneIsSynced' /\ HandlesKept' /\ CodeTells'
  BY <1>1, <1>2, <1>3, <1>4 DEF CaptureInv, ProcessTypeOK, DoneIsSynced, HandlesKept, CodeTells
<1>6. JoinedIsDone'
  BY <1>1, <1>3, OrderIsVenues DEF JoinedIsDone, Awaited
<1> QED BY <1>5, <1>6 DEF CaptureInv

\* Joining takes the first handle off: its task has ended well, or `failed`.
LEMMA JoinStep ==
  ASSUME CaptureInv, Join \/ JoinTimeout
  PROVE  CaptureInv'
<1>1. /\ supervisor = "joining" /\ toJoin # <<>> /\ toJoin' = Tail(toJoin)
      /\ UNCHANGED <<task, unsynced, supervisor, code>>
  BY DEF Join, JoinTimeout, taskVars
<1>2. ~failed' => ~failed /\ task[Head(toJoin)] = "done"
  BY DEF Join, JoinTimeout
<1>3. failed' \in BOOLEAN
  BY DEF CaptureInv, ProcessTypeOK, Join, JoinTimeout
<1>4. code = "none"
  BY <1>1 DEF CaptureInv, CodeTells
<1>5. \A i \in 1 .. Len(toJoin) : i = 1 \/ (i - 1 \in 1 .. Len(toJoin') /\ toJoin'[i - 1] = toJoin[i])
  BY <1>1 DEF CaptureInv, ProcessTypeOK
<1>6. JoinedIsDone'
  BY <1>1, <1>2, <1>5 DEF CaptureInv, ProcessTypeOK, JoinedIsDone, Awaited
<1>7. toJoin' \in Seq(Venues)
  BY <1>1 DEF CaptureInv, ProcessTypeOK
<1>8. ProcessTypeOK' /\ DoneIsSynced' /\ HandlesKept' /\ CodeTells'
  BY <1>1, <1>3, <1>4, <1>7 DEF CaptureInv, ProcessTypeOK, DoneIsSynced, HandlesKept, CodeTells
<1> QED BY <1>6, <1>8 DEF CaptureInv

LEMMA ExitStep ==
  ASSUME CaptureInv, ExitProcess
  PROVE  CaptureInv'
<1>1. /\ supervisor = "joining" /\ toJoin = <<>> /\ supervisor' = "exited"
      /\ code' = IF failed THEN "failure" ELSE "success"
      /\ UNCHANGED <<task, unsynced, toJoin, failed>>
  BY DEF ExitProcess, Exit, taskVars
<1> QED BY <1>1 DEF CaptureInv, ProcessTypeOK, DoneIsSynced, HandlesKept, JoinedIsDone, CodeTells, Awaited

\* What the proof speaks of is not touched.
LEMMA IdleStep ==
  ASSUME CaptureInv, UNCHANGED <<task, unsynced, supervisor, toJoin, failed, code>>
  PROVE  CaptureInv'
BY DEF CaptureInv, ProcessTypeOK, DoneIsSynced, HandlesKept, JoinedIsDone, CodeTells, Awaited

\* The invariant is inductive.
THEOREM CaptureInvariant == CaptureSpec => []CaptureInv
<1>1. CaptureInv /\ [CaptureNext]_captureVars => CaptureInv'
  <2> SUFFICES ASSUME CaptureInv, [CaptureNext]_captureVars PROVE CaptureInv'
    OBVIOUS
  <2>1. CASE \E v \in Venues : TaskNext(v)
    BY <2>1, TaskStep
  <2>2. CASE EmitStats \/ LastStats \/ UNCHANGED captureVars
    BY <2>2, IdleStep DEF EmitStats, LastStats, captureVars, taskVars, supervisorVars
  <2>3. CASE StartVenue
    BY <2>3, StartStep
  <2>4. CASE Serve \/ Signal \/ SeeFailure
    BY <2>4, StopStep
  <2>5. CASE Join \/ JoinTimeout
    BY <2>5, JoinStep
  <2>6. CASE ExitProcess
    BY <2>6, ExitStep
  <2> QED BY <2>1, <2>2, <2>3, <2>4, <2>5, <2>6 DEF CaptureNext
<1> QED BY <1>1, InitInv, PTL DEF CaptureSpec

\* A clean exit leaves every record of every venue on the disk: the property
\* CleanMeansDurable, for any number of venues.
THEOREM CleanMeansDurableTheorem == CaptureSpec => []CleanMeansDurable
<1>1. CaptureInv => CleanMeansDurable
  <2> SUFFICES ASSUME CaptureInv, code = "success"
               PROVE  unsynced = {} /\ \A v \in Venues : task[v] = "done"
    BY DEF CleanMeansDurable
  <2>1. ~failed /\ toJoin = <<>>
    BY DEF CaptureInv, CodeTells
  <2>2. \A v \in Venues : task[v] = "done"
    BY <2>1 DEF CaptureInv, JoinedIsDone, Awaited
  <2> QED BY <2>2 DEF CaptureInv, ProcessTypeOK, DoneIsSynced
<1> QED BY <1>1, CaptureInvariant, PTL

-----------------------------------------------------------------------------
(* The store segment *)

(* Induction over the naturals, by a least element. *)

\* A set of naturals has a least element.
LEMMA LeastElement ==
  ASSUME NEW T, T \subseteq Nat, T # {}
  PROVE  \E m \in T : \A k \in T : m <= k
<1>1. PICK m \in T : \A k \in T : ~ (<<k, m>> \in OpToRel(<, Nat))
  BY WFMin, NatLessThanWellFounded, Zenon
<1>2. \A k \in T : ~ (k < m)
  BY <1>1, Zenon DEF OpToRel
<1>3. \A k \in T : m <= k
  BY <1>2
<1> QED BY <1>3

\* A set that holds zero and every successor holds every natural.
LEMMA Induction ==
  ASSUME NEW S, 0 \in S, \A n \in Nat : n \in S => n + 1 \in S
  PROVE  \A n \in Nat : n \in S
<1> SUFFICES ASSUME NEW x \in Nat, x \notin S PROVE FALSE
  OBVIOUS
<1> DEFINE T == {n \in Nat : n \notin S}
<1>1. T \subseteq Nat /\ T # {}
  OBVIOUS
<1>2. PICK m \in T : \A k \in T : m <= k
  BY <1>1, LeastElement
<1>3. m # 0 /\ m \in Nat
  BY <1>2
<1>4. m - 1 \in Nat /\ m - 1 \notin T
  BY <1>2, <1>3
<1> QED BY <1>2, <1>3, <1>4

-----------------------------------------------------------------------------
(* What FlattenSeq computes. *)

\* f holds the flattenings of the prefixes of s, as FlattenSeq defines them.
FlattensUpto(f, s, n) ==
  f = [i \in 1 .. n |-> IF i = 1 THEN s[i] ELSE f[i - 1] \o s[i]]
Flattens(f, s) == FlattensUpto(f, s, Len(s))
CanFlatten(S, s, n) ==
  n <= Len(s) => \E f \in [1 .. n -> Seq(S)] : FlattensUpto(f, s, n)

\* FlattenSeq takes the last of them.
LEMMA FlattenIs ==
  ASSUME NEW S, NEW s \in Seq(Seq(S)), s # <<>>
  PROVE  FlattenSeq(s) = (CHOOSE f : Flattens(f, s))[Len(s)]
<1>1. Len(s) # 0
  OBVIOUS
<1> QED BY <1>1 DEF FlattenSeq, Flattens, FlattensUpto

\* They exist for every sequence of sequences.
LEMMA FlatteningExists ==
  ASSUME NEW S, NEW s \in Seq(Seq(S))
  PROVE  \E f \in [1 .. Len(s) -> Seq(S)] : Flattens(f, s)
<1>1. CanFlatten(S, s, 0)
  <2>1. FlattensUpto([i \in 1 .. 0 |-> <<>>], s, 0)
    BY DEF FlattensUpto
  <2>2. [i \in 1 .. 0 |-> <<>>] \in [1 .. 0 -> Seq(S)]
    OBVIOUS
  <2> QED BY <2>1, <2>2 DEF CanFlatten
<1>2. ASSUME NEW n \in Nat, CanFlatten(S, s, n) PROVE CanFlatten(S, s, n + 1)
  <2> SUFFICES ASSUME n + 1 <= Len(s)
               PROVE  \E f \in [1 .. n + 1 -> Seq(S)] : FlattensUpto(f, s, n + 1)
    BY DEF CanFlatten
  <2>1. PICK f \in [1 .. n -> Seq(S)] : FlattensUpto(f, s, n)
    BY <1>2 DEF CanFlatten
  <2> DEFINE g == [i \in 1 .. n + 1 |-> IF i <= n THEN f[i]
                                        ELSE IF i = 1 THEN s[i] ELSE f[n] \o s[i]]
  <2>2. \A i \in 1 .. n + 1 : s[i] \in Seq(S)
    OBVIOUS
  <2>3. ASSUME NEW i \in 1 .. n + 1 PROVE g[i] \in Seq(S)
    <3>1. CASE i <= n
      BY <2>1, <3>1
    <3>2. CASE i = n + 1 /\ i = 1
      BY <2>2, <3>2
    <3>3. CASE i = n + 1 /\ i # 1
      <4>1. f[n] \in Seq(S) /\ s[i] \in Seq(S)
        BY <2>1, <2>2, <3>3
      <4>2. f[n] \o s[i] \in Seq(S)
        BY <4>1
      <4>3. ~ (i <= n) /\ i # 1
        BY <3>3
      <4>4. g[i] = f[n] \o s[i]
        BY <4>3
      <4> QED BY <4>2, <4>4
    <3> QED BY <3>1, <3>2, <3>3
  <2>4. g \in [1 .. n + 1 -> Seq(S)]
    BY <2>3
  <2>5. ASSUME NEW i \in 1 .. n + 1
        PROVE  g[i] = IF i = 1 THEN s[i] ELSE g[i - 1] \o s[i]
    <3>1. CASE i <= n
      <4>1. f[i] = IF i = 1 THEN s[i] ELSE f[i - 1] \o s[i]
        <5>1. i \in 1 .. n
          BY <3>1
        <5> QED BY <2>1, <5>1 DEF FlattensUpto
      <4>2. i # 1 => g[i - 1] = f[i - 1]
        BY <3>1
      <4> QED BY <3>1, <4>1, <4>2
    <3>2. CASE i = n + 1
      <4>1. i # 1 => g[i - 1] = f[n]
        BY <3>2
      <4> QED BY <3>2, <4>1
    <3> QED BY <3>1, <3>2
  <2>6. FlattensUpto(g, s, n + 1)
    <3> HIDE DEF g
    <3> QED BY <2>4, <2>5 DEF FlattensUpto
  <2> QED BY <2>4, <2>6
<1> DEFINE T == {n \in Nat : CanFlatten(S, s, n)}
<1>3. \A n \in Nat : n \in T
  <2>1. 0 \in T /\ \A n \in Nat : n \in T => n + 1 \in T
    BY <1>1, <1>2
  <2> HIDE DEF T
  <2> QED BY <2>1, Induction
<1>4. Len(s) \in Nat
  OBVIOUS
<1> QED BY <1>3, <1>4 DEF CanFlatten, Flattens

\* A prefix of a sequence has the same flattenings.
LEMMA FlatteningsAgree ==
  ASSUME NEW s, NEW r, NEW f, NEW g, Flattens(f, s), Flattens(g, r),
         Len(s) \in Nat, Len(r) \in Nat, Len(s) <= Len(r),
         \A i \in 1 .. Len(s) : s[i] = r[i]
  PROVE  \A i \in 1 .. Len(s) : f[i] = g[i]
<1> DEFINE n == Len(s)
           T == {k \in Nat : k \in 1 .. n => f[k] = g[k]}
<1>1. 0 \in T
  OBVIOUS
<1>2. ASSUME NEW k \in Nat, k \in T PROVE k + 1 \in T
  <2> SUFFICES ASSUME k + 1 \in 1 .. n PROVE f[k + 1] = g[k + 1]
    OBVIOUS
  <2>1. /\ f[k + 1] = IF k + 1 = 1 THEN s[k + 1] ELSE f[(k + 1) - 1] \o s[k + 1]
        /\ g[k + 1] = IF k + 1 = 1 THEN r[k + 1] ELSE g[(k + 1) - 1] \o r[k + 1]
    <3>1. k + 1 \in 1 .. Len(s) /\ k + 1 \in 1 .. Len(r)
      OBVIOUS
    <3>2. f[k + 1] = IF k + 1 = 1 THEN s[k + 1] ELSE f[(k + 1) - 1] \o s[k + 1]
      BY <3>1 DEF Flattens, FlattensUpto
    <3>3. g[k + 1] = IF k + 1 = 1 THEN r[k + 1] ELSE g[(k + 1) - 1] \o r[k + 1]
      BY <3>1 DEF Flattens, FlattensUpto
    <3> QED BY <3>2, <3>3
  <2>2. s[k + 1] = r[k + 1] /\ (k + 1) - 1 = k
    OBVIOUS
  <2>3. k + 1 # 1 => f[k] = g[k]
    BY <1>2
  <2> QED BY <2>1, <2>2, <2>3
<1> HIDE DEF T
<1>3. \A k \in Nat : k \in T
  BY <1>1, <1>2, Induction
<1> QED BY <1>3 DEF T

\* No sequences flatten to the empty one.
LEMMA FlattenEmpty == FlattenSeq(<<>>) = <<>>
  BY DEF FlattenSeq

\* One more sequence is concatenated at the end.
LEMMA FlattenAppend ==
  ASSUME NEW S, NEW s \in Seq(Seq(S)), NEW x \in Seq(S)
  PROVE  /\ FlattenSeq(s) \in Seq(S)
         /\ FlattenSeq(Append(s, x)) = FlattenSeq(s) \o x
<1>1. PICK r : r = Append(s, x)
  OBVIOUS
<1>2. /\ r \in Seq(Seq(S)) /\ r # <<>> /\ Len(r) = Len(s) + 1
      /\ r[Len(s) + 1] = x /\ Len(s) \in Nat
      /\ \A i \in 1 .. Len(s) : s[i] = r[i]
  <2>1. r \in Seq(Seq(S)) /\ Len(r) = Len(s) + 1 /\ Len(s) \in Nat
    BY <1>1
  <2>2. r[Len(s) + 1] = x /\ \A i \in 1 .. Len(s) : s[i] = r[i]
    BY <1>1
  <2> QED BY <2>1, <2>2
<1>3. PICK f : f = (CHOOSE h : Flattens(h, s)) /\ Flattens(f, s)
  BY FlatteningExists
<1>4. PICK g : g = (CHOOSE h : Flattens(h, r)) /\ Flattens(g, r)
  BY <1>2, FlatteningExists
<1>5. \A i \in 1 .. Len(s) : f[i] = g[i] /\ f[i] \in Seq(S)
  <2>1. /\ Len(s) \in Nat /\ Len(r) \in Nat
        /\ Len(s) <= Len(r) /\ Len(s) <= Len(s)
        /\ \A i \in 1 .. Len(s) : s[i] = r[i]
    BY <1>2
  <2>2. \A i \in 1 .. Len(s) : f[i] = g[i]
    BY <1>3, <1>4, <2>1, FlatteningsAgree
  <2>3. PICK e \in [1 .. Len(s) -> Seq(S)] : Flattens(e, s)
    BY FlatteningExists
  <2>4. \A i \in 1 .. Len(s) : e[i] = g[i]
    BY <1>4, <2>1, <2>3, FlatteningsAgree
  <2> QED BY <2>2, <2>3, <2>4
<1>6. FlattenSeq(r) = g[Len(s) + 1]
  BY <1>2, <1>4, FlattenIs
<1>7. CASE s = <<>>
  <2>1. FlattenSeq(s) = <<>>
    BY <1>7, FlattenEmpty
  <2>2. Len(s) = 0 /\ Len(r) = 1
    BY <1>2, <1>7
  <2>3. g[1] = r[1]
    BY <1>4, <2>2 DEF Flattens, FlattensUpto
  <2> QED BY <1>1, <1>2, <1>6, <2>1, <2>2, <2>3
<1>8. CASE s # <<>>
  <2>1. FlattenSeq(s) = f[Len(s)]
    BY <1>3, <1>8, FlattenIs
  <2>2. Len(s) \in 1 .. Len(s)
    BY <1>2, <1>8
  <2>3. f[Len(s)] \in Seq(S)
    BY <1>5, <2>2
  <2>4. g[Len(s) + 1] = g[Len(s)] \o r[Len(s) + 1]
    <3>1. Len(s) + 1 \in 1 .. Len(r) /\ Len(s) + 1 # 1 /\ (Len(s) + 1) - 1 = Len(s)
      BY <1>2, <2>2
    <3> QED BY <1>4, <3>1 DEF Flattens, FlattensUpto
  <2> QED BY <1>1, <1>2, <1>5, <1>6, <2>1, <2>2, <2>3, <2>4
<1> QED BY <1>7, <1>8

-----------------------------------------------------------------------------
(* The events of the first blocks, in order. *)

\* The concatenation of e[1] to e[k].
Concat(e, k) == FlattenSeq([j \in 1 .. k |-> e[j]])

\* Of no blocks.
LEMMA ConcatZero == \A e : Concat(e, 0) = <<>>
<1> SUFFICES ASSUME NEW e PROVE Concat(e, 0) = <<>>
  OBVIOUS
<1>1. [j \in 1 .. 0 |-> e[j]] = <<>>
  OBVIOUS
<1> QED BY <1>1, FlattenEmpty DEF Concat

\* Of one block more.
LEMMA ConcatNext ==
  ASSUME NEW S, NEW e, NEW k \in Nat, \A j \in 1 .. k + 1 : e[j] \in Seq(S)
  PROVE  Concat(e, k) \in Seq(S) /\ Concat(e, k + 1) = Concat(e, k) \o e[k + 1]
<1>1. PICK s : s = [j \in 1 .. k |-> e[j]]
  OBVIOUS
<1>2. PICK r : r = [j \in 1 .. k + 1 |-> e[j]]
  OBVIOUS
<1>3. s \in Seq(Seq(S)) /\ Len(s) = k /\ \A j \in 1 .. k : s[j] = e[j]
  BY <1>1
<1>4. r \in Seq(Seq(S)) /\ Len(r) = k + 1 /\ \A j \in 1 .. k + 1 : r[j] = e[j]
  BY <1>2
<1>5. e[k + 1] \in Seq(S)
  OBVIOUS
<1>6. PICK q : q = Append(s, e[k + 1])
  OBVIOUS
<1>7. /\ q \in Seq(Seq(S)) /\ Len(q) = k + 1 /\ q[k + 1] = e[k + 1]
      /\ \A j \in 1 .. k : q[j] = s[j]
  BY <1>3, <1>5, <1>6
<1>8. \A j \in 1 .. k + 1 : q[j] = r[j]
  <2> SUFFICES ASSUME NEW j \in 1 .. k + 1 PROVE q[j] = r[j]
    OBVIOUS
  <2>1. CASE j = k + 1
    BY <1>4, <1>7, <2>1
  <2>2. CASE j # k + 1
    <3>1. j \in 1 .. k
      BY <2>2
    <3> QED BY <1>3, <1>4, <1>7, <3>1
  <2> QED BY <2>1, <2>2
<1>9. q = r
  BY <1>4, <1>7, <1>8
<1>10. /\ FlattenSeq(s) \in Seq(S)
       /\ FlattenSeq(Append(s, e[k + 1])) = FlattenSeq(s) \o e[k + 1]
  BY <1>3, <1>5, FlattenAppend
<1>11. Concat(e, k) = FlattenSeq(s) /\ Concat(e, k + 1) = FlattenSeq(q)
  BY <1>1, <1>2, <1>9 DEF Concat
<1> QED BY <1>6, <1>10, <1>11

\* Of blocks with events in S.
LEMMA ConcatType ==
  ASSUME NEW S, NEW e, NEW k \in Nat, \A j \in 1 .. k : e[j] \in Seq(S)
  PROVE  Concat(e, k) \in Seq(S)
<1>1. CASE k = 0
  <2>1. Concat(e, k) = <<>>
    BY <1>1, ConcatZero
  <2> QED BY <2>1
<1>2. CASE k # 0
  <2>1. PICK m \in Nat : k = m + 1
    BY <1>2
  <2>2. Concat(e, m) \in Seq(S) /\ Concat(e, m + 1) = Concat(e, m) \o e[m + 1]
    <3>1. \A j \in 1 .. m + 1 : e[j] \in Seq(S)
      BY <2>1
    <3> QED BY <3>1, ConcatNext
  <2>3. e[m + 1] \in Seq(S)
    BY <2>1
  <2>4. PICK x : x = Concat(e, m)
    OBVIOUS
  <2>5. x \o e[m + 1] \in Seq(S)
    BY <2>2, <2>3, <2>4
  <2> QED BY <2>1, <2>2, <2>4, <2>5
<1> QED BY <1>1, <1>2

\* The fewer blocks, the shorter the prefix.
LEMMA ConcatGrows ==
  ASSUME NEW S, NEW e, NEW b \in Nat, \A j \in 1 .. b : e[j] \in Seq(S),
         NEW m \in Nat, NEW k \in Nat, m <= k, k <= b
  PROVE  /\ Concat(e, m) \in Seq(S) /\ Concat(e, k) \in Seq(S)
         /\ IsPrefix(Concat(e, m), Concat(e, k))
<1> DEFINE P(n) == m <= n /\ n <= b => IsPrefix(Concat(e, m), Concat(e, n))
           T == {n \in Nat : P(n)}
<1>1. \A n \in Nat : n <= b => Concat(e, n) \in Seq(S)
  BY ConcatType
<1>2. P(0)
  <2>1. m <= 0 => m = 0
    OBVIOUS
  <2>2. Concat(e, 0) = <<>>
    BY ConcatZero
  <2> QED BY <2>1, <2>2 DEF IsPrefix
<1>3. ASSUME NEW n \in Nat, P(n) PROVE P(n + 1)
  <2> SUFFICES ASSUME m <= n + 1, n + 1 <= b
               PROVE  IsPrefix(Concat(e, m), Concat(e, n + 1))
    OBVIOUS
  <2>1. CASE m = n + 1
    BY <1>1, <2>1 DEF IsPrefix
  <2>2. CASE m <= n
    <3>1. PICK x : x = Concat(e, m)
      OBVIOUS
    <3>2. PICK y : y = Concat(e, n)
      OBVIOUS
    <3>3. x \in Seq(S) /\ y \in Seq(S) /\ e[n + 1] \in Seq(S)
      BY <1>1, <3>1, <3>2
    <3>4. Concat(e, n + 1) = y \o e[n + 1]
      <4>1. \A j \in 1 .. n + 1 : e[j] \in Seq(S)
        OBVIOUS
      <4>2. Concat(e, n + 1) = Concat(e, n) \o e[n + 1]
        BY <4>1, ConcatNext
      <4> QED BY <3>2, <4>2
    <3>5. IsPrefix(x, y)
      BY <1>3, <2>2, <3>1, <3>2
    <3>6. IsPrefix(x, y \o e[n + 1])
      BY <3>3, <3>5 DEF IsPrefix
    <3> QED BY <3>1, <3>4, <3>6
  <2> QED BY <2>1, <2>2
<1> HIDE DEF P
<1>4. \A n \in Nat : n \in T
  <2>1. 0 \in T /\ \A n \in Nat : n \in T => n + 1 \in T
    BY <1>2, <1>3
  <2> HIDE DEF T
  <2> QED BY <2>1, Induction
<1>5. P(k)
  BY <1>4
<1> QED BY <1>1, <1>5 DEF P

\* Only the blocks counted matter.
LEMMA ConcatSame ==
  ASSUME NEW e, NEW g, NEW k \in Nat, \A j \in 1 .. k : e[j] = g[j]
  PROVE  Concat(e, k) = Concat(g, k)
<1>1. [j \in 1 .. k |-> e[j]] = [j \in 1 .. k |-> g[j]]
  OBVIOUS
<1> QED BY <1>1 DEF Concat

-----------------------------------------------------------------------------
(* What the pieces of a file are, and the blocks they hold. *)

EntrySet == [offset : Nat, n : Nat, min : Nat, max : Nat]
HeadOf(x) == [type |-> "head", events |-> x]
BodyOf(x) == [type |-> "body", events |-> x]
DirectoryOf(d) == [type |-> "dir", entries |-> d]
TrailerAt(start) == [type |-> "trailer", start |-> start]
Piece ==
  {FileHeader} \cup [type : {"junk", "head", "body"}, events : Seq(Nat)]
    \cup [type : {"dir"}, entries : Seq(EntrySet)] \cup [type : {"trailer"}, start : Nat]

\* The j-th block of w holds the events x, and the directory d says so.
BlockIs(w, d, j, x) ==
  /\ x \in Seq(Nat) /\ x # <<>>
  /\ w[2 * j] = HeadOf(x)
  /\ w[2 * j + 1] = BodyOf(x)
  /\ d[j] = Entry(2 * j - 1, x)

\* The pieces w begin with a file header and the blocks e, listed in d.
CutInto(w, d, e) ==
  /\ w \in Seq(Piece) /\ d \in Seq(EntrySet) /\ e \in Seq(Seq(Nat))
  /\ Len(d) = Len(e)
  /\ 2 * Len(e) + 1 <= Len(w)
  /\ w[1] = FileHeader
  /\ \A j \in 1 .. Len(e) : BlockIs(w, d, j, e[j])

\* Nothing follows the blocks.
EndsOpen(w, e) == Len(w) = 2 * Len(e) + 1

\* The footer follows them.
EndsSealed(w, d, e) ==
  \/ /\ Len(e) = 0 /\ Len(w) = 2
     /\ w[2] = TrailerAt(1)
  \/ /\ Len(e) # 0 /\ Len(w) = 2 * Len(e) + 3
     /\ w[2 * Len(e) + 2] = DirectoryOf(d)
     /\ w[2 * Len(e) + 3] = TrailerAt(2 * Len(e) + 1)

\* The first n pieces hold at least c events, in whole blocks.
Covers(e, n, c) ==
  c # 0 => \E m \in 0 .. Len(e) : 2 * m + 1 <= n /\ c <= Len(Concat(e, m))

\* So do the pieces of d that are as they were written.
CoversIntact(d, w, e, c) ==
  c # 0 => \E m \in 0 .. Len(e) :
             /\ 2 * m + 1 <= Len(d)
             /\ \A i \in 1 .. 2 * m + 1 : d[i] = w[i]
             /\ c <= Len(Concat(e, m))

\* Times that never go back.
Ascends(s) == \A i, j \in 1 .. Len(s) : i <= j => s[i] <= s[j]

\* The invariant, for the blocks e.
Cut(e) == CutInto(written, dir, e)
StageEnds(e) ==
  /\ stage \in {"writing", "checkpoint"} => EndsOpen(written, e)
  /\ stage \in {"sealing", "sealed"} => EndsSealed(written, dir, e)
  /\ Down => EndsOpen(written, e) \/ EndsSealed(written, dir, e)
  /\ stage \in {"checkpoint", "sealing", "sealed"} => pending = <<>>
Contents(e) ==
  /\ pending \in Seq(Nat) /\ appended \in Seq(Nat)
  /\ appended = Concat(e, Len(e)) \o pending
InOrder ==
  /\ last \in Nat
  /\ Ascends(appended)
  /\ \A i \in 1 .. Len(appended) : appended[i] <= last
Kept(e) ==
  /\ synced \in Nat /\ synced <= Len(written) /\ checkpointed \in Nat
  /\ Covers(e, synced, checkpointed)
Left(e) ==
  Down => /\ disk \in Seq(Piece)
          /\ Len(disk) <= Len(written)
          /\ \A i \in 1 .. Len(disk) : disk[i] \in {written[i], Junk}
          /\ CoversIntact(disk, written, e, checkpointed)
SegmentOf(e) == Cut(e) /\ StageEnds(e) /\ Contents(e) /\ InOrder /\ Kept(e) /\ Left(e)
SegmentInv ==
  /\ stage \in {"writing", "checkpoint", "sealing", "sealed", "crashed", "recovered"}
  /\ \E e \in Seq(Seq(Nat)) : SegmentOf(e)

-----------------------------------------------------------------------------
(* What the writer adds keeps the layout. *)

\* r is w with one or two pieces at the end.
AddsOne(r, w, x) == r = w \o <<x>>
AddsTwo(r, w, x, y) == r = w \o <<x, y>>

\* What that says of its elements.
Keeps(r, w, n) == Len(r) = Len(w) + n /\ \A i \in 1 .. Len(w) : r[i] = w[i]
HasOne(r, w, x) == Keeps(r, w, 1) /\ r[Len(w) + 1] = x
HasTwo(r, w, x, y) == Keeps(r, w, 2) /\ r[Len(w) + 1] = x /\ r[Len(w) + 2] = y

LEMMA OneMore ==
  ASSUME NEW S, NEW w \in Seq(S), NEW x \in S, NEW r, AddsOne(r, w, x)
  PROVE  r \in Seq(S) /\ HasOne(r, w, x)
  BY DEF AddsOne, HasOne, Keeps

LEMMA TwoMore ==
  ASSUME NEW S, NEW w \in Seq(S), NEW x \in S, NEW y \in S, NEW r, AddsTwo(r, w, x, y)
  PROVE  r \in Seq(S) /\ HasTwo(r, w, x, y)
  BY DEF AddsTwo, HasTwo, Keeps

\* Two sequences of one element each.
LEMMA Pair ==
  ASSUME NEW S, NEW a \in S, NEW c \in S
  PROVE  <<a>> \o <<c>> = <<a, c>>
<1>1. PICK s : s = <<a>> \o <<c>>
  OBVIOUS
<1>2. PICK t : t = <<a, c>>
  OBVIOUS
<1>3. s \in Seq(S) /\ Len(s) = 2 /\ s[1] = a /\ s[2] = c
  BY <1>1
<1>4. t \in Seq(S) /\ Len(t) = 2 /\ t[1] = a /\ t[2] = c
  BY <1>2
<1>5. \A i \in 1 .. Len(s) : s[i] = t[i]
  BY <1>3, <1>4
<1>6. s = t
  BY <1>3, <1>4, <1>5
<1> QED BY <1>1, <1>2, <1>6

LEMMA OneAppended ==
  ASSUME NEW S, NEW w \in Seq(S), NEW x \in S, NEW r, r = Append(w, x)
  PROVE  /\ r \in Seq(S) /\ Len(r) = Len(w) + 1
         /\ \A i \in 1 .. Len(w) : r[i] = w[i]
         /\ r[Len(w) + 1] = x
  OBVIOUS

\* What the constructors build.
LEMMA PieceTypes ==
  /\ \A x \in Seq(Nat) : HeadOf(x) \in Piece /\ BodyOf(x) \in Piece
  /\ \A d \in Seq(EntrySet) : DirectoryOf(d) \in Piece
  /\ \A n \in Nat : TrailerAt(n) \in Piece
  /\ FileHeader \in Piece /\ Junk \in Piece
<1>1. \A x \in Seq(Nat) : HeadOf(x) \in Piece /\ BodyOf(x) \in Piece
  BY DEF HeadOf, BodyOf, Piece
<1>2. \A d \in Seq(EntrySet) : DirectoryOf(d) \in Piece
  BY DEF DirectoryOf, Piece
<1>3. \A n \in Nat : TrailerAt(n) \in Piece
  BY DEF TrailerAt, Piece
<1>4. FileHeader \in Piece /\ Junk \in Piece
  <2>1. <<>> \in Seq(Nat)
    OBVIOUS
  <2> QED BY <2>1 DEF FileHeader, Junk, Piece
<1> QED BY <1>1, <1>2, <1>3, <1>4

LEMMA EntryType ==
  ASSUME NEW o \in Nat, NEW x \in Seq(Nat), x # <<>>
  PROVE  Entry(o, x) \in EntrySet
<1>1. Len(x) \in Nat /\ 1 \in 1 .. Len(x) /\ Len(x) \in 1 .. Len(x)
  OBVIOUS
<1>2. x[1] \in Nat /\ x[Len(x)] \in Nat
  BY <1>1
<1> QED BY <1>1, <1>2 DEF Entry, EntrySet, Last

\* v, c and f are w, d and e with a block of the events x.
AddsBlock(v, c, f, w, d, e, x) ==
  v = w \o Block(x) /\ c = Append(d, Entry(Len(w), x)) /\ f = Append(e, x)

\* A block more.
LEMMA BlockAdded ==
  ASSUME NEW w, NEW d, NEW e, CutInto(w, d, e), EndsOpen(w, e),
         NEW x \in Seq(Nat), x # <<>>,
         NEW v, NEW c, NEW f, AddsBlock(v, c, f, w, d, e, x)
  PROVE  CutInto(v, c, f) /\ EndsOpen(v, f) /\ Len(f) = Len(e) + 1
<1>1. /\ w \in Seq(Piece) /\ d \in Seq(EntrySet) /\ e \in Seq(Seq(Nat))
      /\ Len(d) = Len(e) /\ Len(w) = 2 * Len(e) + 1
      /\ Len(e) \in Nat /\ w[1] = FileHeader
      /\ \A j \in 1 .. Len(e) : BlockIs(w, d, j, e[j])
  BY DEF CutInto, EndsOpen
<1>2. PICK n \in Nat : n = Len(e)
  BY <1>1
<1>3. /\ v \in Seq(Piece) /\ Len(v) = 2 * n + 3
      /\ \A i \in 1 .. 2 * n + 1 : v[i] = w[i]
      /\ v[2 * n + 2] = HeadOf(x) /\ v[2 * n + 3] = BodyOf(x)
  <2>1. PICK h : h = HeadOf(x)
    OBVIOUS
  <2>2. PICK y : y = BodyOf(x)
    OBVIOUS
  <2>3. h \in Piece /\ y \in Piece
    BY <2>1, <2>2, PieceTypes
  <2>4. AddsTwo(v, w, h, y)
    BY <2>1, <2>2 DEF AddsBlock, AddsTwo, Block, HeadOf, BodyOf
  <2>5. v \in Seq(Piece) /\ HasTwo(v, w, h, y)
    BY <1>1, <2>3, <2>4, TwoMore
  <2>6. Len(w) = 2 * n + 1 /\ Len(w) + 1 = 2 * n + 2 /\ Len(w) + 2 = 2 * n + 3
    BY <1>1, <1>2
  <2>7. /\ Len(v) = 2 * n + 3
        /\ \A i \in 1 .. 2 * n + 1 : v[i] = w[i]
        /\ v[2 * n + 2] = h /\ v[2 * n + 3] = y
    BY <2>5, <2>6 DEF HasTwo, Keeps
  <2> QED BY <2>1, <2>2, <2>5, <2>7
<1>4. /\ c \in Seq(EntrySet) /\ Len(c) = n + 1
      /\ \A j \in 1 .. n : c[j] = d[j]
      /\ c[n + 1] = Entry(2 * n + 1, x)
  <2>1. PICK y : y = Entry(2 * n + 1, x)
    OBVIOUS
  <2>2. y \in EntrySet
    BY <2>1, EntryType
  <2>3. c = Append(d, y)
    BY <1>1, <1>2, <2>1 DEF AddsBlock
  <2> QED BY <1>1, <1>2, <2>1, <2>2, <2>3, OneAppended
<1>5. /\ f \in Seq(Seq(Nat)) /\ Len(f) = n + 1
      /\ \A j \in 1 .. n : f[j] = e[j]
      /\ f[n + 1] = x
  BY <1>1, <1>2, OneAppended DEF AddsBlock
<1>6. ASSUME NEW j \in 1 .. n + 1 PROVE BlockIs(v, c, j, f[j])
  <2>1. CASE j = n + 1
    <3>1. 2 * j = 2 * n + 2 /\ 2 * j + 1 = 2 * n + 3 /\ 2 * j - 1 = 2 * n + 1
      BY <2>1
    <3> QED BY <1>3, <1>4, <1>5, <2>1, <3>1 DEF BlockIs
  <2>2. CASE j # n + 1
    <3>1. j \in 1 .. n /\ 2 * j \in 1 .. 2 * n + 1 /\ 2 * j + 1 \in 1 .. 2 * n + 1
      BY <2>2
    <3>2. v[2 * j] = w[2 * j] /\ v[2 * j + 1] = w[2 * j + 1]
      BY <1>3, <3>1
    <3>3. c[j] = d[j] /\ f[j] = e[j]
      BY <1>4, <1>5, <3>1
    <3>4. BlockIs(w, d, j, e[j])
      BY <1>1, <1>2, <3>1
    <3> QED BY <3>2, <3>3, <3>4 DEF BlockIs
  <2> QED BY <2>1, <2>2
<1>7. v[1] = FileHeader
  BY <1>1, <1>2, <1>3
<1>8. CutInto(v, c, f)
  <2>1. 2 * Len(f) + 1 <= Len(v) /\ Len(c) = Len(f)
    BY <1>3, <1>4, <1>5
  <2>2. \A j \in 1 .. Len(f) : BlockIs(v, c, j, f[j])
    BY <1>5, <1>6
  <2>3. v \in Seq(Piece) /\ c \in Seq(EntrySet) /\ f \in Seq(Seq(Nat))
    BY <1>3, <1>4, <1>5
  <2> QED BY <1>7, <2>1, <2>2, <2>3 DEF CutInto
<1>9. EndsOpen(v, f) /\ Len(f) = Len(e) + 1
  BY <1>2, <1>3, <1>5 DEF EndsOpen
<1> QED BY <1>8, <1>9

\* The footer.
LEMMA FooterAdded ==
  ASSUME NEW w, NEW d, NEW e, CutInto(w, d, e), EndsOpen(w, e),
         NEW v, v = w \o Footer(d, Len(w))
  PROVE  /\ CutInto(v, d, e) /\ EndsSealed(v, d, e)
         /\ Len(w) <= Len(v)
<1>1. /\ w \in Seq(Piece) /\ d \in Seq(EntrySet) /\ e \in Seq(Seq(Nat))
      /\ Len(d) = Len(e) /\ Len(w) = 2 * Len(e) + 1
      /\ Len(e) \in Nat /\ w[1] = FileHeader
      /\ \A j \in 1 .. Len(e) : BlockIs(w, d, j, e[j])
  BY DEF CutInto, EndsOpen
<1>2. PICK n \in Nat : n = Len(e)
  BY <1>1
<1>3. ASSUME v \in Seq(Piece), Len(w) <= Len(v), \A i \in 1 .. Len(w) : v[i] = w[i]
      PROVE  CutInto(v, d, e)
  <2>1. ASSUME NEW j \in 1 .. n PROVE BlockIs(v, d, j, e[j])
    <3>1. 2 * j \in 1 .. Len(w) /\ 2 * j + 1 \in 1 .. Len(w)
      BY <1>1, <1>2
    <3>2. BlockIs(w, d, j, e[j])
      BY <1>1, <1>2
    <3>3. v[2 * j] = w[2 * j] /\ v[2 * j + 1] = w[2 * j + 1]
      BY <1>3, <3>1
    <3> QED BY <3>2, <3>3 DEF BlockIs
  <2>2. v[1] = FileHeader /\ 2 * Len(e) + 1 <= Len(v)
    BY <1>1, <1>2, <1>3
  <2> QED BY <1>1, <1>2, <1>3, <2>1, <2>2 DEF CutInto
<1>4. CASE n = 0
  <2>1. d = <<>> /\ Len(w) = 1
    BY <1>1, <1>2, <1>4
  <2>2. Footer(d, Len(w)) = <<TrailerAt(1)>>
    <3>1. Footer(d, Len(w)) = <<>> \o <<TrailerAt(1)>>
      BY <2>1 DEF Footer, TrailerAt
    <3> QED BY <3>1
  <2>3. TrailerAt(1) \in Piece
    BY PieceTypes
  <2>4. /\ v \in Seq(Piece) /\ Len(v) = Len(w) + 1
        /\ \A i \in 1 .. Len(w) : v[i] = w[i]
        /\ v[Len(w) + 1] = TrailerAt(1)
    <3>1. PICK z : z = TrailerAt(1)
      OBVIOUS
    <3>2. AddsOne(v, w, z) /\ z \in Piece
      BY <2>2, <2>3, <3>1 DEF AddsOne
    <3>3. v \in Seq(Piece) /\ HasOne(v, w, z)
      BY <1>1, <3>2, OneMore
    <3> QED BY <3>1, <3>3 DEF HasOne, Keeps
  <2>5. EndsSealed(v, d, e)
    BY <1>2, <1>4, <2>1, <2>4 DEF EndsSealed
  <2>6. Len(w) <= Len(v)
    BY <1>1, <2>4
  <2>7. CutInto(v, d, e)
    BY <1>3, <2>4, <2>6
  <2> QED BY <2>5, <2>6, <2>7
<1>5. CASE n # 0
  <2>1. d # <<>> /\ Len(w) = 2 * n + 1
    BY <1>1, <1>2, <1>5
  <2>2. Footer(d, Len(w)) = <<DirectoryOf(d), TrailerAt(2 * n + 1)>>
    <3>1. PICK y : y = DirectoryOf(d)
      OBVIOUS
    <3>2. PICK z : z = TrailerAt(2 * n + 1)
      OBVIOUS
    <3>3. Footer(d, Len(w)) = <<y>> \o <<z>>
      BY <2>1, <3>1, <3>2 DEF Footer, TrailerAt, DirectoryOf
    <3>4. <<y>> \o <<z>> = <<y, z>>
      <4>1. y \in Piece /\ z \in Piece
        BY <1>1, <3>1, <3>2, PieceTypes
      <4> QED BY <4>1, Pair
    <3> QED BY <3>1, <3>2, <3>3, <3>4
  <2>3. DirectoryOf(d) \in Piece /\ TrailerAt(2 * n + 1) \in Piece
    BY <1>1, PieceTypes
  <2>4. /\ v \in Seq(Piece) /\ Len(v) = Len(w) + 2
        /\ \A i \in 1 .. Len(w) : v[i] = w[i]
        /\ v[Len(w) + 1] = DirectoryOf(d) /\ v[Len(w) + 2] = TrailerAt(2 * n + 1)
    <3>1. PICK y : y = DirectoryOf(d)
      OBVIOUS
    <3>2. PICK z : z = TrailerAt(2 * n + 1)
      OBVIOUS
    <3>3. AddsTwo(v, w, y, z) /\ y \in Piece /\ z \in Piece
      BY <2>2, <2>3, <3>1, <3>2 DEF AddsTwo
    <3>4. v \in Seq(Piece) /\ HasTwo(v, w, y, z)
      BY <1>1, <3>3, TwoMore
    <3> QED BY <3>1, <3>2, <3>4 DEF HasTwo, Keeps
  <2>5. EndsSealed(v, d, e)
    <3>1. Len(v) = 2 * n + 3 /\ Len(w) + 1 = 2 * n + 2 /\ Len(w) + 2 = 2 * n + 3
      BY <2>1, <2>4
    <3> QED BY <1>2, <1>5, <2>4, <3>1 DEF EndsSealed
  <2>6. Len(w) <= Len(v)
    BY <1>1, <2>4
  <2>7. CutInto(v, d, e)
    BY <1>3, <2>4, <2>6
  <2> QED BY <2>5, <2>6, <2>7
<1> QED BY <1>4, <1>5

\* The events of one block more, and what the earlier ones cover.
LEMMA ConcatAdded ==
  ASSUME NEW e \in Seq(Seq(Nat)), NEW x \in Seq(Nat), NEW f, f = Append(e, x)
  PROVE  /\ Concat(e, Len(e)) \in Seq(Nat)
         /\ Concat(f, Len(f)) = Concat(e, Len(e)) \o x
         /\ \A n, c : Covers(e, n, c) => Covers(f, n, c)
<1>1. PICK b \in Nat : b = Len(e)
  OBVIOUS
<1>2. f \in Seq(Seq(Nat)) /\ Len(f) = b + 1 /\ f[b + 1] = x
  <2>1. f \in Seq(Seq(Nat)) /\ Len(f) = Len(e) + 1 /\ f[Len(e) + 1] = x
    BY OneAppended
  <2> QED BY <1>1, <2>1
<1>3. \A j \in 1 .. b : f[j] = e[j]
  <2>1. \A j \in 1 .. Len(e) : f[j] = e[j]
    BY OneAppended
  <2> QED BY <1>1, <2>1
<1>4. \A m \in 0 .. b : Concat(f, m) = Concat(e, m)
  <2> SUFFICES ASSUME NEW m \in 0 .. b PROVE Concat(f, m) = Concat(e, m)
    OBVIOUS
  <2>1. m \in Nat /\ m <= b
    OBVIOUS
  <2>2. ASSUME NEW j \in 1 .. m PROVE f[j] = e[j]
    <3>1. j \in 1 .. b
      BY <2>1
    <3> QED BY <1>3, <3>1
  <2> QED BY <2>1, <2>2, ConcatSame
<1>5. Concat(f, b) \in Seq(Nat) /\ Concat(f, b + 1) = Concat(f, b) \o f[b + 1]
  <2>1. \A j \in 1 .. b + 1 : f[j] \in Seq(Nat)
    BY <1>2
  <2> QED BY <2>1, ConcatNext
<1>6. \A n, c : Covers(e, n, c) => Covers(f, n, c)
  <2> SUFFICES ASSUME NEW n, NEW c, c # 0, Covers(e, n, c)
               PROVE  \E m \in 0 .. Len(f) : 2 * m + 1 <= n /\ c <= Len(Concat(f, m))
    BY DEF Covers
  <2>1. PICK m \in 0 .. b : 2 * m + 1 <= n /\ c <= Len(Concat(e, m))
    BY <1>1 DEF Covers
  <2>2. m \in 0 .. Len(f)
    BY <1>2
  <2> QED BY <1>4, <2>1, <2>2
<1>7. Concat(f, b) = Concat(e, b)
  BY <1>4
<1> QED BY <1>1, <1>2, <1>5, <1>6, <1>7

-----------------------------------------------------------------------------
(* The writer's steps keep the invariant. *)

\* An element at the end of the second of two sequences.
LEMMA AppendConcat ==
  ASSUME NEW c \in Seq(Nat), NEW p \in Seq(Nat), NEW m \in Nat
  PROVE  Append(c \o p, m) = c \o Append(p, m)
<1>1. PICK s : s = Append(c \o p, m)
  OBVIOUS
<1>2. PICK t : t = c \o Append(p, m)
  OBVIOUS
<1>3. s \in Seq(Nat) /\ Len(s) = Len(c) + Len(p) + 1
  BY <1>1
<1>4. t \in Seq(Nat) /\ Len(t) = Len(c) + Len(p) + 1
  BY <1>2
<1>5. \A i \in 1 .. Len(s) : s[i] = t[i]
  BY <1>1, <1>2, <1>3
<1>6. s = t
  BY <1>3, <1>4, <1>5
<1> QED BY <1>1, <1>2, <1>6

\* A later time at the end of ascending ones.
LEMMA AscendsMore ==
  ASSUME NEW s \in Seq(Nat), NEW m \in Nat, NEW l \in Nat, l <= m,
         Ascends(s), \A i \in 1 .. Len(s) : s[i] <= l,
         NEW t, t = Append(s, m)
  PROVE  Ascends(t) /\ \A i \in 1 .. Len(t) : t[i] <= m
<1>1. /\ t \in Seq(Nat) /\ Len(t) = Len(s) + 1 /\ t[Len(s) + 1] = m
      /\ \A i \in 1 .. Len(s) : t[i] = s[i]
  OBVIOUS
<1>2. ASSUME NEW i \in 1 .. Len(t) PROVE t[i] \in Nat /\ t[i] <= m
  <2>1. CASE i = Len(s) + 1
    BY <1>1, <2>1
  <2>2. CASE i # Len(s) + 1
    <3>1. i \in 1 .. Len(s)
      BY <1>1, <2>2
    <3>2. t[i] = s[i] /\ s[i] \in Nat /\ s[i] <= l
      BY <1>1, <3>1
    <3> QED BY <3>2
  <2> QED BY <2>1, <2>2
<1>3. ASSUME NEW i \in 1 .. Len(t), NEW j \in 1 .. Len(t), i <= j PROVE t[i] <= t[j]
  <2>1. CASE j = Len(s) + 1
    BY <1>1, <1>2, <2>1
  <2>2. CASE j # Len(s) + 1
    <3>1. i \in 1 .. Len(s) /\ j \in 1 .. Len(s)
      BY <1>1, <1>3, <2>2
    <3>2. t[i] = s[i] /\ t[j] = s[j]
      BY <1>1, <3>1
    <3> QED BY <1>3, <3>1, <3>2 DEF Ascends
  <2> QED BY <2>1, <2>2
<1> QED BY <1>2, <1>3 DEF Ascends

\* More pieces cover no less.
LEMMA CoversMore ==
  ASSUME NEW e \in Seq(Seq(Nat)), NEW n \in Nat, NEW m \in Nat, n <= m, NEW c,
         Covers(e, n, c)
  PROVE  Covers(e, m, c)
  BY DEF Covers

\* All the blocks cover every event.
LEMMA CoversAll ==
  ASSUME NEW e \in Seq(Seq(Nat)), NEW n \in Nat, 2 * Len(e) + 1 <= n,
         Concat(e, Len(e)) \in Seq(Nat)
  PROVE  Covers(e, n, Len(Concat(e, Len(e))))
<1>1. PICK b : b = Len(e)
  OBVIOUS
<1>2. PICK c : c = Len(Concat(e, b))
  OBVIOUS
<1>3. b \in 0 .. Len(e) /\ 2 * b + 1 <= n /\ c \in Nat /\ c <= Len(Concat(e, b))
  BY <1>1, <1>2
<1> QED BY <1>1, <1>2, <1>3 DEF Covers

\* What flush_block does to the layout, with events to flush.
LEMMA FlushCuts ==
  ASSUME NEW e, Cut(e), EndsOpen(written, e),
         NEW x \in Seq(Nat), x # <<>>, FlushBlock(x), NEW f, f = Append(e, x)
  PROVE  /\ Cut(f)' /\ EndsOpen(written', f) /\ pending' = <<>>
         /\ Len(written) \in Nat /\ Len(written') \in Nat
         /\ Len(written) <= Len(written')
         /\ f \in Seq(Seq(Nat))
<1>1. AddsBlock(written', dir', f, written, dir, e, x) /\ pending' = <<>>
  BY DEF FlushBlock, AddsBlock
<1>2. CutInto(written, dir, e)
  BY DEF Cut
<1>3. /\ CutInto(written', dir', f) /\ EndsOpen(written', f)
      /\ Len(f) = Len(e) + 1
  BY <1>1, <1>2, BlockAdded
<1>4. /\ Len(written) = 2 * Len(e) + 1 /\ Len(e) \in Nat
      /\ Len(written') = 2 * Len(f) + 1
  BY <1>2, <1>3 DEF EndsOpen, CutInto
<1>5. f \in Seq(Seq(Nat))
  BY <1>3 DEF CutInto
<1>6. Len(written) \in Nat /\ Len(written') \in Nat /\ Len(written) <= Len(written')
  BY <1>3, <1>4
<1> QED BY <1>1, <1>3, <1>5, <1>6 DEF Cut

\* The first state has no block.
LEMMA SegmentStart == StoreInit => SegmentInv
<1> SUFFICES ASSUME StoreInit PROVE SegmentInv
  OBVIOUS
<1> USE DEF StoreInit
<1>1. PICK e : e = <<>>
  OBVIOUS
<1>2. e \in Seq(Seq(Nat)) /\ Len(e) = 0
  BY <1>1
<1>3. PICK h : h = FileHeader /\ h \in Piece
  BY PieceTypes
<1>4. written \in Seq(Piece) /\ Len(written) = 1 /\ written[1] = FileHeader
  BY <1>3
<1>5. dir \in Seq(EntrySet) /\ Len(dir) = 0
  OBVIOUS
<1>6. Cut(e)
  BY <1>2, <1>4, <1>5 DEF Cut, CutInto
<1>7. StageEnds(e)
  BY <1>2, <1>4 DEF StageEnds, EndsOpen, Down
<1>8. Contents(e)
  <2>1. Concat(e, Len(e)) = <<>>
    BY <1>2, ConcatZero
  <2>2. pending \in Seq(Nat) /\ appended \in Seq(Nat) /\ appended = <<>> \o pending
    OBVIOUS
  <2> QED BY <2>1, <2>2 DEF Contents
<1>9. InOrder
  BY DEF InOrder, Ascends
<1>10. Kept(e)
  BY <1>4 DEF Kept, Covers
<1>11. Left(e)
  BY DEF Left, Down
<1>12. SegmentOf(e)
  BY <1>6, <1>7, <1>8, <1>9, <1>10, <1>11 DEF SegmentOf
<1> QED BY <1>2, <1>12 DEF SegmentInv

\* append.
LEMMA AppendKeeps ==
  ASSUME NEW e \in Seq(Seq(Nat)), SegmentOf(e), NEW mono \in Nat, AppendEvent(mono)
  PROVE  \E f \in Seq(Seq(Nat)) : SegmentOf(f)'
<1>1. /\ stage = "writing" /\ stage' = stage
      /\ last <= mono /\ last' = mono
      /\ appended' = Append(appended, mono)
      /\ synced' = synced /\ checkpointed' = checkpointed
  <2>1. last \in Nat
    BY DEF SegmentOf, InOrder
  <2> QED BY <2>1 DEF AppendEvent
<1>2. /\ pending \in Seq(Nat) /\ appended \in Seq(Nat)
      /\ appended = Concat(e, Len(e)) \o pending
  BY DEF SegmentOf, Contents
<1>3. EndsOpen(written, e) /\ Cut(e)
  BY <1>1 DEF SegmentOf, StageEnds
<1>4. PICK p : p = Append(pending, mono)
  OBVIOUS
<1>5. p \in Seq(Nat) /\ p # <<>>
  <2>1. p \in Seq(Nat) /\ Len(p) = Len(pending) + 1 /\ Len(pending) \in Nat
    BY <1>2, <1>4
  <2> QED BY <2>1
<1>6. PICK c : c = Concat(e, Len(e))
  OBVIOUS
<1>7. c \in Seq(Nat)
  BY <1>2, <1>6, ConcatAdded
<1>8. appended' = c \o p /\ appended' \in Seq(Nat)
  <2>1. appended' = Append(c \o pending, mono)
    BY <1>1, <1>2, <1>6
  <2>2. appended' = c \o Append(pending, mono)
    BY <1>2, <1>7, <2>1, AppendConcat
  <2>3. appended' \in Seq(Nat)
    BY <1>1, <1>2
  <2> QED BY <1>4, <2>2, <2>3
<1>9. InOrder'
  <2>1. /\ last \in Nat /\ Ascends(appended)
        /\ \A i \in 1 .. Len(appended) : appended[i] <= last
    BY DEF SegmentOf, InOrder
  <2>2. Ascends(appended') /\ \A i \in 1 .. Len(appended') : appended'[i] <= mono
    BY <1>1, <1>2, <2>1, AscendsMore
  <2> QED BY <1>1, <2>2 DEF InOrder
<1>10. ~Down'
  BY <1>1 DEF Down
<1>11. Left(e)' /\ \A f : Left(f)'
  BY <1>10 DEF Left
<1>12. Kept(e)
  BY DEF SegmentOf
<1>13. CASE Len(pending) + 1 >= SegmentBlock
  <2>1. FlushBlock(p)
    BY <1>4, <1>13 DEF AppendEvent
  <2>2. PICK f : f = Append(e, p)
    OBVIOUS
  <2>3. /\ Cut(f)' /\ EndsOpen(written', f) /\ pending' = <<>>
        /\ Len(written) \in Nat /\ Len(written') \in Nat
        /\ Len(written) <= Len(written')
        /\ f \in Seq(Seq(Nat))
    BY <1>3, <1>5, <2>1, <2>2, FlushCuts
  <2>4. /\ Concat(f, Len(f)) = Concat(e, Len(e)) \o p
        /\ \A n, k : Covers(e, n, k) => Covers(f, n, k)
    BY <1>5, <2>2, ConcatAdded
  <2>5. StageEnds(f)'
    BY <1>1, <1>10, <2>3 DEF StageEnds
  <2>6. Contents(f)'
    <3>1. (c \o p) \o <<>> = c \o p
      BY <1>5, <1>7
    <3>2. pending' \in Seq(Nat)
      BY <2>3
    <3>3. appended' = Concat(f, Len(f)) \o pending'
      BY <1>6, <1>8, <2>3, <2>4, <3>1
    <3> QED BY <1>8, <3>2, <3>3 DEF Contents
  <2>7. Kept(f)'
    BY <1>1, <1>12, <2>3, <2>4 DEF Kept
  <2>8. SegmentOf(f)'
    BY <1>9, <1>11, <2>3, <2>5, <2>6, <2>7 DEF SegmentOf
  <2> QED BY <2>3, <2>8
<1>14. CASE ~ (Len(pending) + 1 >= SegmentBlock)
  <2>1. pending' = p /\ dir' = dir /\ written' = written
    BY <1>4, <1>14 DEF AppendEvent
  <2>2. Cut(e)' /\ EndsOpen(written', e)
    BY <1>3, <2>1 DEF Cut
  <2>3. StageEnds(e)'
    BY <1>1, <1>10, <2>2 DEF StageEnds
  <2>4. Contents(e)'
    BY <1>5, <1>6, <1>8, <2>1 DEF Contents
  <2>5. Kept(e)'
    BY <1>1, <1>12, <2>1 DEF Kept
  <2>6. SegmentOf(e)'
    BY <1>9, <1>11, <2>2, <2>3, <2>4, <2>5 DEF SegmentOf
  <2> QED BY <2>6
<1> QED BY <1>13, <1>14

\* checkpoint, up to the fsync.
LEMMA CheckpointKeeps ==
  ASSUME NEW e \in Seq(Seq(Nat)), SegmentOf(e), Checkpoint
  PROVE  \E f \in Seq(Seq(Nat)) : SegmentOf(f)'
<1>1. /\ stage = "writing" /\ stage' = "checkpoint"
      /\ last' = last /\ appended' = appended
      /\ synced' = synced /\ checkpointed' = checkpointed
      /\ FlushBlock(pending)
  BY DEF Checkpoint
<1>2. /\ pending \in Seq(Nat) /\ appended \in Seq(Nat)
      /\ appended = Concat(e, Len(e)) \o pending
  BY DEF SegmentOf, Contents
<1>3. EndsOpen(written, e) /\ Cut(e) /\ Kept(e)
  BY <1>1 DEF SegmentOf, StageEnds
<1>4. InOrder'
  BY <1>1 DEF SegmentOf, InOrder
<1>5. ~Down'
  BY <1>1 DEF Down
<1>6. \A f : Left(f)'
  BY <1>5 DEF Left
<1>7. CASE pending = <<>>
  <2>1. pending' = pending /\ dir' = dir /\ written' = written
    BY <1>1, <1>7 DEF FlushBlock
  <2>2. Cut(e)' /\ EndsOpen(written', e)
    BY <1>3, <2>1 DEF Cut
  <2>3. StageEnds(e)'
    BY <1>1, <1>5, <1>7, <2>1, <2>2 DEF StageEnds
  <2>4. Contents(e)'
    BY <1>1, <1>2, <2>1 DEF Contents
  <2>5. Kept(e)'
    BY <1>1, <1>3, <2>1 DEF Kept
  <2>6. SegmentOf(e)'
    BY <1>4, <1>6, <2>2, <2>3, <2>4, <2>5 DEF SegmentOf
  <2> QED BY <2>6
<1>8. CASE pending # <<>>
  <2>1. PICK f : f = Append(e, pending)
    OBVIOUS
  <2>2. /\ Cut(f)' /\ EndsOpen(written', f) /\ pending' = <<>>
        /\ Len(written) \in Nat /\ Len(written') \in Nat
        /\ Len(written) <= Len(written')
        /\ f \in Seq(Seq(Nat))
    BY <1>1, <1>2, <1>3, <1>8, <2>1, FlushCuts
  <2>3. /\ Concat(f, Len(f)) = Concat(e, Len(e)) \o pending
        /\ \A n, k : Covers(e, n, k) => Covers(f, n, k)
    BY <1>2, <2>1, ConcatAdded
  <2>4. StageEnds(f)'
    BY <1>1, <1>5, <2>2 DEF StageEnds
  <2>5. Contents(f)'
    <3>1. appended \o <<>> = appended
      BY <1>2
    <3>2. pending' \in Seq(Nat)
      BY <2>2
    <3> QED BY <1>1, <1>2, <2>2, <2>3, <3>1, <3>2 DEF Contents
  <2>6. Kept(f)'
    <3>1. /\ synced \in Nat /\ synced <= Len(written) /\ checkpointed \in Nat
          /\ Covers(e, synced, checkpointed)
      BY <1>3 DEF Kept
    <3>2. synced <= Len(written') /\ Covers(f, synced, checkpointed)
      BY <2>2, <2>3, <3>1
    <3> QED BY <1>1, <3>1, <3>2 DEF Kept
  <2>7. SegmentOf(f)'
    BY <1>4, <1>6, <2>2, <2>4, <2>5, <2>6 DEF SegmentOf
  <2> QED BY <2>2, <2>7
<1> QED BY <1>7, <1>8

\* checkpoint and seal, from the fsync on.
LEMMA SyncKeeps ==
  ASSUME NEW e \in Seq(Seq(Nat)), SegmentOf(e), CheckpointSynced \/ SealSynced
  PROVE  SegmentOf(e)'
<1>1. \/ stage = "checkpoint" /\ stage' = "writing"
      \/ stage = "sealing" /\ stage' = "sealed"
  BY DEF CheckpointSynced, SealSynced
<1>2. /\ synced' = Len(written) /\ checkpointed' = Len(appended)
      /\ pending' = pending /\ last' = last /\ dir' = dir /\ written' = written
      /\ appended' = appended
  BY DEF CheckpointSynced, SealSynced, writer
<1>3. ~Down'
  BY <1>1 DEF Down
<1>4. /\ pending = <<>> /\ appended \in Seq(Nat)
      /\ appended = Concat(e, Len(e)) \o pending
  BY <1>1 DEF SegmentOf, Contents, StageEnds
<1>5. Cut(e)' /\ StageEnds(e)' /\ Contents(e)' /\ InOrder'
  <2>1. Cut(e)'
    BY <1>2 DEF SegmentOf, Cut
  <2>2. StageEnds(e)'
    BY <1>1, <1>2, <1>3, <1>4 DEF SegmentOf, StageEnds
  <2>3. Contents(e)'
    BY <1>2 DEF SegmentOf, Contents
  <2>4. InOrder'
    BY <1>2 DEF SegmentOf, InOrder
  <2> QED BY <2>1, <2>2, <2>3, <2>4
<1>6. Kept(e)'
  <2>1. PICK c : c = Concat(e, Len(e))
    OBVIOUS
  <2>2. <<>> \in Seq(Nat)
    OBVIOUS
  <2>3. c \in Seq(Nat)
    BY <2>1, <2>2, ConcatAdded
  <2>4. appended = c
    BY <1>4, <2>1, <2>3
  <2>5. Len(written) \in Nat /\ 2 * Len(e) + 1 <= Len(written)
    BY DEF SegmentOf, Cut, CutInto
  <2>6. Covers(e, Len(written), Len(Concat(e, Len(e))))
    BY <2>1, <2>3, <2>5, CoversAll
  <2>7. Len(appended) \in Nat
    BY <1>4
  <2> QED BY <1>2, <2>1, <2>4, <2>5, <2>6, <2>7 DEF Kept
<1>7. Left(e)'
  BY <1>3 DEF Left
<1> QED BY <1>5, <1>6, <1>7 DEF SegmentOf

\* seal, up to the fsync.
LEMMA SealKeeps ==
  ASSUME NEW e \in Seq(Seq(Nat)), SegmentOf(e), Seal
  PROVE  \E f \in Seq(Seq(Nat)) : SegmentOf(f)'
<1>1. /\ stage = "writing" /\ stage' = "sealing"
      /\ last' = last /\ appended' = appended /\ pending' = <<>>
      /\ synced' = synced /\ checkpointed' = checkpointed
  BY DEF Seal
<1>2. /\ pending \in Seq(Nat) /\ appended \in Seq(Nat)
      /\ appended = Concat(e, Len(e)) \o pending
  BY DEF SegmentOf, Contents
<1>3. EndsOpen(written, e) /\ Cut(e) /\ Kept(e)
  BY <1>1 DEF SegmentOf, StageEnds
<1>4. InOrder'
  BY <1>1 DEF SegmentOf, InOrder
<1>5. ~Down'
  BY <1>1 DEF Down
<1>6. \A f : Left(f)'
  BY <1>5 DEF Left
<1>7. /\ written \in Seq(Piece) /\ Len(written) \in Nat
      /\ CutInto(written, dir, e)
  BY <1>3 DEF Cut, CutInto
<1>8. ASSUME NEW f \in Seq(Seq(Nat)), NEW v,
             CutInto(v, dir', f), EndsOpen(v, f), Len(v) \in Nat, Len(written) <= Len(v),
             written' = v \o Footer(dir', Len(v)),
             appended = Concat(f, Len(f)),
             \A n, k : Covers(e, n, k) => Covers(f, n, k)
      PROVE  SegmentOf(f)'
  <2>1. /\ CutInto(written', dir', f) /\ EndsSealed(written', dir', f)
        /\ Len(v) <= Len(written')
    BY <1>8, FooterAdded
  <2>2. Len(written') \in Nat
    BY <2>1 DEF CutInto
  <2>3. Cut(f)' /\ StageEnds(f)'
    BY <1>1, <1>5, <2>1 DEF Cut, StageEnds
  <2>4. Contents(f)'
    <3>1. appended \o <<>> = appended /\ <<>> \in Seq(Nat)
      BY <1>2
    <3> QED BY <1>1, <1>2, <1>8, <3>1 DEF Contents
  <2>5. Kept(f)'
    <3>1. /\ synced \in Nat /\ synced <= Len(written) /\ checkpointed \in Nat
          /\ Covers(e, synced, checkpointed)
      BY <1>3 DEF Kept
    <3>2. synced <= Len(written') /\ Covers(f, synced, checkpointed)
      BY <1>7, <1>8, <2>1, <2>2, <3>1
    <3> QED BY <1>1, <3>1, <3>2 DEF Kept
  <2> QED BY <1>4, <1>6, <2>3, <2>4, <2>5 DEF SegmentOf
<1>9. CASE pending = <<>>
  <2>1. written' = written \o Footer(dir', Len(written)) /\ dir' = dir
    <3>1. /\ dir' = dir
          /\ written' = written \o <<>> \o Footer(dir, Len(written \o <<>>))
      BY <1>9 DEF Seal
    <3>2. written \o <<>> = written
      BY <1>7
    <3> QED BY <3>1, <3>2
  <2>2. appended = Concat(e, Len(e))
    <3>1. PICK c : c = Concat(e, Len(e))
      OBVIOUS
    <3>2. c \in Seq(Nat)
      BY <1>2, <3>1, ConcatAdded
    <3> QED BY <1>2, <1>9, <3>1, <3>2
  <2>3. CutInto(written, dir', e)
    BY <1>7, <2>1
  <2>4. written' = written \o Footer(dir', Len(written)) /\ Len(written) <= Len(written)
    BY <1>7, <2>1
  <2>5. \A n, k : Covers(e, n, k) => Covers(e, n, k)
    OBVIOUS
  <2>6. SegmentOf(e)'
    BY <1>3, <1>7, <1>8, <2>2, <2>3, <2>4, <2>5
  <2> QED BY <2>6
<1>10. CASE pending # <<>>
  <2>1. PICK v : v = written \o Block(pending)
    OBVIOUS
  <2>2. PICK f : f = Append(e, pending)
    OBVIOUS
  <2>3. /\ dir' = Append(dir, Entry(Len(written), pending))
        /\ written' = v \o Footer(dir', Len(v))
    BY <1>10, <2>1 DEF Seal
  <2>4. AddsBlock(v, dir', f, written, dir, e, pending)
    BY <2>1, <2>2, <2>3 DEF AddsBlock
  <2>5. /\ CutInto(v, dir', f) /\ EndsOpen(v, f)
        /\ Len(f) = Len(e) + 1
    BY <1>2, <1>3, <1>7, <1>10, <2>4, BlockAdded
  <2>6. Len(v) \in Nat /\ Len(written) <= Len(v) /\ f \in Seq(Seq(Nat))
    <3>1. Len(written) = 2 * Len(e) + 1 /\ Len(v) = 2 * Len(f) + 1 /\ Len(e) \in Nat
      BY <1>3, <2>5 DEF EndsOpen
    <3> QED BY <2>5, <3>1 DEF CutInto
  <2>7. /\ appended = Concat(f, Len(f))
        /\ \A n, k : Covers(e, n, k) => Covers(f, n, k)
    BY <1>2, <2>2, ConcatAdded
  <2>8. SegmentOf(f)'
    BY <1>8, <2>3, <2>5, <2>6, <2>7
  <2> QED BY <2>6, <2>8
<1> QED BY <1>9, <1>10

-----------------------------------------------------------------------------
(* What the reader finds in what a crash left. *)

\* The file d is what a crash may leave of the pieces w.
Remains(d, w) ==
  /\ d \in Seq(Piece) /\ w \in Seq(Piece)
  /\ Len(d) <= Len(w)
  /\ \A i \in 1 .. Len(d) : d[i] \in {w[i], Junk}

\* The first k blocks of d are intact and the next one is not.
Leading(d, k) ==
  /\ \A j \in 1 .. k : BlockAt(d, 2 * j - 1)
  /\ ~BlockAt(d, 2 * k + 1)

\* The index of d lists the first n of the blocks e.
Lists(d, e, n) ==
  /\ Blocks(d) \in Seq(EntrySet)
  /\ DOMAIN Blocks(d) = 1 .. n
  /\ Len(Blocks(d)) = n
  /\ \A j \in 1 .. n : Blocks(d)[j] = Entry(2 * j - 1, e[j])

\* The types of the pieces tell them apart.
LEMMA PieceKinds ==
  /\ FileHeader.type = "file" /\ Junk.type = "junk"
  /\ \A x : HeadOf(x).type = "head" /\ HeadOf(x).events = x
  /\ \A x : BodyOf(x).type = "body" /\ BodyOf(x).events = x
  /\ \A x : DirectoryOf(x).type = "dir" /\ DirectoryOf(x).entries = x
  /\ \A n : TrailerAt(n).type = "trailer" /\ TrailerAt(n).start = n
  BY DEF FileHeader, Junk, HeadOf, BodyOf, DirectoryOf, TrailerAt

\* A piece that is not junk is the one written.
LEMMA Untouched ==
  ASSUME NEW d, NEW w, Remains(d, w), NEW i \in 1 .. Len(d), d[i].type # "junk"
  PROVE  d[i] = w[i]
  BY PieceKinds DEF Remains

\* An intact block is one of those written.
LEMMA BlockWritten ==
  ASSUME NEW d, NEW w, NEW c, NEW e, CutInto(w, c, e), Remains(d, w),
         EndsOpen(w, e) \/ EndsSealed(w, c, e),
         NEW j \in Nat \ {0}, BlockAt(d, 2 * j - 1)
  PROVE  /\ j \in 1 .. Len(e)
         /\ d[2 * j] = HeadOf(e[j]) /\ d[2 * j + 1] = BodyOf(e[j])
<1>1. /\ 2 * j + 1 <= Len(d) /\ Len(d) \in Nat
      /\ d[2 * j].type = "head" /\ d[2 * j + 1].type = "body"
  <2>1. (2 * j - 1) + 2 = 2 * j + 1 /\ (2 * j - 1) + 1 = 2 * j
    OBVIOUS
  <2>2. Len(d) \in Nat
    BY DEF Remains
  <2> QED BY <2>1, <2>2 DEF BlockAt
<1>2. d[2 * j] = w[2 * j] /\ d[2 * j + 1] = w[2 * j + 1] /\ 2 * j + 1 <= Len(w)
  <2>1. 2 * j \in 1 .. Len(d) /\ 2 * j + 1 \in 1 .. Len(d)
    BY <1>1
  <2>2. d[2 * j] = w[2 * j] /\ d[2 * j + 1] = w[2 * j + 1]
    BY <1>1, <2>1, Untouched
  <2>3. Len(d) <= Len(w) /\ Len(w) \in Nat
    BY DEF Remains
  <2> QED BY <1>1, <2>2, <2>3
<1>3. PICK n \in Nat : n = Len(e)
  BY DEF CutInto
<1>4. j <= n
  <2> SUFFICES ASSUME j > n PROVE FALSE
    BY <1>3
  <2>1. Len(w) \in Nat
    BY DEF CutInto
  <2>2. CASE EndsOpen(w, e)
    <3>1. Len(w) = 2 * n + 1
      BY <1>3, <2>2 DEF EndsOpen
    <3> QED BY <1>2, <3>1
  <2>3. CASE EndsSealed(w, c, e) /\ n = 0
    <3>1. Len(w) = 2
      BY <1>3, <2>3 DEF EndsSealed
    <3> QED BY <1>2, <3>1
  <2>4. CASE EndsSealed(w, c, e) /\ n # 0
    <3>1. Len(w) = 2 * n + 3 /\ w[2 * n + 2] = DirectoryOf(c)
      BY <1>3, <2>4 DEF EndsSealed
    <3>2. 2 * j = 2 * n + 2
      BY <1>2, <3>1
    <3>3. d[2 * j].type = "dir"
      BY <1>2, <3>1, <3>2, PieceKinds
    <3> QED BY <1>1, <3>3
  <2> QED BY <2>2, <2>3, <2>4
<1>5. j \in 1 .. Len(e)
  BY <1>3, <1>4
<1>6. BlockIs(w, c, j, e[j])
  BY <1>5 DEF CutInto
<1> QED BY <1>2, <1>5, <1>6 DEF BlockIs

\* A footer is read only from a file whose every piece was handed to the
\* writer and whose footer is intact: its directory is the writer's.
LEMMA FooterWritten ==
  ASSUME NEW d, NEW w, NEW c, NEW e, CutInto(w, c, e), Remains(d, w),
         EndsOpen(w, e) \/ EndsSealed(w, c, e), Opens(d), HasFooter(d)
  PROVE  /\ EndsSealed(w, c, e) /\ Len(d) = Len(w)
         /\ d[Len(d)].start = 2 * Len(e) + 1
         /\ Directory(d) = c
<1>1. PICK n \in Nat : n = Len(e)
  BY DEF CutInto
<1>2. /\ Len(d) \in 1 .. Len(d) /\ Len(d) \in Nat /\ Len(w) \in Nat
      /\ Len(d) <= Len(w) /\ d \in Seq(Piece)
  <2>1. d \in Seq(Piece) /\ d # <<>> /\ w \in Seq(Piece) /\ Len(d) <= Len(w)
    BY DEF Remains, Opens
  <2>2. Len(d) \in Nat /\ Len(d) # 0 /\ Len(w) \in Nat
    BY <2>1
  <2> QED BY <2>1, <2>2
<1>3. PICK l : l = Len(d)
  OBVIOUS
<1>4. d[l] = w[l] /\ d[l].type = "trailer"
  <2>1. d[l].type = "trailer"
    BY <1>3 DEF HasFooter
  <2> QED BY <1>2, <1>3, <2>1, Untouched
<1>5. w[1].type = "file"
  BY PieceKinds DEF CutInto
<1>6. l \in Nat /\ l >= 1 /\ l # 1
  BY <1>2, <1>3, <1>4, <1>5
<1>7. ASSUME NEW j \in 1 .. n
      PROVE  w[2 * j].type = "head" /\ w[2 * j + 1].type = "body"
  <2>1. BlockIs(w, c, j, e[j])
    BY <1>1 DEF CutInto
  <2> QED BY <2>1, PieceKinds DEF BlockIs
<1>8. l > 2 * n + 1
  <2> SUFFICES ASSUME l <= 2 * n + 1 PROVE FALSE
    BY <1>6
  <2>1. PICK j \in 1 .. n : l = 2 * j \/ l = 2 * j + 1
    <3>1. \/ l = 2 * (l \div 2) /\ l \div 2 \in 1 .. n
          \/ l = 2 * (l \div 2) + 1 /\ l \div 2 \in 1 .. n
      BY <1>6
    <3> QED BY <3>1
  <2> QED BY <1>4, <1>7, <2>1
<1>9. EndsSealed(w, c, e)
  <2>1. Len(w) > 2 * n + 1
    BY <1>2, <1>3, <1>6, <1>8
  <2> QED BY <1>1, <2>1 DEF EndsOpen
<1>10. CASE n = 0
  <2>1. Len(w) = 2 /\ w[2] = TrailerAt(1) /\ l = 2
    <3>1. Len(w) = 2 /\ w[2] = TrailerAt(1)
      BY <1>1, <1>9, <1>10 DEF EndsSealed
    <3>2. l = 2
      BY <1>2, <1>3, <1>6, <3>1
    <3> QED BY <3>1, <3>2
  <2>2. d[l].start = 1
    BY <1>4, <2>1, PieceKinds
  <2>3. Directory(d) = <<>>
    BY <1>3, <2>1, <2>2 DEF Directory
  <2>4. c = <<>>
    BY <1>1, <1>10 DEF CutInto
  <2> QED BY <1>1, <1>3, <1>9, <1>10, <2>1, <2>2, <2>3, <2>4
<1>11. CASE n # 0
  <2>1. /\ Len(w) = 2 * n + 3
        /\ w[2 * n + 2] = DirectoryOf(c) /\ w[2 * n + 3] = TrailerAt(2 * n + 1)
    BY <1>1, <1>9, <1>11 DEF EndsSealed
  <2>2. l = 2 * n + 3
    <3>1. l # 2 * n + 2
      BY <1>4, <2>1, PieceKinds
    <3> QED BY <1>2, <1>3, <1>8, <2>1, <3>1
  <2>3. d[l].start = 2 * n + 1
    BY <1>4, <2>1, <2>2, PieceKinds
  <2>4. d[2 * n + 2].type = "dir"
    <3>1. d[l].start # l - 1 /\ d[l].start + 1 = 2 * n + 2
      BY <2>2, <2>3
    <3> QED BY <1>3, <3>1 DEF HasFooter
  <2>5. d[2 * n + 2] = w[2 * n + 2]
    <3>1. 2 * n + 2 \in 1 .. Len(d)
      BY <1>3, <2>2
    <3> QED BY <2>4, <3>1, Untouched
  <2>6. Directory(d) = c
    <3>1. d[l].start # l - 1 /\ d[l].start + 1 = 2 * n + 2
      BY <2>2, <2>3
    <3>2. d[2 * n + 2].entries = c
      BY <2>1, <2>5, PieceKinds
    <3> QED BY <1>3, <3>1, <3>2 DEF Directory
  <2> QED BY <1>1, <1>3, <1>9, <2>1, <2>2, <2>3, <2>6
<1> QED BY <1>10, <1>11

\* There is a first block that is not intact.
LEMMA LeadingExists ==
  ASSUME NEW d, NEW w, NEW c, NEW e, CutInto(w, c, e), Remains(d, w),
         EndsOpen(w, e) \/ EndsSealed(w, c, e)
  PROVE  \E k \in 0 .. Len(e) : Leading(d, k)
<1>1. PICK n \in Nat : n = Len(e)
  BY DEF CutInto
<1> DEFINE T == {k \in Nat : ~BlockAt(d, 2 * k + 1)}
<1>2. ASSUME NEW k \in Nat, BlockAt(d, 2 * k + 1) PROVE k + 1 <= n
  <2>1. k + 1 \in Nat \ {0} /\ 2 * (k + 1) - 1 = 2 * k + 1
    OBVIOUS
  <2>2. BlockAt(d, 2 * (k + 1) - 1)
    BY <1>2, <2>1
  <2>3. k + 1 \in 1 .. Len(e)
    BY <2>1, <2>2, BlockWritten
  <2> QED BY <1>1, <2>3
<1>3. n \in T
  BY <1>2
<1>4. PICK k \in T : \A m \in T : k <= m
  <2>1. T \subseteq Nat /\ T # {}
    BY <1>3
  <2> HIDE DEF T
  <2> QED BY <2>1, LeastElement
<1>5. k \in 0 .. n /\ ~BlockAt(d, 2 * k + 1)
  BY <1>3, <1>4
<1>6. ASSUME NEW j \in 1 .. k PROVE BlockAt(d, 2 * j - 1)
  <2>1. j - 1 \in Nat /\ j - 1 < k /\ 2 * (j - 1) + 1 = 2 * j - 1
    BY <1>5
  <2>2. j - 1 \notin T
    <3> SUFFICES ASSUME j - 1 \in T PROVE FALSE
      OBVIOUS
    <3>1. k <= j - 1
      <4> HIDE DEF T
      <4> QED BY <1>4
    <3> QED BY <1>5, <2>1, <3>1
  <2> QED BY <2>1, <2>2
<1> QED BY <1>1, <1>5, <1>6 DEF Leading

\* The recovery scan finds it.
LEMMA ScannedIs ==
  ASSUME NEW d \in Seq(Piece), d # <<>>, NEW k \in Nat, Leading(d, k)
  PROVE  ScannedBlocks(d) = k
<1>1. Len(d) \in Nat /\ Len(d) # 0
  OBVIOUS
<1>2. k \in 0 .. Len(d) \div 2
  <2>1. CASE k = 0
    BY <1>1, <2>1
  <2>2. CASE k # 0
    <3>1. BlockAt(d, 2 * k - 1)
      BY <2>2 DEF Leading
    <3>2. 2 * k + 1 <= Len(d)
      BY <3>1 DEF BlockAt
    <3> QED BY <1>1, <3>2
  <2> QED BY <2>1, <2>2
<1>3. /\ \A j \in 0 .. k - 1 : BlockAt(d, 2 * j + 1)
      /\ ~BlockAt(d, 2 * k + 1)
  <2>1. ASSUME NEW j \in 0 .. k - 1 PROVE BlockAt(d, 2 * j + 1)
    <3>1. j + 1 \in 1 .. k /\ 2 * (j + 1) - 1 = 2 * j + 1
      OBVIOUS
    <3>2. BlockAt(d, 2 * (j + 1) - 1)
      BY <3>1 DEF Leading
    <3> QED BY <3>1, <3>2
  <2> QED BY <2>1 DEF Leading
<1>4. ASSUME NEW m \in 0 .. Len(d) \div 2,
             \A j \in 0 .. m - 1 : BlockAt(d, 2 * j + 1),
             ~BlockAt(d, 2 * m + 1)
      PROVE  m = k
  <2>1. CASE m < k
    <3>1. m \in 0 .. k - 1
      BY <1>1, <2>1
    <3> QED BY <1>3, <1>4, <3>1
  <2>2. CASE m > k
    <3>1. k \in 0 .. m - 1
      BY <1>1, <2>2
    <3> QED BY <1>3, <1>4, <3>1
  <2>3. m \in Nat
    BY <1>1
  <2> QED BY <2>1, <2>2, <2>3
<1> DEFINE Stops(m) == /\ \A j \in 0 .. m - 1 : BlockAt(d, 2 * j + 1)
                       /\ ~BlockAt(d, 2 * m + 1)
<1>5. Stops(k) /\ \A m \in 0 .. Len(d) \div 2 : Stops(m) => m = k
  BY <1>3, <1>4
<1>6. ScannedBlocks(d) = CHOOSE m \in 0 .. Len(d) \div 2 : Stops(m)
  BY DEF ScannedBlocks
<1> HIDE DEF Stops
<1> QED BY <1>2, <1>5, <1>6

\* What the index lists: every block if there is a footer, the intact ones at
\* the front if there is none.
LEMMA IndexIs ==
  ASSUME NEW d, NEW w, NEW c, NEW e, CutInto(w, c, e), Remains(d, w),
         EndsOpen(w, e) \/ EndsSealed(w, c, e), Opens(d),
         NEW k \in 0 .. Len(e), Leading(d, k),
         NEW n, n = IF HasFooter(d) THEN Len(e) ELSE k
  PROVE  Lists(d, e, n)
<1>1. d \in Seq(Piece) /\ d # <<>> /\ Len(e) \in Nat /\ k \in Nat
  BY DEF Remains, Opens, CutInto
<1>2. CASE HasFooter(d)
  <2>1. Blocks(d) = c /\ n = Len(e)
    <3>1. Directory(d) = c
      BY <1>2, FooterWritten
    <3> QED BY <1>2, <3>1 DEF Blocks
  <2>2. c \in Seq(EntrySet) /\ DOMAIN c = 1 .. n /\ Len(c) = n
    BY <2>1 DEF CutInto
  <2>3. ASSUME NEW j \in 1 .. n PROVE c[j] = Entry(2 * j - 1, e[j])
    <3>1. BlockIs(w, c, j, e[j])
      BY <2>1 DEF CutInto
    <3> QED BY <3>1 DEF BlockIs
  <2> QED BY <2>1, <2>2, <2>3 DEF Lists
<1>3. CASE ~HasFooter(d)
  <2>1. n = k /\ ScannedBlocks(d) = k
    BY <1>1, <1>3, ScannedIs
  <2>2. PICK b : b = [j \in 1 .. k |-> Entry(2 * j - 1, d[2 * j].events)]
    OBVIOUS
  <2>3. Blocks(d) = b
    BY <1>3, <2>1, <2>2 DEF Blocks
  <2>4. DOMAIN b = 1 .. k /\ Len(b) = k
    BY <1>1, <2>2
  <2>5. ASSUME NEW j \in 1 .. k PROVE b[j] = Entry(2 * j - 1, e[j]) /\ b[j] \in EntrySet
    <3>1. BlockAt(d, 2 * j - 1) /\ j \in Nat \ {0}
      BY <1>1 DEF Leading
    <3>2. d[2 * j] = HeadOf(e[j])
      BY <3>1, BlockWritten
    <3>3. d[2 * j].events = e[j]
      BY <3>2, PieceKinds
    <3>4. e[j] \in Seq(Nat) /\ e[j] # <<>>
      <4>1. j \in 1 .. Len(e)
        BY <1>1
      <4> QED BY <4>1 DEF CutInto, BlockIs
    <3>5. 2 * j - 1 \in Nat
      BY <3>1
    <3>6. Entry(2 * j - 1, e[j]) \in EntrySet
      BY <3>4, <3>5, EntryType
    <3> QED BY <2>2, <3>3, <3>6
  <2>6. b \in Seq(EntrySet)
    <3>1. b \in [1 .. k -> EntrySet]
      BY <2>2, <2>5
    <3> QED BY <1>1, <3>1
  <2> QED BY <2>1, <2>3, <2>4, <2>5, <2>6 DEF Lists
<1> QED BY <1>2, <1>3

\* A scan yields the events of the intact blocks at the front, and visits all
\* the index lists when it lists no more.
LEMMA ScanIs ==
  ASSUME NEW d, NEW w, NEW c, NEW e, CutInto(w, c, e), Remains(d, w),
         EndsOpen(w, e) \/ EndsSealed(w, c, e),
         NEW k \in 0 .. Len(e), Leading(d, k),
         NEW n \in Nat, k <= n, Lists(d, e, n)
  PROVE  /\ Scan(d) = Concat(e, k)
         /\ ScanFails(d) <=> n # k
<1>1. PICK b : b = Blocks(d)
  OBVIOUS
<1>2. DOMAIN b = 1 .. n /\ k \in Nat
  <2>1. Len(e) \in Nat
    BY DEF CutInto
  <2> QED BY <1>1, <2>1 DEF Lists
<1>3. \A j \in 1 .. n : b[j].offset = 2 * j - 1
  BY <1>1 DEF Lists, Entry
<1>4. Decoded(d, b) = 1 .. k
  <2>1. ASSUME NEW j \in 1 .. n, \A i \in 1 .. j : BlockAt(d, b[i].offset)
        PROVE  j <= k
    <3> SUFFICES ASSUME j > k PROVE FALSE
      BY <1>2
    <3>1. k + 1 \in 1 .. j /\ k + 1 \in 1 .. n /\ 2 * (k + 1) - 1 = 2 * k + 1
      BY <1>2
    <3>2. BlockAt(d, 2 * k + 1)
      BY <1>3, <2>1, <3>1
    <3> QED BY <3>2 DEF Leading
  <2>2. ASSUME NEW j \in 1 .. k PROVE j \in 1 .. n /\ \A i \in 1 .. j : BlockAt(d, b[i].offset)
    <3>1. j \in 1 .. n
      BY <1>2
    <3>2. ASSUME NEW i \in 1 .. j PROVE BlockAt(d, b[i].offset)
      <4>1. i \in 1 .. k /\ i \in 1 .. n
        BY <1>2
      <4> QED BY <1>3, <4>1 DEF Leading
    <3> QED BY <3>1, <3>2
  <2>3. Decoded(d, b) = {j \in 1 .. n : \A i \in 1 .. j : BlockAt(d, b[i].offset)}
    BY <1>2 DEF Decoded
  <2>4. ASSUME NEW j PROVE j \in Decoded(d, b) <=> j \in 1 .. k
    <3>1. j \in Decoded(d, b) => j \in 1 .. k
      BY <1>2, <2>1, <2>3
    <3>2. j \in 1 .. k => j \in Decoded(d, b)
      BY <2>2, <2>3
    <3> QED BY <3>1, <3>2
  <2> QED BY <2>4
<1>5. ASSUME NEW j \in 1 .. k PROVE d[b[j].offset + 2].events = e[j]
  <2>1. BlockAt(d, 2 * j - 1) /\ j \in Nat \ {0} /\ j \in 1 .. n
    BY <1>2 DEF Leading
  <2>2. d[2 * j + 1].events = e[j]
    BY <2>1, BlockWritten, PieceKinds
  <2>3. b[j].offset + 2 = 2 * j + 1
    BY <1>3, <2>1
  <2> QED BY <2>2, <2>3
<1>6. [j \in Decoded(d, b) |-> d[b[j].offset + 2].events] = [j \in 1 .. k |-> e[j]]
  BY <1>4, <1>5
<1>7. Scan(d) = Concat(e, k)
  BY <1>1, <1>6 DEF Scan, EventsOf, Concat
<1>8. ScanFails(d) <=> 1 .. k # 1 .. n
  BY <1>1, <1>2, <1>4 DEF ScanFails
<1>9. 1 .. k # 1 .. n <=> n # k
  <2>1. n # k => n \in 1 .. n /\ n \notin 1 .. k
    BY <1>2
  <2> QED BY <2>1
<1> QED BY <1>7, <1>8, <1>9

-----------------------------------------------------------------------------
(* A crash and a recovery keep the invariant. *)

\* The intact blocks at the front fit in the file.
LEMMA LeadingFits ==
  ASSUME NEW d \in Seq(Piece), d # <<>>, NEW k \in Nat, Leading(d, k)
  PROVE  2 * k + 1 <= Len(d)
<1>1. CASE k = 0
  <2>1. Len(d) \in Nat /\ Len(d) # 0
    OBVIOUS
  <2> QED BY <1>1, <2>1
<1>2. CASE k # 0
  <2>1. BlockAt(d, 2 * k - 1)
    BY <1>2 DEF Leading
  <2>2. (2 * k - 1) + 2 = 2 * k + 1
    OBVIOUS
  <2> QED BY <2>1, <2>2 DEF BlockAt
<1> QED BY <1>1, <1>2

\* Blocks that are as they were written are intact.
LEMMA IntactLeads ==
  ASSUME NEW d, NEW w, NEW c, NEW e, CutInto(w, c, e), Remains(d, w),
         NEW m \in 0 .. Len(e), 2 * m + 1 <= Len(d),
         \A i \in 1 .. 2 * m + 1 : d[i] = w[i],
         NEW k \in Nat, Leading(d, k)
  PROVE  m <= k
<1> SUFFICES ASSUME m > k PROVE FALSE
  BY DEF CutInto
<1>1. /\ k + 1 \in 1 .. Len(e) /\ m \in Nat
      /\ 2 * (k + 1) = 2 * k + 2 /\ 2 * (k + 1) + 1 = 2 * k + 3
      /\ 2 * k + 2 \in 1 .. 2 * m + 1 /\ 2 * k + 3 \in 1 .. 2 * m + 1
  <2>1. Len(e) \in Nat
    BY DEF CutInto
  <2> QED BY <2>1
<1>2. BlockIs(w, c, k + 1, e[k + 1])
  BY <1>1 DEF CutInto
<1>3. d[2 * k + 2].type = "head" /\ d[2 * k + 3].type = "body"
  <2>1. d[2 * k + 2] = HeadOf(e[k + 1]) /\ d[2 * k + 3] = BodyOf(e[k + 1])
    BY <1>1, <1>2 DEF BlockIs
  <2> QED BY <2>1, PieceKinds
<1>4. (2 * k + 1) + 2 <= Len(d) /\ (2 * k + 1) + 1 = 2 * k + 2 /\ (2 * k + 1) + 2 = 2 * k + 3
  <2>1. Len(d) \in Nat
    BY DEF Remains
  <2> QED BY <1>1, <2>1
<1>5. BlockAt(d, 2 * k + 1)
  BY <1>3, <1>4 DEF BlockAt
<1> QED BY <1>5 DEF Leading

\* r is the file d up to its torn tail, its first k blocks being intact.
CutsBack(r, d, k) == r = SubSeq(d, 1, 2 * k + 1)
IsFront(r, d, k) == Len(r) = 2 * k + 1 /\ \A i \in 1 .. 2 * k + 1 : r[i] = d[i]

\* The torn tail cut off leaves the same intact blocks and no footer.
LEMMA CutBack ==
  ASSUME NEW d, NEW w, NEW c, NEW e, CutInto(w, c, e), Remains(d, w),
         EndsOpen(w, e) \/ EndsSealed(w, c, e), Opens(d),
         NEW k \in 0 .. Len(e), Leading(d, k),
         NEW r, CutsBack(r, d, k)
  PROVE  /\ Remains(r, w) /\ IsFront(r, d, k)
         /\ Opens(r) /\ ~HasFooter(r) /\ Leading(r, k)
<1>1. /\ d \in Seq(Piece) /\ w \in Seq(Piece) /\ Len(d) <= Len(w)
      /\ d # <<>> /\ d[1].type = "file"
      /\ Len(d) \in Nat /\ Len(w) \in Nat /\ k \in Nat
  <2>1. Len(e) \in Nat
    BY DEF CutInto
  <2> QED BY <2>1 DEF Remains, Opens
<1>2. 2 * k + 1 <= Len(d)
  BY <1>1, LeadingFits
<1>3. r \in Seq(Piece) /\ Len(r) = 2 * k + 1
  BY <1>1, <1>2 DEF CutsBack
<1>4. ASSUME NEW i \in 1 .. 2 * k + 1 PROVE r[i] = d[i] /\ i \in 1 .. Len(d)
  BY <1>1, <1>2 DEF CutsBack
<1>5. Remains(r, w)
  <2>1. Len(r) <= Len(w)
    BY <1>1, <1>2, <1>3
  <2>2. ASSUME NEW i \in 1 .. Len(r) PROVE r[i] \in {w[i], Junk}
    BY <1>3, <1>4 DEF Remains
  <2> QED BY <1>1, <1>3, <2>1, <2>2 DEF Remains
<1>6. Opens(r)
  <2>1. r[1] = d[1] /\ r # <<>>
    BY <1>1, <1>3, <1>4
  <2> QED BY <1>1, <2>1 DEF Opens
<1>7. ASSUME NEW j \in 1 .. k
      PROVE  /\ 2 * j \in 1 .. 2 * k + 1 /\ 2 * j + 1 \in 1 .. 2 * k + 1
             /\ r[2 * j].type = "head" /\ r[2 * j + 1].type = "body"
  <2>1. BlockAt(d, 2 * j - 1) /\ j \in Nat \ {0}
    BY <1>1 DEF Leading
  <2>2. d[2 * j].type = "head" /\ d[2 * j + 1].type = "body"
    <3>1. (2 * j - 1) + 1 = 2 * j /\ (2 * j - 1) + 2 = 2 * j + 1
      BY <1>1
    <3> QED BY <2>1, <3>1 DEF BlockAt
  <2>3. 2 * j \in 1 .. 2 * k + 1 /\ 2 * j + 1 \in 1 .. 2 * k + 1
    BY <1>1
  <2> QED BY <1>4, <2>2, <2>3
<1>8. Leading(r, k)
  <2>1. ASSUME NEW j \in 1 .. k PROVE BlockAt(r, 2 * j - 1)
    <3>1. (2 * j - 1) + 1 = 2 * j /\ (2 * j - 1) + 2 = 2 * j + 1 /\ 2 * j + 1 <= Len(r)
      BY <1>1, <1>3
    <3> QED BY <1>7, <3>1 DEF BlockAt
  <2>2. ~BlockAt(r, 2 * k + 1)
    <3>1. ~ ((2 * k + 1) + 2 <= Len(r))
      BY <1>1, <1>3
    <3> QED BY <3>1 DEF BlockAt
  <2> QED BY <2>1, <2>2 DEF Leading
<1>9. ~HasFooter(r)
  <2>1. r[2 * k + 1].type # "trailer"
    <3>1. CASE k = 0
      <4>1. r[1].type = "file" /\ 2 * k + 1 = 1
        BY <1>1, <1>4, <3>1
      <4> QED BY <4>1
    <3>2. CASE k # 0
      <4>1. k \in 1 .. k
        BY <1>1, <3>2
      <4>2. r[2 * k + 1].type = "body"
        BY <1>7, <4>1
      <4> QED BY <4>2
    <3> QED BY <3>1, <3>2
  <2> QED BY <1>3, <2>1 DEF HasFooter
<1>10. IsFront(r, d, k)
  BY <1>3, <1>4 DEF IsFront
<1> QED BY <1>5, <1>6, <1>8, <1>9, <1>10

\* A crash.
LEMMA CrashKeeps ==
  ASSUME NEW e \in Seq(Seq(Nat)), SegmentOf(e), CrashStore
  PROVE  SegmentOf(e)'
<1>1. /\ stage \in {"writing", "checkpoint", "sealing", "sealed"} /\ stage' = "crashed"
      /\ pending' = pending /\ last' = last /\ dir' = dir /\ written' = written
      /\ synced' = synced /\ appended' = appended /\ checkpointed' = checkpointed
  BY DEF CrashStore, writer
<1>2. PICK n \in synced .. Len(written) : \E lost \in SUBSET (synced + 1 .. n) :
        disk' = [i \in 1 .. n |-> IF i \in lost THEN Junk ELSE written[i]]
  BY DEF CrashStore
<1>3. PICK lost \in SUBSET (synced + 1 .. n) :
        disk' = [i \in 1 .. n |-> IF i \in lost THEN Junk ELSE written[i]]
  BY <1>2
<1>4. Cut(e)' /\ Contents(e)' /\ InOrder' /\ Kept(e)'
  <2>1. Cut(e)'
    BY <1>1 DEF SegmentOf, Cut
  <2>2. Contents(e)'
    BY <1>1 DEF SegmentOf, Contents
  <2>3. InOrder'
    BY <1>1 DEF SegmentOf, InOrder
  <2>4. Kept(e)'
    BY <1>1 DEF SegmentOf, Kept
  <2> QED BY <2>1, <2>2, <2>3, <2>4
<1>5. StageEnds(e)'
  BY <1>1 DEF SegmentOf, StageEnds, Down
<1>6. /\ synced \in Nat /\ synced <= Len(written) /\ checkpointed \in Nat
      /\ Covers(e, synced, checkpointed)
  BY DEF SegmentOf, Kept
<1>7. written \in Seq(Piece) /\ Len(written) \in Nat
  BY DEF SegmentOf, Cut, CutInto
<1>8. n \in Nat /\ synced <= n /\ n <= Len(written)
  BY <1>2, <1>6, <1>7
<1>9. PICK d : d = disk'
  OBVIOUS
<1>10. d = [i \in 1 .. n |-> IF i \in lost THEN Junk ELSE written[i]]
  BY <1>3, <1>9
<1>11. \A i \in 1 .. n : d[i] \in {written[i], Junk} /\ d[i] \in Piece
  BY <1>7, <1>8, <1>10, PieceTypes
<1>12. d \in Seq(Piece) /\ Len(d) = n
  <2>1. d \in [1 .. n -> Piece]
    BY <1>10, <1>11
  <2> QED BY <1>8, <1>10, <2>1
<1>13. CoversIntact(d, written, e, checkpointed)
  <2> SUFFICES ASSUME checkpointed # 0
               PROVE  \E m \in 0 .. Len(e) :
                        /\ 2 * m + 1 <= Len(d)
                        /\ \A i \in 1 .. 2 * m + 1 : d[i] = written[i]
                        /\ checkpointed <= Len(Concat(e, m))
    BY DEF CoversIntact
  <2>1. PICK m \in 0 .. Len(e) : 2 * m + 1 <= synced /\ checkpointed <= Len(Concat(e, m))
    BY <1>6 DEF Covers
  <2>2. m \in Nat /\ 2 * m + 1 <= Len(d)
    BY <1>6, <1>8, <1>12, <2>1
  <2>3. ASSUME NEW i \in 1 .. 2 * m + 1 PROVE d[i] = written[i]
    <3>1. i \in 1 .. n /\ i \notin lost
      BY <1>6, <1>8, <2>1, <2>2
    <3> QED BY <1>10, <3>1
  <2> QED BY <2>1, <2>2, <2>3
<1>14. Left(e)'
  <2>1. Len(d) <= Len(written) /\ \A i \in 1 .. Len(d) : d[i] \in {written[i], Junk}
    BY <1>8, <1>11, <1>12
  <2> QED BY <1>1, <1>9, <1>12, <1>13, <2>1 DEF Left
<1> QED BY <1>4, <1>5, <1>14 DEF SegmentOf

\* What the invariant says of the file after a crash.
LEMMA DownMeans ==
  ASSUME NEW e \in Seq(Seq(Nat)), SegmentOf(e), Down
  PROVE  /\ CutInto(written, dir, e) /\ Remains(disk, written)
         /\ EndsOpen(written, e) \/ EndsSealed(written, dir, e)
         /\ CoversIntact(disk, written, e, checkpointed)
  BY DEF SegmentOf, Cut, CutInto, StageEnds, Left, Remains

\* recover_truncate.
LEMMA RecoverKeeps ==
  ASSUME NEW e \in Seq(Seq(Nat)), SegmentOf(e), Recover
  PROVE  SegmentOf(e)'
<1>1. /\ Opens(disk) /\ stage = "crashed" /\ stage' = "recovered"
      /\ pending' = pending /\ last' = last /\ dir' = dir /\ written' = written
      /\ synced' = synced /\ appended' = appended /\ checkpointed' = checkpointed
      /\ disk' = IF Torn(disk) THEN SubSeq(disk, 1, ValidPieces(disk)) ELSE disk
  BY DEF Recover, writer
<1>2. Down /\ Down'
  BY <1>1 DEF Down
<1>3. Cut(e)' /\ Contents(e)' /\ InOrder' /\ Kept(e)'
  <2>1. Cut(e)'
    BY <1>1 DEF SegmentOf, Cut
  <2>2. Contents(e)'
    BY <1>1 DEF SegmentOf, Contents
  <2>3. InOrder'
    BY <1>1 DEF SegmentOf, InOrder
  <2>4. Kept(e)'
    BY <1>1 DEF SegmentOf, Kept
  <2> QED BY <2>1, <2>2, <2>3, <2>4
<1>4. StageEnds(e)'
  BY <1>1, <1>2 DEF SegmentOf, StageEnds
<1>5. /\ CutInto(written, dir, e) /\ Remains(disk, written)
      /\ EndsOpen(written, e) \/ EndsSealed(written, dir, e)
      /\ CoversIntact(disk, written, e, checkpointed)
  BY <1>2, DownMeans
<1>6. PICK k \in 0 .. Len(e) : Leading(disk, k)
  BY <1>5, LeadingExists
<1>7. k \in Nat /\ disk \in Seq(Piece) /\ disk # <<>>
  <2>1. Len(e) \in Nat
    OBVIOUS
  <2> QED BY <1>1, <1>5, <1>6, <2>1 DEF Remains, Opens
<1>8. CASE Torn(disk)
  <2>1. ValidPieces(disk) = 2 * k + 1
    BY <1>6, <1>7, ScannedIs DEF ValidPieces
  <2>2. PICK r : r = disk'
    OBVIOUS
  <2>3. CutsBack(r, disk, k)
    BY <1>1, <1>8, <2>1, <2>2 DEF CutsBack
  <2>4. Remains(r, written) /\ IsFront(r, disk, k)
    BY <1>1, <1>5, <1>6, <2>3, CutBack
  <2>5. CoversIntact(r, written, e, checkpointed)
    <3> SUFFICES ASSUME checkpointed # 0
                 PROVE  \E m \in 0 .. Len(e) :
                          /\ 2 * m + 1 <= Len(r)
                          /\ \A i \in 1 .. 2 * m + 1 : r[i] = written[i]
                          /\ checkpointed <= Len(Concat(e, m))
      BY DEF CoversIntact
    <3>1. PICK m \in 0 .. Len(e) : /\ 2 * m + 1 <= Len(disk)
                                   /\ \A i \in 1 .. 2 * m + 1 : disk[i] = written[i]
                                   /\ checkpointed <= Len(Concat(e, m))
      BY <1>5 DEF CoversIntact
    <3>2. m <= k
      BY <1>5, <1>6, <1>7, <3>1, IntactLeads
    <3>3. m \in Nat /\ 2 * m + 1 <= 2 * k + 1
      BY <1>7, <3>2
    <3>4. ASSUME NEW i \in 1 .. 2 * m + 1 PROVE r[i] = written[i]
      <4>1. i \in 1 .. 2 * k + 1
        BY <1>7, <3>3
      <4> QED BY <2>4, <3>1, <4>1 DEF IsFront
    <3> QED BY <2>4, <3>1, <3>3, <3>4 DEF IsFront
  <2>6. Left(e)'
    BY <1>1, <2>2, <2>4, <2>5 DEF Left, Remains
  <2> QED BY <1>3, <1>4, <2>6 DEF SegmentOf
<1>9. CASE ~Torn(disk)
  <2>1. disk' = disk
    BY <1>1, <1>9
  <2>2. Left(e)'
    BY <1>1, <1>2, <1>5, <2>1 DEF Left, Remains
  <2> QED BY <1>3, <1>4, <2>2 DEF SegmentOf
<1> QED BY <1>8, <1>9

-----------------------------------------------------------------------------
(* The theorems. *)

\* Every step keeps the invariant.
LEMMA SegmentStep == SegmentInv /\ [StoreNext]_storeVars => SegmentInv'
<1> SUFFICES ASSUME SegmentInv, [StoreNext]_storeVars PROVE SegmentInv'
  OBVIOUS
<1>1. PICK e \in Seq(Seq(Nat)) : SegmentOf(e)
  BY DEF SegmentInv
<1>2. stage' \in {"writing", "checkpoint", "sealing", "sealed", "crashed", "recovered"}
  BY DEF SegmentInv, StoreNext, AppendEvent, Checkpoint, CheckpointSynced, Seal, SealSynced,
         CrashStore, Recover, storeVars
<1> SUFFICES \E f \in Seq(Seq(Nat)) : SegmentOf(f)'
  BY <1>2 DEF SegmentInv
<1>3. CASE \E mono \in 0 .. MaxMono : AppendEvent(mono)
  <2>1. PICK mono \in 0 .. MaxMono : AppendEvent(mono)
    BY <1>3
  <2>2. mono \in Nat
    OBVIOUS
  <2> QED BY <1>1, <2>1, <2>2, AppendKeeps
<1>4. CASE Checkpoint
  BY <1>1, <1>4, CheckpointKeeps
<1>5. CASE CheckpointSynced \/ SealSynced
  BY <1>1, <1>5, SyncKeeps
<1>6. CASE Seal
  BY <1>1, <1>6, SealKeeps
<1>7. CASE CrashStore
  BY <1>1, <1>7, CrashKeeps
<1>8. CASE Recover
  BY <1>1, <1>8, RecoverKeeps
<1>9. CASE UNCHANGED storeVars
  BY <1>1, <1>9 DEF storeVars, writer, SegmentOf, Cut, StageEnds, Contents, InOrder, Kept, Left, Down
<1> QED BY <1>3, <1>4, <1>5, <1>6, <1>7, <1>8, <1>9 DEF StoreNext

\* The pieces written hold whole blocks that, with the pending events, are the
\* events appended; and what a crash leaves of them is their front, junk in the
\* unsynced part, with every block a checkpoint or a seal synced intact.
THEOREM SegmentInvariant == StoreSpec => []SegmentInv
  BY SegmentStart, SegmentStep, PTL DEF StoreSpec

\* What the reader yields in a state of the invariant after a crash.
LEMMA ReaderYields ==
  ASSUME NEW e \in Seq(Seq(Nat)), SegmentOf(e), Down, Opens(disk)
  PROVE  \E k \in 0 .. Len(e) :
           /\ Leading(disk, k)
           /\ Lists(disk, e, IF HasFooter(disk) THEN Len(e) ELSE k)
           /\ Scan(disk) = Concat(e, k)
           /\ ScanFails(disk) <=> HasFooter(disk) /\ k # Len(e)
<1>1. /\ CutInto(written, dir, e) /\ Remains(disk, written)
      /\ EndsOpen(written, e) \/ EndsSealed(written, dir, e)
  BY DownMeans
<1>2. PICK k \in 0 .. Len(e) : Leading(disk, k)
  BY <1>1, LeadingExists
<1>3. PICK n : n = IF HasFooter(disk) THEN Len(e) ELSE k
  OBVIOUS
<1>4. Len(e) \in Nat /\ n \in Nat /\ k <= n
  BY <1>2, <1>3
<1>5. Lists(disk, e, n)
  BY <1>1, <1>2, <1>3, IndexIs
<1>6. Scan(disk) = Concat(e, k) /\ (ScanFails(disk) <=> n # k)
  BY <1>1, <1>2, <1>4, <1>5, ScanIs
<1> QED BY <1>2, <1>3, <1>5, <1>6

\* The blocks are sequences of times.
LEMMA ConcatOf ==
  ASSUME NEW e \in Seq(Seq(Nat)), NEW k \in 0 .. Len(e), NEW m \in 0 .. k
  PROVE  /\ Concat(e, m) \in Seq(Nat) /\ Concat(e, k) \in Seq(Nat)
         /\ IsPrefix(Concat(e, m), Concat(e, k))
<1>1. Len(e) \in Nat /\ k \in Nat /\ m \in Nat /\ m <= k /\ k <= Len(e)
  OBVIOUS
<1>2. \A j \in 1 .. Len(e) : e[j] \in Seq(Nat)
  OBVIOUS
<1> QED BY <1>1, <1>2, ConcatGrows

\* What was appended before a checkpoint or a seal returned is read back.
THEOREM DurableSurvivesEver == StoreSpec => []DurableSurvives
<1>1. SegmentInv => DurableSurvives
  <2> SUFFICES ASSUME SegmentInv, Down
               PROVE  IF Opens(disk) THEN Len(Scan(disk)) >= checkpointed
                      ELSE checkpointed = 0
    BY DEF DurableSurvives
  <2>1. PICK e \in Seq(Seq(Nat)) : SegmentOf(e)
    BY DEF SegmentInv
  <2>2. /\ CutInto(written, dir, e) /\ Remains(disk, written)
        /\ CoversIntact(disk, written, e, checkpointed)
    BY <2>1, DownMeans
  <2>3. checkpointed \in Nat
    BY <2>1 DEF SegmentOf, Kept
  <2>4. CASE Opens(disk)
    <3>1. PICK k \in 0 .. Len(e) : Leading(disk, k) /\ Scan(disk) = Concat(e, k)
      BY <2>1, <2>4, ReaderYields
    <3>2. k \in Nat /\ Concat(e, k) \in Seq(Nat)
      <4>1. k \in Nat /\ k \in 0 .. k
        OBVIOUS
      <4> QED BY <4>1, ConcatOf
    <3>3. CASE checkpointed = 0
      BY <2>4, <3>1, <3>2, <3>3
    <3>4. CASE checkpointed # 0
      <4>1. PICK m \in 0 .. Len(e) : /\ 2 * m + 1 <= Len(disk)
                                     /\ \A i \in 1 .. 2 * m + 1 : disk[i] = written[i]
                                     /\ checkpointed <= Len(Concat(e, m))
        BY <2>2, <3>4 DEF CoversIntact
      <4>2. m <= k
        BY <2>2, <3>1, <3>2, <4>1, IntactLeads
      <4>3. m \in 0 .. k
        BY <3>2, <4>2
      <4>4. PICK x : x = Concat(e, m)
        OBVIOUS
      <4>5. PICK y : y = Concat(e, k)
        OBVIOUS
      <4>6. x \in Seq(Nat) /\ y \in Seq(Nat) /\ IsPrefix(x, y)
        BY <4>3, <4>4, <4>5, ConcatOf
      <4>7. Len(x) <= Len(y)
        BY <4>6 DEF IsPrefix
      <4> QED BY <2>3, <2>4, <3>1, <4>1, <4>4, <4>5, <4>6, <4>7
    <3> QED BY <2>3, <3>3, <3>4
  <2>5. CASE ~Opens(disk)
    <3> SUFFICES ASSUME checkpointed # 0 PROVE FALSE
      BY <2>5
    <3>1. PICK m \in 0 .. Len(e) : /\ 2 * m + 1 <= Len(disk)
                                   /\ \A i \in 1 .. 2 * m + 1 : disk[i] = written[i]
      BY <2>2 DEF CoversIntact
    <3>2. disk \in Seq(Piece) /\ Len(disk) \in Nat
      BY <2>2 DEF Remains
    <3>3. 1 \in 1 .. 2 * m + 1 /\ Len(disk) # 0
      BY <3>1, <3>2
    <3>4. disk[1].type = "file"
      <4>1. disk[1] = FileHeader
        BY <2>2, <3>1, <3>3 DEF CutInto
      <4> QED BY <4>1, PieceKinds
    <3> QED BY <2>5, <3>2, <3>3, <3>4 DEF Opens
  <2> QED BY <2>4, <2>5
<1> QED BY <1>1, SegmentInvariant, PTL

\* The reader yields a prefix of what was appended.
THEOREM NothingInventedEver == StoreSpec => []NothingInvented
<1>1. SegmentInv => NothingInvented
  <2> SUFFICES ASSUME SegmentInv, Down, Opens(disk)
               PROVE  IsPrefix(Scan(disk), appended)
    BY DEF NothingInvented
  <2>1. PICK e \in Seq(Seq(Nat)) : SegmentOf(e)
    BY DEF SegmentInv
  <2>2. PICK k \in 0 .. Len(e) : Scan(disk) = Concat(e, k)
    BY <2>1, ReaderYields
  <2>3. PICK x : x = Concat(e, k)
    OBVIOUS
  <2>4. PICK y : y = Concat(e, Len(e))
    OBVIOUS
  <2>5. x \in Seq(Nat) /\ y \in Seq(Nat) /\ IsPrefix(x, y)
    <3>1. Len(e) \in 0 .. Len(e) /\ k \in 0 .. Len(e)
      OBVIOUS
    <3> QED BY <2>3, <2>4, <3>1, ConcatOf
  <2>6. appended = y \o pending /\ pending \in Seq(Nat)
    BY <2>1, <2>4 DEF SegmentOf, Contents
  <2>7. IsPrefix(x, appended)
    BY <2>5, <2>6 DEF IsPrefix
  <2> QED BY <2>2, <2>3, <2>7
<1> QED BY <1>1, SegmentInvariant, PTL

\* A prefix of ascending times ascends.
LEMMA AscendsPrefix ==
  ASSUME NEW s \in Seq(Nat), NEW t \in Seq(Nat), IsPrefix(s, t), Ascends(t)
  PROVE  Ascends(s)
<1>1. Len(s) <= Len(t) /\ Len(s) \in Nat /\ Len(t) \in Nat
  BY DEF IsPrefix
<1>2. ASSUME NEW i \in 1 .. Len(s) PROVE s[i] = t[i] /\ i \in 1 .. Len(t)
  <2>1. SubSeq(s, 1, Len(s))[i] = s[i] /\ SubSeq(t, 1, Len(s))[i] = t[i]
    BY <1>1
  <2> QED BY <1>1, <2>1 DEF IsPrefix
<1> QED BY <1>2 DEF Ascends

\* verify finds fault with a file exactly when a scan of it fails.
LEMMA VerifiedIs ==
  ASSUME NEW d, NEW w, NEW c, NEW e, CutInto(w, c, e), Remains(d, w),
         EndsOpen(w, e) \/ EndsSealed(w, c, e), Opens(d),
         NEW k \in 0 .. Len(e), Leading(d, k),
         Concat(e, k) \in Seq(Nat), Ascends(Concat(e, k))
  PROVE  /\ Verified(d) = ~ScanFails(d)
         /\ Scan(d) = Concat(e, k)
         /\ ~HasFooter(d) => Verified(d)
<1>1. PICK n : n = IF HasFooter(d) THEN Len(e) ELSE k
  OBVIOUS
<1>2. k \in Nat /\ n \in Nat /\ k <= n /\ d \in Seq(Piece) /\ d # <<>>
  <2>1. Len(e) \in Nat
    BY DEF CutInto
  <2> QED BY <1>1, <2>1 DEF Remains, Opens
<1>3. Lists(d, e, n)
  BY <1>1, IndexIs
<1>4. Scan(d) = Concat(e, k) /\ (ScanFails(d) <=> n # k)
  BY <1>2, <1>3, ScanIs
<1>5. PICK b : b = Blocks(d)
  OBVIOUS
<1>6. /\ DOMAIN b = 1 .. n /\ Len(b) = n
      /\ \A j \in 1 .. n : b[j] = Entry(2 * j - 1, e[j]) /\ b[j].offset = 2 * j - 1
  BY <1>3, <1>5 DEF Lists, Entry
<1>7. ASSUME n = k PROVE Verified(d)
  <2>1. ~ScanFails(d)
    BY <1>4, <1>7
  <2>2. ASSUME NEW j \in DOMAIN b
        PROVE  b[j] = Entry(b[j].offset, d[b[j].offset + 2].events)
    <3>1. j \in 1 .. k /\ BlockAt(d, 2 * j - 1) /\ j \in Nat \ {0}
      BY <1>2, <1>6, <1>7 DEF Leading
    <3>2. d[2 * j + 1] = BodyOf(e[j])
      BY <3>1, BlockWritten
    <3>3. d[2 * j + 1].events = e[j]
      BY <3>2, PieceKinds
    <3>4. b[j].offset = 2 * j - 1 /\ b[j].offset + 2 = 2 * j + 1
      BY <1>6
    <3>5. b[j] = Entry(2 * j - 1, e[j])
      BY <1>6
    <3> QED BY <3>3, <3>4, <3>5
  <2>3. DataEnd(d) = 2 * n + 1
    <3>1. CASE HasFooter(d)
      <4>1. d[Len(d)].start = 2 * Len(e) + 1
        BY <3>1, FooterWritten
      <4> QED BY <1>1, <3>1, <4>1 DEF DataEnd
    <3>2. CASE ~HasFooter(d)
      BY <1>2, <1>7, <3>2, ScannedIs DEF DataEnd, ValidPieces
    <3> QED BY <3>1, <3>2
  <2>4. ASSUME NEW j \in DOMAIN b
        PROVE  b[j].offset + 2 = IF j = Len(b) THEN DataEnd(d) ELSE b[j + 1].offset
    <3>1. b[j].offset + 2 = 2 * j + 1
      BY <1>6
    <3>2. CASE j = Len(b)
      BY <1>6, <2>3, <3>1, <3>2
    <3>3. CASE j # Len(b)
      <4>1. j + 1 \in 1 .. n /\ 2 * (j + 1) - 1 = 2 * j + 1
        BY <1>2, <1>6, <3>3
      <4>2. b[j + 1].offset = 2 * (j + 1) - 1
        BY <1>6, <4>1
      <4> QED BY <3>1, <3>3, <4>1, <4>2
    <3> QED BY <3>2, <3>3
  <2>5. \A i \in 2 .. Len(Scan(d)) : Scan(d)[i - 1] <= Scan(d)[i]
    <3>1. PICK s : s = Scan(d)
      OBVIOUS
    <3>2. s \in Seq(Nat) /\ Ascends(s)
      BY <1>4, <3>1
    <3>3. ASSUME NEW i \in 2 .. Len(s) PROVE s[i - 1] <= s[i]
      <4>1. i - 1 \in 1 .. Len(s) /\ i \in 1 .. Len(s) /\ i - 1 <= i
        BY <3>2
      <4> QED BY <3>2, <4>1 DEF Ascends
    <3> QED BY <3>1, <3>3
  <2> QED BY <1>5, <2>1, <2>2, <2>4, <2>5 DEF Verified
<1>8. ScanFails(d) => ~Verified(d)
  BY DEF Verified
<1>9. Verified(d) <=> ~ScanFails(d)
  BY <1>4, <1>7, <1>8
<1>10. Verified(d) \in BOOLEAN /\ ScanFails(d) \in BOOLEAN
  BY DEF Verified, ScanFails
<1>11. ~HasFooter(d) => n = k
  BY <1>1
<1> QED BY <1>4, <1>7, <1>9, <1>10, <1>11

\* The times the reader yields never go back.
LEMMA ReadAscends ==
  ASSUME NEW e \in Seq(Seq(Nat)), SegmentOf(e), NEW k \in 0 .. Len(e)
  PROVE  Concat(e, k) \in Seq(Nat) /\ Ascends(Concat(e, k))
<1>1. PICK x : x = Concat(e, k)
  OBVIOUS
<1>2. PICK y : y = Concat(e, Len(e))
  OBVIOUS
<1>3. x \in Seq(Nat) /\ y \in Seq(Nat) /\ IsPrefix(x, y)
  <2>1. Len(e) \in 0 .. Len(e) /\ k \in 0 .. Len(e)
    OBVIOUS
  <2> QED BY <1>1, <1>2, <2>1, ConcatOf
<1>4. appended = y \o pending /\ pending \in Seq(Nat) /\ appended \in Seq(Nat)
  BY <1>2 DEF SegmentOf, Contents
<1>5. IsPrefix(x, appended)
  BY <1>3, <1>4 DEF IsPrefix
<1>6. Ascends(appended)
  BY DEF SegmentOf, InOrder
<1>7. Ascends(x)
  BY <1>3, <1>4, <1>5, <1>6, AscendsPrefix
<1> QED BY <1>1, <1>3, <1>7

\* Recovery loses nothing that could be read and leaves a file that reads clean.
THEOREM RecoveredReadsCleanEver == StoreSpec => RecoveredReadsClean
<1>1. SegmentInv /\ [StoreNext]_storeVars =>
        [stage' = "recovered" =>
           /\ Scan(disk') = Scan(disk)
           /\ Verified(disk') = ~ScanFails(disk')
           /\ ~HasFooter(disk') => ~Torn(disk') /\ Verified(disk')]_storeVars
  <2> SUFFICES ASSUME SegmentInv, StoreNext, stage' = "recovered"
               PROVE  /\ Scan(disk') = Scan(disk)
                      /\ Verified(disk') = ~ScanFails(disk')
                      /\ ~HasFooter(disk') => ~Torn(disk') /\ Verified(disk')
    OBVIOUS
  <2>1. Recover
    BY DEF SegmentInv, StoreNext, AppendEvent, Checkpoint, CheckpointSynced, Seal,
           SealSynced, CrashStore
  <2>2. /\ Opens(disk) /\ Down
        /\ disk' = IF Torn(disk) THEN SubSeq(disk, 1, ValidPieces(disk)) ELSE disk
    BY <2>1 DEF Recover, Down
  <2>3. PICK e \in Seq(Seq(Nat)) : SegmentOf(e)
    BY DEF SegmentInv
  <2>4. /\ CutInto(written, dir, e) /\ Remains(disk, written)
        /\ EndsOpen(written, e) \/ EndsSealed(written, dir, e)
    BY <2>2, <2>3, DownMeans
  <2>5. PICK k \in 0 .. Len(e) : Leading(disk, k) /\ Scan(disk) = Concat(e, k)
    BY <2>2, <2>3, ReaderYields
  <2>6. k \in Nat /\ disk \in Seq(Piece) /\ disk # <<>>
    <3>1. Len(e) \in Nat
      OBVIOUS
    <3> QED BY <2>2, <2>4, <3>1 DEF Remains, Opens
  <2>7. Concat(e, k) \in Seq(Nat) /\ Ascends(Concat(e, k))
    BY <2>3, ReadAscends
  <2>8. PICK r : r = disk'
    OBVIOUS
  <2>9. /\ Remains(r, written) /\ Opens(r) /\ Leading(r, k)
        /\ ~HasFooter(r) => Len(r) <= 2 * k + 1
    <3>1. ScannedBlocks(disk) = k
      BY <2>5, <2>6, ScannedIs
    <3>2. CASE Torn(disk)
      <4>1. CutsBack(r, disk, k)
        BY <2>2, <2>8, <3>1, <3>2 DEF CutsBack, ValidPieces
      <4>2. /\ Remains(r, written) /\ IsFront(r, disk, k)
            /\ Opens(r) /\ Leading(r, k)
        BY <2>2, <2>4, <2>5, <4>1, CutBack
      <4>3. Len(r) <= 2 * k + 1
        BY <2>6, <4>2 DEF IsFront
      <4> QED BY <4>2, <4>3
    <3>3. CASE ~Torn(disk)
      <4>1. r = disk
        BY <2>2, <2>8, <3>3
      <4>2. ~HasFooter(disk) => ~ (Len(disk) > 2 * k + 1)
        BY <3>1, <3>3 DEF Torn
      <4>3. Len(disk) \in Nat
        BY <2>6
      <4>4. ~HasFooter(r) => Len(r) <= 2 * k + 1
        BY <2>6, <4>1, <4>2, <4>3
      <4> QED BY <2>2, <2>4, <2>5, <4>1, <4>4
    <3> QED BY <3>2, <3>3
  <2>10. /\ Verified(r) = ~ScanFails(r)
         /\ Scan(r) = Concat(e, k)
         /\ ~HasFooter(r) => Verified(r)
    BY <2>4, <2>7, <2>9, VerifiedIs
  <2>11. ~HasFooter(r) => ~Torn(r)
    <3>1. r \in Seq(Piece) /\ r # <<>> /\ Len(r) \in Nat
      BY <2>9 DEF Remains, Opens
    <3>2. ScannedBlocks(r) = k
      BY <2>6, <2>9, <3>1, ScannedIs
    <3> QED BY <2>6, <2>9, <3>1, <3>2 DEF Torn
  <2> QED BY <2>5, <2>8, <2>10, <2>11
<1> QED BY <1>1, SegmentInvariant, PTL DEF StoreSpec, RecoveredReadsClean

-----------------------------------------------------------------------------
(* A range scan is the full scan, filtered. *)

\* f takes each of its first k values in Seq(S).
Sequences(S, f, k) == \A j \in 1 .. k : f[j] \in Seq(S)

\* h is f up to a, and then the first values of g.
Joins(h, f, a, g, b) ==
  (\A i \in 1 .. a : h[i] = f[i]) /\ (\A i \in 1 .. b : h[a + i] = g[i])

\* Its concatenation is theirs, one after the other.
Joined(h, f, a, g, b) == Concat(h, a + b) = Concat(f, a) \o Concat(g, b)

\* Two runs of sequences concatenated one after the other.
LEMMA ConcatJoin ==
  ASSUME NEW S, NEW f, NEW g, NEW h, NEW a \in Nat, NEW b \in Nat,
         Sequences(S, f, a), Sequences(S, g, b), Joins(h, f, a, g, b)
  PROVE  /\ Concat(f, a) \in Seq(S) /\ Concat(g, b) \in Seq(S)
         /\ Joined(h, f, a, g, b)
<1>1. Concat(f, a) \in Seq(S)
  BY ConcatType DEF Sequences
<1>2. \A m \in Nat : m <= b => Concat(g, m) \in Seq(S)
  <2> SUFFICES ASSUME NEW m \in Nat, m <= b PROVE Concat(g, m) \in Seq(S)
    OBVIOUS
  <2>1. ASSUME NEW j \in 1 .. m PROVE g[j] \in Seq(S)
    <3>1. j \in 1 .. b
      OBVIOUS
    <3> QED BY <3>1 DEF Sequences
  <2> QED BY <2>1, ConcatType
<1> DEFINE P(m) == m <= b => Concat(h, a + m) = Concat(f, a) \o Concat(g, m)
           T == {m \in Nat : P(m)}
<1>3. P(0)
  <2>1. Concat(g, 0) = <<>>
    BY ConcatZero
  <2>2. Concat(h, a) = Concat(f, a)
    BY ConcatSame DEF Joins
  <2>3. Concat(f, a) \o <<>> = Concat(f, a)
    <3>1. PICK x : x = Concat(f, a)
      OBVIOUS
    <3>2. x \in Seq(S)
      BY <1>1, <3>1
    <3>3. x \o <<>> = x
      BY <3>2
    <3> QED BY <3>1, <3>3
  <2>4. a + 0 = a
    OBVIOUS
  <2> QED BY <2>1, <2>2, <2>3, <2>4
<1>4. ASSUME NEW m \in Nat, P(m) PROVE P(m + 1)
  <2> SUFFICES ASSUME m + 1 <= b
               PROVE  Concat(h, a + (m + 1)) = Concat(f, a) \o Concat(g, m + 1)
    OBVIOUS
  <2>1. Concat(h, a + m) = Concat(f, a) \o Concat(g, m)
    BY <1>4
  <2>2. m + 1 \in 1 .. b /\ a + m \in Nat /\ (a + m) + 1 = a + (m + 1)
    OBVIOUS
  <2>3. \A j \in 1 .. (a + m) + 1 : h[j] \in Seq(S)
    <3> SUFFICES ASSUME NEW j \in 1 .. (a + m) + 1 PROVE h[j] \in Seq(S)
      OBVIOUS
    <3>1. CASE j <= a
      <4>1. j \in 1 .. a
        BY <3>1
      <4> QED BY <4>1 DEF Sequences, Joins
    <3>2. CASE j > a
      <4>1. j - a \in 1 .. b /\ a + (j - a) = j
        BY <2>2, <3>2
      <4>2. h[a + (j - a)] = g[j - a] /\ g[j - a] \in Seq(S)
        BY <4>1 DEF Sequences, Joins
      <4> QED BY <4>1, <4>2
    <3> QED BY <3>1, <3>2
  <2>4. Concat(h, (a + m) + 1) = Concat(h, a + m) \o h[(a + m) + 1]
    BY <2>2, <2>3, ConcatNext
  <2>5. \A j \in 1 .. m + 1 : g[j] \in Seq(S)
    <3> SUFFICES ASSUME NEW j \in 1 .. m + 1 PROVE g[j] \in Seq(S)
      OBVIOUS
    <3>1. j \in 1 .. b
      BY <2>2
    <3> QED BY <3>1 DEF Sequences
  <2>6. Concat(g, m + 1) = Concat(g, m) \o g[m + 1]
    BY <2>5, ConcatNext
  <2>7. h[(a + m) + 1] = g[m + 1] /\ g[m + 1] \in Seq(S)
    BY <2>2, <2>5 DEF Joins
  <2>8. PICK x : x = Concat(f, a)
    OBVIOUS
  <2>9. PICK y : y = Concat(g, m)
    OBVIOUS
  <2>10. PICK z : z = g[m + 1]
    OBVIOUS
  <2>11. x \in Seq(S) /\ y \in Seq(S) /\ z \in Seq(S)
    BY <1>1, <1>2, <2>2, <2>7, <2>8, <2>9, <2>10
  <2>12. (x \o y) \o z = x \o (y \o z)
    BY <2>11
  <2> QED BY <2>1, <2>2, <2>4, <2>6, <2>7, <2>8, <2>9, <2>10, <2>12
<1>5. b \in T
  <2>1. 0 \in T /\ \A m \in Nat : m \in T => m + 1 \in T
    <3> HIDE DEF P
    <3> QED BY <1>3, <1>4
  <2> HIDE DEF T
  <2> QED BY <2>1, Induction
<1>6. Concat(g, b) \in Seq(S)
  BY <1>2
<1>7. Joined(h, f, a, g, b)
  BY <1>5 DEF Joined
<1> QED BY <1>1, <1>6, <1>7

\* Nothing but empty sequences.
LEMMA ConcatNone ==
  ASSUME NEW g, NEW k \in Nat, \A j \in 1 .. k : g[j] = <<>>
  PROVE  Concat(g, k) = <<>>
<1> DEFINE T == {m \in Nat : m <= k => Concat(g, m) = <<>>}
<1>1. 0 \in T
  BY ConcatZero
<1>2. ASSUME NEW m \in Nat, m \in T PROVE m + 1 \in T
  <2> SUFFICES ASSUME m + 1 <= k PROVE Concat(g, m + 1) = <<>>
    OBVIOUS
  <2>1. \A j \in 1 .. m + 1 : g[j] \in Seq(Nat)
    <3> SUFFICES ASSUME NEW j \in 1 .. m + 1 PROVE g[j] \in Seq(Nat)
      OBVIOUS
    <3>1. j \in 1 .. k
      OBVIOUS
    <3>2. <<>> \in Seq(Nat)
      OBVIOUS
    <3> QED BY <3>1, <3>2
  <2>2. Concat(g, m + 1) = Concat(g, m) \o g[m + 1]
    BY <2>1, ConcatNext
  <2>3. Concat(g, m) = <<>> /\ g[m + 1] = <<>>
    <3>1. m + 1 \in 1 .. k
      OBVIOUS
    <3> QED BY <1>2, <3>1
  <2>4. <<>> \o <<>> = <<>>
    OBVIOUS
  <2> QED BY <2>2, <2>3, <2>4
<1>3. k \in T
  <2> HIDE DEF T
  <2> QED BY <1>1, <1>2, Induction
<1> QED BY <1>3

\* One event, if it is in the range.
If(m, lo, hi) == IF lo <= m /\ m <= hi THEN <<m>> ELSE <<>>
Filtering(s, lo, hi) == [i \in DOMAIN s |-> If(s[i], lo, hi)]

\* Within, as a concatenation.
LEMMA WithinIs ==
  ASSUME NEW s \in Seq(Nat), NEW lo, NEW hi
  PROVE  /\ Within(s, lo, hi) = Concat(Filtering(s, lo, hi), Len(s))
         /\ Sequences(Nat, Filtering(s, lo, hi), Len(s))
         /\ Within(s, lo, hi) \in Seq(Nat)
<1>1. PICK u : u = Filtering(s, lo, hi)
  OBVIOUS
<1>2. DOMAIN s = 1 .. Len(s) /\ Len(s) \in Nat /\ \A i \in 1 .. Len(s) : s[i] \in Nat
  OBVIOUS
<1>3. u = [i \in 1 .. Len(s) |-> If(s[i], lo, hi)]
  BY <1>1, <1>2 DEF Filtering
<1>4. [j \in 1 .. Len(s) |-> u[j]] = u
  BY <1>3
<1>5. Within(s, lo, hi) = Concat(u, Len(s))
  BY <1>1, <1>4 DEF Within, Concat, Filtering, If
<1>6. ASSUME NEW m \in Nat PROVE If(m, lo, hi) \in Seq(Nat)
  <2>1. <<m>> \in Seq(Nat) /\ <<>> \in Seq(Nat)
    OBVIOUS
  <2> QED BY <2>1 DEF If
<1>7. Sequences(Nat, u, Len(s))
  BY <1>2, <1>3, <1>6 DEF Sequences
<1>8. Concat(u, Len(s)) \in Seq(Nat)
  BY <1>2, <1>7, ConcatType DEF Sequences
<1> QED BY <1>1, <1>5, <1>7, <1>8

\* The filter of two sequences is that of each.
FiltersApart(s, t, lo, hi) ==
  Within(s \o t, lo, hi) = Within(s, lo, hi) \o Within(t, lo, hi)

LEMMA WithinJoin ==
  ASSUME NEW s \in Seq(Nat), NEW t \in Seq(Nat), NEW lo, NEW hi
  PROVE  FiltersApart(s, t, lo, hi)
<1>1. PICK r : r = s \o t
  OBVIOUS
<1>2. r \in Seq(Nat) /\ Len(r) = Len(s) + Len(t) /\ Len(s) \in Nat /\ Len(t) \in Nat
  BY <1>1
<1>3. /\ \A i \in 1 .. Len(s) : r[i] = s[i]
      /\ \A i \in 1 .. Len(t) : r[Len(s) + i] = t[i]
  BY <1>1
<1>4. PICK f : f = Filtering(s, lo, hi)
  OBVIOUS
<1>5. PICK g : g = Filtering(t, lo, hi)
  OBVIOUS
<1>6. PICK h : h = Filtering(r, lo, hi)
  OBVIOUS
<1>7. Joins(h, f, Len(s), g, Len(t))
  <2>1. ASSUME NEW i \in 1 .. Len(s) PROVE h[i] = f[i]
    <3>1. i \in DOMAIN s /\ i \in DOMAIN r
      BY <1>2
    <3> QED BY <1>3, <1>4, <1>6, <3>1 DEF Filtering
  <2>2. ASSUME NEW i \in 1 .. Len(t) PROVE h[Len(s) + i] = g[i]
    <3>1. i \in DOMAIN t /\ Len(s) + i \in DOMAIN r
      BY <1>2
    <3> QED BY <1>3, <1>5, <1>6, <3>1 DEF Filtering
  <2> QED BY <2>1, <2>2 DEF Joins
<1>8. Within(s, lo, hi) = Concat(f, Len(s)) /\ Sequences(Nat, f, Len(s))
  BY <1>4, WithinIs
<1>9. Within(t, lo, hi) = Concat(g, Len(t)) /\ Sequences(Nat, g, Len(t))
  BY <1>5, WithinIs
<1>10. Within(r, lo, hi) = Concat(h, Len(s) + Len(t))
  <2>1. Within(r, lo, hi) = Concat(h, Len(r))
    BY <1>2, <1>6, WithinIs
  <2> QED BY <1>2, <2>1
<1>11. Concat(h, Len(s) + Len(t)) = Concat(f, Len(s)) \o Concat(g, Len(t))
  <2>1. PICK a \in Nat : a = Len(s)
    BY <1>2
  <2>2. PICK b \in Nat : b = Len(t)
    BY <1>2
  <2>3. Sequences(Nat, f, a) /\ Sequences(Nat, g, b) /\ Joins(h, f, a, g, b)
    BY <1>7, <1>8, <1>9, <2>1, <2>2
  <2>4. Joined(h, f, a, g, b)
    BY <2>3, ConcatJoin
  <2> QED BY <2>1, <2>2, <2>4 DEF Joined
<1> QED BY <1>1, <1>8, <1>9, <1>10, <1>11 DEF FiltersApart

\* Of events that are all outside the range, none.
LEMMA WithinNone ==
  ASSUME NEW s \in Seq(Nat), NEW lo, NEW hi,
         \A i \in 1 .. Len(s) : ~ (lo <= s[i] /\ s[i] <= hi)
  PROVE  Within(s, lo, hi) = <<>>
<1>1. PICK u : u = Filtering(s, lo, hi)
  OBVIOUS
<1>2. \A i \in 1 .. Len(s) : u[i] = <<>>
  <2> SUFFICES ASSUME NEW i \in 1 .. Len(s) PROVE u[i] = <<>>
    OBVIOUS
  <2>1. i \in DOMAIN s
    OBVIOUS
  <2> QED BY <1>1, <2>1 DEF Filtering, If
<1>3. Len(s) \in Nat
  OBVIOUS
<1>4. Concat(u, Len(s)) = <<>>
  BY <1>2, <1>3, ConcatNone
<1> QED BY <1>1, <1>4, WithinIs

\* Of events that are all in the range, all.
LEMMA WithinAll ==
  ASSUME NEW s \in Seq(Nat), NEW lo, NEW hi,
         \A i \in 1 .. Len(s) : lo <= s[i] /\ s[i] <= hi
  PROVE  Within(s, lo, hi) = s
<1>1. PICK u : u = Filtering(s, lo, hi)
  OBVIOUS
<1>2. Len(s) \in Nat /\ DOMAIN s = 1 .. Len(s)
  OBVIOUS
<1>3. \A i \in 1 .. Len(s) : u[i] = <<s[i]>> /\ s[i] \in Nat
  BY <1>1, <1>2 DEF Filtering, If
<1>4. Sequences(Nat, u, Len(s))
  BY <1>1, WithinIs
<1> DEFINE P(m) == m <= Len(s) => Concat(u, m) = SubSeq(s, 1, m)
           T == {m \in Nat : P(m)}
<1>5. P(0)
  <2>1. SubSeq(s, 1, 0) = <<>>
    OBVIOUS
  <2> QED BY <2>1, ConcatZero
<1>6. ASSUME NEW m \in Nat, P(m) PROVE P(m + 1)
  <2> SUFFICES ASSUME m + 1 <= Len(s) PROVE Concat(u, m + 1) = SubSeq(s, 1, m + 1)
    OBVIOUS
  <2>1. \A j \in 1 .. m + 1 : u[j] \in Seq(Nat)
    <3> SUFFICES ASSUME NEW j \in 1 .. m + 1 PROVE u[j] \in Seq(Nat)
      OBVIOUS
    <3>1. j \in 1 .. Len(s)
      BY <1>2
    <3> QED BY <1>4, <3>1 DEF Sequences
  <2>2. Concat(u, m + 1) = Concat(u, m) \o u[m + 1]
    BY <2>1, ConcatNext
  <2>3. m + 1 \in 1 .. Len(s)
    BY <1>2
  <2>4. Concat(u, m + 1) = SubSeq(s, 1, m) \o <<s[m + 1]>>
    <3>1. Concat(u, m) = SubSeq(s, 1, m)
      <4>1. m <= Len(s)
        BY <1>2
      <4> QED BY <1>6, <4>1
    <3>2. u[m + 1] = <<s[m + 1]>>
      BY <1>3, <2>3
    <3> QED BY <2>2, <3>1, <3>2
  <2>5. SubSeq(s, 1, m) \o <<s[m + 1]>> = SubSeq(s, 1, m + 1)
    <3>1. PICK x : x = SubSeq(s, 1, m)
      OBVIOUS
    <3>2. PICK y : y = SubSeq(s, 1, m + 1)
      OBVIOUS
    <3>3. /\ x \in Seq(Nat) /\ Len(x) = m
          /\ y \in Seq(Nat) /\ Len(y) = m + 1
      BY <1>2, <2>3, <3>1, <3>2
    <3>4. PICK z : z = x \o <<s[m + 1]>>
      OBVIOUS
    <3>5. /\ z \in Seq(Nat) /\ Len(z) = m + 1 /\ z[m + 1] = s[m + 1]
          /\ \A i \in 1 .. m : z[i] = x[i]
      <4>1. AddsOne(z, x, s[m + 1]) /\ s[m + 1] \in Nat
        BY <1>3, <2>3, <3>4 DEF AddsOne
      <4>2. z \in Seq(Nat) /\ HasOne(z, x, s[m + 1])
        BY <3>3, <4>1, OneMore
      <4> QED BY <3>3, <4>2 DEF HasOne, Keeps
    <3>6. ASSUME NEW i \in 1 .. m + 1 PROVE y[i] = s[i] /\ z[i] = s[i]
      <4>1. y[i] = s[i]
        BY <1>2, <2>3, <3>2
      <4>2. CASE i = m + 1
        BY <3>5, <4>1, <4>2
      <4>3. CASE i # m + 1
        <5>1. i \in 1 .. m
          BY <4>3
        <5>2. x[i] = s[i]
          BY <1>2, <2>3, <3>1, <5>1
        <5> QED BY <3>5, <4>1, <5>1, <5>2
      <4> QED BY <4>2, <4>3
    <3>7. z = y
      <4>1. Len(z) = Len(y) /\ \A i \in 1 .. Len(z) : z[i] = y[i]
        BY <3>3, <3>5, <3>6
      <4> QED BY <3>3, <3>5, <4>1
    <3> QED BY <3>1, <3>2, <3>4, <3>7
  <2> QED BY <2>4, <2>5
<1>7. Len(s) \in T
  <2>1. 0 \in T /\ \A m \in Nat : m \in T => m + 1 \in T
    <3> HIDE DEF P
    <3> QED BY <1>5, <1>6
  <2> HIDE DEF T
  <2> QED BY <1>2, <2>1, Induction
<1>8. SubSeq(s, 1, Len(s)) = s
  OBVIOUS
<1>9. Concat(u, Len(s)) = s
  BY <1>2, <1>7, <1>8
<1> QED BY <1>1, <1>9, WithinIs

\* g filters each of the first k sequences of e.
Filters(g, e, k, lo, hi) == \A j \in 1 .. k : g[j] = Within(e[j], lo, hi)

\* The filter of a concatenation is the concatenation of the filters.
LEMMA WithinConcat ==
  ASSUME NEW e \in Seq(Seq(Nat)), NEW k \in Nat, k <= Len(e), NEW lo, NEW hi,
         NEW g, Filters(g, e, k, lo, hi)
  PROVE  /\ Within(Concat(e, k), lo, hi) = Concat(g, k)
         /\ Sequences(Nat, g, k)
<1> USE DEF Filters
<1>1. \A j \in 1 .. k : e[j] \in Seq(Nat)
  OBVIOUS
<1>2. Sequences(Nat, g, k)
  <2> SUFFICES ASSUME NEW j \in 1 .. k PROVE g[j] \in Seq(Nat)
    BY DEF Sequences
  <2>1. e[j] \in Seq(Nat)
    BY <1>1
  <2> QED BY <2>1, WithinIs
<1> DEFINE P(m) == m <= k => Within(Concat(e, m), lo, hi) = Concat(g, m)
           T == {m \in Nat : P(m)}
<1>3. P(0)
  <2>1. Within(<<>>, lo, hi) = <<>>
    <3>1. PICK q : q = <<>>
      OBVIOUS
    <3>2. q \in Seq(Nat) /\ \A i \in 1 .. Len(q) : ~ (lo <= q[i] /\ q[i] <= hi)
      BY <3>1
    <3>3. Within(q, lo, hi) = <<>>
      BY <3>2, WithinNone
    <3> QED BY <3>1, <3>3
  <2> QED BY <2>1, ConcatZero
<1>4. ASSUME NEW m \in Nat, P(m) PROVE P(m + 1)
  <2> SUFFICES ASSUME m + 1 <= k PROVE Within(Concat(e, m + 1), lo, hi) = Concat(g, m + 1)
    OBVIOUS
  <2>1. m + 1 \in 1 .. k /\ m <= k
    OBVIOUS
  <2>2. \A j \in 1 .. m + 1 : e[j] \in Seq(Nat) /\ g[j] \in Seq(Nat)
    <3> SUFFICES ASSUME NEW j \in 1 .. m + 1 PROVE e[j] \in Seq(Nat) /\ g[j] \in Seq(Nat)
      OBVIOUS
    <3>1. j \in 1 .. k
      BY <2>1
    <3> QED BY <1>1, <1>2, <3>1 DEF Sequences
  <2>3. Concat(e, m) \in Seq(Nat) /\ Concat(e, m + 1) = Concat(e, m) \o e[m + 1]
    BY <2>2, ConcatNext
  <2>4. Concat(g, m + 1) = Concat(g, m) \o g[m + 1]
    BY <2>2, ConcatNext
  <2>5. PICK x : x = Concat(e, m)
    OBVIOUS
  <2>6. Within(x \o e[m + 1], lo, hi) = Within(x, lo, hi) \o Within(e[m + 1], lo, hi)
    <3>1. x \in Seq(Nat) /\ e[m + 1] \in Seq(Nat)
      BY <1>1, <2>1, <2>3, <2>5
    <3>2. FiltersApart(x, e[m + 1], lo, hi)
      BY <3>1, WithinJoin
    <3> QED BY <3>2 DEF FiltersApart
  <2>7. Within(x, lo, hi) = Concat(g, m)
    BY <1>4, <2>1, <2>5
  <2>8. g[m + 1] = Within(e[m + 1], lo, hi)
    BY <2>1
  <2> QED BY <2>3, <2>4, <2>5, <2>6, <2>7, <2>8
<1>5. k \in T
  <2>1. 0 \in T /\ \A m \in Nat : m \in T => m + 1 \in T
    <3> HIDE DEF P
    <3> QED BY <1>3, <1>4
  <2> HIDE DEF T
  <2> QED BY <2>1, Induction
<1> QED BY <1>2, <1>5

\* The blocks are in order, and each of them is.
BlocksAscend(e, k) ==
  \A j, l \in 1 .. k : \A i \in 1 .. Len(e[j]), h \in 1 .. Len(e[l]) :
    j < l \/ (j = l /\ i <= h) => e[j][i] <= e[l][h]

\* Where an event of a block is in the concatenation.
LEMMA EventAt ==
  ASSUME NEW e \in Seq(Seq(Nat)), NEW k \in 0 .. Len(e), NEW j \in 1 .. k,
         NEW i \in 1 .. Len(e[j]), NEW n, n = Len(Concat(e, j - 1))
  PROVE  /\ n \in Nat
         /\ n + i \in 1 .. Len(Concat(e, k))
         /\ n + i <= Len(Concat(e, j))
         /\ Concat(e, k)[n + i] = e[j][i]
<1>1. j - 1 \in Nat /\ j \in 0 .. k /\ (j - 1) + 1 = j /\ k \in Nat /\ j \in Nat
  <2>1. Len(e) \in Nat
    OBVIOUS
  <2>2. k \in Nat
    BY <2>1
  <2> QED BY <2>2
<1>2. e[j] \in Seq(Nat) /\ \A l \in 1 .. j : e[l] \in Seq(Nat)
  BY <1>1
<1>3. PICK x : x = Concat(e, j - 1)
  OBVIOUS
<1>4. PICK y : y = Concat(e, j)
  OBVIOUS
<1>5. PICK z : z = Concat(e, k)
  OBVIOUS
<1>6. x \in Seq(Nat) /\ y = x \o e[j]
  <2>1. \A l \in 1 .. (j - 1) + 1 : e[l] \in Seq(Nat)
    BY <1>1, <1>2
  <2>2. /\ Concat(e, j - 1) \in Seq(Nat)
        /\ Concat(e, (j - 1) + 1) = Concat(e, j - 1) \o e[(j - 1) + 1]
    BY <1>1, <2>1, ConcatNext
  <2> QED BY <1>1, <1>3, <1>4, <2>2
<1>7. y \in Seq(Nat) /\ z \in Seq(Nat) /\ IsPrefix(y, z)
  BY <1>1, <1>4, <1>5, ConcatOf
<1>8. /\ n \in Nat /\ n = Len(x) /\ Len(y) = n + Len(e[j])
      /\ y[n + i] = e[j][i] /\ n + i \in 1 .. Len(y)
  BY <1>2, <1>3, <1>6
<1>9. Len(y) <= Len(z) /\ \A m \in 1 .. Len(y) : y[m] = z[m]
  <2>1. Len(y) <= Len(z) /\ SubSeq(y, 1, Len(y)) = SubSeq(z, 1, Len(y))
    BY <1>7 DEF IsPrefix
  <2>2. ASSUME NEW m \in 1 .. Len(y) PROVE y[m] = z[m]
    <3>1. Len(y) \in Nat /\ Len(z) \in Nat
      BY <1>7
    <3>2. SubSeq(y, 1, Len(y))[m] = y[m]
      BY <1>7, <3>1
    <3>3. SubSeq(z, 1, Len(y))[m] = z[m]
      BY <1>7, <2>1, <3>1
    <3> QED BY <2>1, <3>2, <3>3
  <2> QED BY <2>1, <2>2
<1>10. n + i \in 1 .. Len(z) /\ z[n + i] = e[j][i]
  <2>1. Len(y) \in Nat /\ Len(z) \in Nat
    BY <1>7
  <2>2. z[n + i] = y[n + i]
    BY <1>8, <1>9
  <2>3. n + i \in 1 .. Len(z)
    BY <1>8, <1>9, <2>1
  <2> QED BY <1>8, <2>2, <2>3
<1> QED BY <1>4, <1>5, <1>8, <1>10

LEMMA BlocksInOrder ==
  ASSUME NEW e \in Seq(Seq(Nat)), NEW k \in 0 .. Len(e), Ascends(Concat(e, k))
  PROVE  BlocksAscend(e, k)
<1> SUFFICES ASSUME NEW j \in 1 .. k, NEW l \in 1 .. k,
                    NEW i \in 1 .. Len(e[j]), NEW h \in 1 .. Len(e[l]),
                    j < l \/ (j = l /\ i <= h)
             PROVE  e[j][i] <= e[l][h]
  BY DEF BlocksAscend
<1>1. PICK n : n = Len(Concat(e, j - 1))
  OBVIOUS
<1>2. PICK m : m = Len(Concat(e, l - 1))
  OBVIOUS
<1>3. PICK z : z = Concat(e, k)
  OBVIOUS
<1>4. /\ n \in Nat /\ n + i \in 1 .. Len(z) /\ n + i <= Len(Concat(e, j))
      /\ z[n + i] = e[j][i]
  BY <1>1, <1>3, EventAt
<1>5. m \in Nat /\ m + h \in 1 .. Len(z) /\ z[m + h] = e[l][h]
  BY <1>2, <1>3, EventAt
<1>6. n + i <= m + h
  <2>0. k \in Nat /\ i \in Nat /\ h \in Nat /\ h >= 1
    <3>1. Len(e) \in Nat
      OBVIOUS
    <3>2. k \in Nat
      BY <3>1
    <3>3. e[j] \in Seq(Nat) /\ e[l] \in Seq(Nat)
      BY <3>2
    <3> QED BY <3>2, <3>3
  <2>1. CASE j = l
    BY <1>1, <1>2, <1>4, <1>5, <2>0, <2>1
  <2>2. CASE j < l
    <3>1. j \in 0 .. l - 1 /\ l - 1 \in 0 .. Len(e)
      BY <2>0, <2>2
    <3>2. PICK x : x = Concat(e, j)
      OBVIOUS
    <3>3. PICK y : y = Concat(e, l - 1)
      OBVIOUS
    <3>4. x \in Seq(Nat) /\ y \in Seq(Nat) /\ IsPrefix(x, y)
      BY <3>1, <3>2, <3>3, ConcatOf
    <3>5. Len(x) <= Len(y) /\ Len(x) \in Nat /\ Len(y) \in Nat
      BY <3>4 DEF IsPrefix
    <3> QED BY <1>2, <1>4, <1>5, <2>0, <3>2, <3>3, <3>5
  <2> QED BY <2>1, <2>2
<1>7. Ascends(z)
  BY <1>3
<1> QED BY <1>4, <1>5, <1>6, <1>7 DEF Ascends

\* The partition point of the directory.
LEMMA FirstBlockIs ==
  ASSUME NEW b, NEW n \in Nat, Len(b) = n, NEW lo \in Nat,
         \A j \in 1 .. n : b[j].max \in Nat,
         NEW f, f = FirstBlock(b, lo)
  PROVE  /\ f \in 1 .. n + 1
         /\ \A j \in 1 .. f - 1 : b[j].max < lo
<1> DEFINE T == {m \in Nat : m >= 1 /\ (m <= n => b[m].max >= lo)}
           Point(m) == /\ \A j \in 1 .. m - 1 : b[j].max < lo
                       /\ m <= Len(b) => b[m].max >= lo
<1>1. n + 1 \in T
  OBVIOUS
<1>2. PICK m \in T : \A l \in T : m <= l
  <2>1. T \subseteq Nat /\ T # {}
    BY <1>1
  <2> HIDE DEF T
  <2> QED BY <2>1, LeastElement
<1>3. m \in 1 .. n + 1
  <2>1. m <= n + 1
    <3> HIDE DEF T
    <3> QED BY <1>1, <1>2
  <2> QED BY <2>1
<1>4. ASSUME NEW j \in 1 .. m - 1 PROVE b[j].max < lo
  <2>1. j \in 1 .. n /\ j < m
    BY <1>3
  <2>2. j \notin T
    <3> SUFFICES ASSUME j \in T PROVE FALSE
      OBVIOUS
    <3>1. m <= j
      <4> HIDE DEF T
      <4> QED BY <1>2
    <3> QED BY <1>3, <2>1, <3>1
  <2>3. ~ (b[j].max >= lo)
    BY <2>1, <2>2
  <2>4. b[j].max \in Nat
    BY <2>1
  <2> QED BY <2>3, <2>4
<1>5. m \in 1 .. Len(b) + 1 /\ Point(m)
  BY <1>3, <1>4
<1>6. f = CHOOSE l \in 1 .. Len(b) + 1 : Point(l)
  BY DEF FirstBlock
<1>7. f \in 1 .. Len(b) + 1 /\ Point(f)
  <2> HIDE DEF Point
  <2> QED BY <1>5, <1>6
<1> QED BY <1>7

\* The visited blocks are those from a to a + v; the others hold nothing in
\* the range.
LEMMA RangeIs ==
  ASSUME NEW d, NEW w, NEW c, NEW e, CutInto(w, c, e), Remains(d, w),
         EndsOpen(w, e) \/ EndsSealed(w, c, e),
         NEW k \in 0 .. Len(e), Leading(d, k), Lists(d, e, k),
         Ascends(Concat(e, k)), NEW lo \in Nat, NEW hi \in Nat
  PROVE  ScanMonoRange(d, lo, hi) = Within(Concat(e, k), lo, hi)
<1>1. /\ k \in Nat /\ Len(e) \in Nat /\ k <= Len(e) /\ e \in Seq(Seq(Nat))
      /\ \A j \in 1 .. k : BlockIs(w, c, j, e[j])
  <2>1. Len(e) \in Nat /\ e \in Seq(Seq(Nat))
    BY DEF CutInto
  <2>2. k \in Nat /\ k <= Len(e)
    BY <2>1
  <2> QED BY <2>1, <2>2 DEF CutInto
<1>2. BlocksAscend(e, k)
  BY <1>1, BlocksInOrder
<1>3. PICK b : b = Blocks(d)
  OBVIOUS
<1>4. Len(b) = k /\ DOMAIN b = 1 .. k /\ \A j \in 1 .. k : b[j] = Entry(2 * j - 1, e[j])
  BY <1>3 DEF Lists
<1>5. ASSUME NEW j \in 1 .. k
      PROVE  /\ e[j] \in Seq(Nat) /\ Len(e[j]) \in Nat
             /\ 1 \in 1 .. Len(e[j]) /\ Len(e[j]) \in 1 .. Len(e[j])
             /\ b[j].offset = 2 * j - 1
             /\ b[j].min = e[j][1] /\ b[j].max = e[j][Len(e[j])]
             /\ b[j].min \in Nat /\ b[j].max \in Nat
  <2>1. e[j] \in Seq(Nat) /\ e[j] # <<>>
    BY <1>1 DEF BlockIs
  <2>2. Len(e[j]) \in Nat /\ 1 \in 1 .. Len(e[j]) /\ Len(e[j]) \in 1 .. Len(e[j])
    BY <2>1
  <2>3. b[j] = Entry(2 * j - 1, e[j])
    BY <1>4
  <2>4. /\ b[j].offset = 2 * j - 1
        /\ b[j].min = e[j][1] /\ b[j].max = e[j][Len(e[j])]
    BY <2>1, <2>3 DEF Entry, Last
  <2>5. e[j][1] \in Nat /\ e[j][Len(e[j])] \in Nat
    BY <2>1, <2>2
  <2> QED BY <2>1, <2>2, <2>4, <2>5
<1>6. ASSUME NEW j \in 1 .. k, NEW i \in 1 .. Len(e[j])
      PROVE  e[j][i] \in Nat /\ b[j].min <= e[j][i] /\ e[j][i] <= b[j].max
  <2>1. i \in Nat /\ 1 <= i /\ i <= Len(e[j]) /\ e[j][i] \in Nat
    BY <1>5
  <2>2. e[j][1] <= e[j][i] /\ e[j][i] <= e[j][Len(e[j])]
    BY <1>2, <1>5, <2>1 DEF BlocksAscend
  <2> QED BY <1>5, <2>1, <2>2
<1>7. PICK g : g = [j \in 1 .. k |-> Within(e[j], lo, hi)]
  OBVIOUS
<1>8. Within(Concat(e, k), lo, hi) = Concat(g, k) /\ Sequences(Nat, g, k)
  <2>1. Filters(g, e, k, lo, hi)
    BY <1>7 DEF Filters
  <2> QED BY <1>1, <2>1, WithinConcat
<1>9. PICK f : f = FirstBlock(b, lo)
  OBVIOUS
<1>10. /\ f \in 1 .. k + 1
       /\ \A j \in 1 .. f - 1 : b[j].max < lo
  BY <1>1, <1>4, <1>5, <1>9, FirstBlockIs
<1>11. PICK reached : reached = SubSeq(b, f, Len(b))
  OBVIOUS
<1>12. PICK stop : stop = {j \in DOMAIN reached : reached[j].min > hi}
  OBVIOUS
<1>13. PICK m : m = CHOOSE j \in stop : \A i \in stop : j <= i
  OBVIOUS
<1>14. PICK visited : visited = IF stop = {} THEN reached ELSE SubSeq(reached, 1, m - 1)
  OBVIOUS
<1>15. ScanMonoRange(d, lo, hi) =
         FlattenSeq([j \in Decoded(d, visited) |->
                       Yielded(visited[j], d[visited[j].offset + 2].events, lo, hi)])
  BY <1>3, <1>9, <1>11, <1>12, <1>13, <1>14 DEF ScanMonoRange
<1>16. PICK a \in Nat : a = f - 1
  BY <1>10
<1>17. /\ a <= k /\ f = a + 1 /\ f <= k + 1 /\ k - a \in Nat
  BY <1>1, <1>10, <1>16
<1>18. /\ DOMAIN reached = 1 .. k - a
       /\ \A j \in 1 .. k - a : reached[j] = b[a + j]
  <2>1. b \in Seq(EntrySet)
    BY <1>3 DEF Lists
  <2>2. reached = SubSeq(b, a + 1, k)
    BY <1>4, <1>11, <1>17
  <2> QED BY <1>1, <1>4, <1>17, <2>1, <2>2
<1>19. PICK v \in 0 .. k - a :
         /\ DOMAIN visited = 1 .. v
         /\ \A j \in 1 .. v : visited[j] = b[a + j]
         /\ \A j \in v + 1 .. k - a : b[a + j].min > hi
  <2>1. CASE stop = {}
    <3>1. visited = reached
      BY <1>14, <2>1
    <3>2. k - a \in 0 .. k - a
      BY <1>17
    <3>3. \A j \in (k - a) + 1 .. k - a : b[a + j].min > hi
      BY <1>17
    <3> QED BY <1>18, <3>1, <3>2, <3>3
  <2>2. CASE stop # {}
    <3>1. stop \subseteq Nat
      BY <1>12, <1>17, <1>18
    <3>2. \E j \in stop : \A i \in stop : j <= i
      BY <2>2, <3>1, LeastElement
    <3>4. m \in stop /\ \A i \in stop : m <= i
      BY <1>13, <3>2
    <3>5. m \in 1 .. k - a /\ reached[m].min > hi /\ m - 1 \in 0 .. k - a
      BY <1>12, <1>17, <1>18, <3>4
    <3>6. visited = SubSeq(reached, 1, m - 1)
      BY <1>14, <2>2
    <3>7. DOMAIN visited = 1 .. m - 1 /\ \A j \in 1 .. m - 1 : visited[j] = b[a + j]
      <4>1. reached \in Seq(EntrySet)
        <5>1. b \in Seq(EntrySet)
          BY <1>3 DEF Lists
        <5> QED BY <1>1, <1>4, <1>11, <1>17, <5>1
      <4>2. Len(reached) = k - a
        BY <1>17, <1>18, <4>1
      <4>3. DOMAIN visited = 1 .. m - 1 /\ \A j \in 1 .. m - 1 : visited[j] = reached[j]
        BY <3>5, <3>6, <4>1, <4>2
      <4>4. \A j \in 1 .. m - 1 : j \in 1 .. k - a
        BY <1>17, <3>5
      <4> QED BY <1>18, <4>3, <4>4
    <3>8. ASSUME NEW j \in (m - 1) + 1 .. k - a PROVE b[a + j].min > hi
      <4>1. /\ j \in 1 .. k - a /\ m <= j
            /\ a + m \in 1 .. k /\ a + j \in 1 .. k /\ a + m <= a + j
        BY <1>1, <1>17, <3>5
      <4>2. b[a + m].min > hi
        BY <1>18, <3>5
      <4>3. b[a + m].min <= b[a + j].min
        <5>1. CASE m = j
          BY <1>5, <4>1, <5>1
        <5>2. CASE m # j
          <6>1. a + m < a + j
            BY <1>1, <1>17, <3>5, <4>1, <5>2
          <6>2. e[a + m][1] <= e[a + j][1]
            BY <1>2, <1>5, <4>1, <6>1 DEF BlocksAscend
          <6> QED BY <1>5, <4>1, <6>2
        <5> QED BY <5>1, <5>2
      <4>4. b[a + m].min \in Nat /\ b[a + j].min \in Nat
        BY <1>5, <4>1
      <4> QED BY <4>2, <4>3, <4>4
    <3> QED BY <3>5, <3>7, <3>8
  <2> QED BY <2>1, <2>2
<1>20. v \in Nat /\ a + v <= k /\ \A j \in 1 .. v : a + j \in 1 .. k
  BY <1>1, <1>17
<1>21. Decoded(d, visited) = 1 .. v
  <2>1. ASSUME NEW i \in 1 .. v PROVE BlockAt(d, visited[i].offset)
    <3>1. a + i \in 1 .. k /\ visited[i] = b[a + i]
      BY <1>19, <1>20
    <3>2. visited[i].offset = 2 * (a + i) - 1
      BY <1>5, <3>1
    <3> QED BY <3>1, <3>2 DEF Leading
  <2>2. ASSUME NEW j \in 1 .. v PROVE \A i \in 1 .. j : BlockAt(d, visited[i].offset)
    <3> SUFFICES ASSUME NEW i \in 1 .. j PROVE BlockAt(d, visited[i].offset)
      OBVIOUS
    <3>1. i \in 1 .. v
      BY <1>20
    <3> QED BY <2>1, <3>1
  <2> QED BY <1>19, <2>2 DEF Decoded
<1>22. PICK h : h = [j \in 1 .. v |-> g[a + j]]
  OBVIOUS
<1>23. ASSUME NEW j \in 1 .. v
       PROVE  Yielded(visited[j], d[visited[j].offset + 2].events, lo, hi) = h[j]
  <2>1. PICK l : l = a + j
    OBVIOUS
  <2>2. l \in 1 .. k /\ l \in Nat \ {0} /\ visited[j] = b[l]
    BY <1>1, <1>19, <1>20, <2>1
  <2>3. d[visited[j].offset + 2].events = e[l]
    <3>1. BlockAt(d, 2 * l - 1)
      BY <2>2 DEF Leading
    <3>2. d[2 * l + 1] = BodyOf(e[l])
      BY <2>2, <3>1, BlockWritten
    <3>3. visited[j].offset + 2 = 2 * l + 1
      BY <1>5, <2>2
    <3> QED BY <3>2, <3>3, PieceKinds
  <2>4. h[j] = Within(e[l], lo, hi)
    BY <1>7, <1>22, <2>1, <2>2
  <2>5. Yielded(b[l], e[l], lo, hi) = Within(e[l], lo, hi)
    <3>1. CASE b[l].min >= lo /\ b[l].max <= hi
      <4>1. ASSUME NEW i \in 1 .. Len(e[l]) PROVE lo <= e[l][i] /\ e[l][i] <= hi
        <5>1. e[l][i] \in Nat /\ b[l].min <= e[l][i] /\ e[l][i] <= b[l].max
          BY <1>6, <2>2
        <5>2. b[l].min \in Nat /\ b[l].max \in Nat
          BY <1>5, <2>2
        <5> QED BY <3>1, <5>1, <5>2
      <4>2. e[l] \in Seq(Nat)
        BY <1>5, <2>2
      <4>3. Within(e[l], lo, hi) = e[l]
        BY <4>1, <4>2, WithinAll
      <4> QED BY <3>1, <4>3 DEF Yielded
    <3>2. CASE ~ (b[l].min >= lo /\ b[l].max <= hi)
      BY <3>2 DEF Yielded
    <3> QED BY <3>1, <3>2
  <2> QED BY <2>2, <2>3, <2>4, <2>5
<1>24. ScanMonoRange(d, lo, hi) = Concat(h, v)
  <2>1. [j \in Decoded(d, visited) |->
           Yielded(visited[j], d[visited[j].offset + 2].events, lo, hi)]
          = [j \in 1 .. v |-> h[j]]
    BY <1>21, <1>23
  <2> QED BY <1>15, <2>1 DEF Concat
<1>25. ASSUME NEW j \in 1 .. k, b[j].max < lo \/ b[j].min > hi PROVE g[j] = <<>>
  <2>1. \A i \in 1 .. Len(e[j]) : ~ (lo <= e[j][i] /\ e[j][i] <= hi)
    BY <1>5, <1>6, <1>25
  <2>2. e[j] \in Seq(Nat)
    BY <1>5
  <2>3. Within(e[j], lo, hi) = <<>>
    BY <2>1, <2>2, WithinNone
  <2> QED BY <1>7, <2>3
<1>26. Concat(g, k) = Concat(h, v)
  <2>1. PICK r \in Nat : r = k - (a + v)
    BY <1>1, <1>20
  <2>2. PICK t : t = [j \in 1 .. r |-> g[(a + v) + j]]
    OBVIOUS
  <2>3. Sequences(Nat, g, a) /\ Sequences(Nat, h, v) /\ Joins(g, g, a, h, v)
    <3>1. \A j \in 1 .. a : j \in 1 .. k
      BY <1>1, <1>17
    <3>2. \A j \in 1 .. v : h[j] = g[a + j] /\ a + j \in 1 .. k
      BY <1>20, <1>22
    <3> QED BY <1>8, <3>1, <3>2 DEF Sequences, Joins
  <2>4. Joined(g, g, a, h, v) /\ Concat(h, v) \in Seq(Nat)
    BY <1>20, <2>3, ConcatJoin
  <2>5. PICK q \in Nat : q = a + v
    BY <1>20
  <2>6. Sequences(Nat, g, q) /\ Sequences(Nat, t, r) /\ Joins(g, g, q, t, r)
    <3>1. \A j \in 1 .. q : j \in 1 .. k
      BY <1>1, <1>20, <2>5
    <3>2. \A j \in 1 .. r : t[j] = g[q + j] /\ q + j \in 1 .. k
      BY <1>1, <1>20, <2>1, <2>2, <2>5
    <3> QED BY <1>8, <3>1, <3>2 DEF Sequences, Joins
  <2>7. Joined(g, g, q, t, r)
    BY <2>6, ConcatJoin
  <2>8. Concat(g, a) = <<>>
    <3>1. ASSUME NEW j \in 1 .. a PROVE g[j] = <<>>
      <4>1. j \in 1 .. k /\ j \in 1 .. f - 1
        BY <1>1, <1>16, <1>17
      <4>2. b[j].max < lo
        BY <1>10, <4>1
      <4> QED BY <1>25, <4>1, <4>2
    <3> QED BY <3>1, ConcatNone
  <2>9. Concat(t, r) = <<>>
    <3>1. ASSUME NEW j \in 1 .. r PROVE t[j] = <<>>
      <4>1. v + j \in v + 1 .. k - a /\ a + (v + j) = (a + v) + j /\ (a + v) + j \in 1 .. k
        BY <1>1, <1>17, <1>20, <2>1
      <4>2. b[(a + v) + j].min > hi
        BY <1>19, <4>1
      <4>3. g[(a + v) + j] = <<>>
        BY <1>25, <4>1, <4>2
      <4> QED BY <2>2, <4>3
    <3> QED BY <3>1, ConcatNone
  <2>10. PICK x : x = Concat(h, v)
    OBVIOUS
  <2>11. x \in Seq(Nat)
    BY <2>4, <2>10
  <2>12. <<>> \o x = x /\ x \o <<>> = x
    BY <2>11
  <2>13. Concat(g, q) = x
    BY <2>4, <2>5, <2>8, <2>10, <2>12 DEF Joined
  <2>14. q + r = k
    BY <1>1, <2>1, <2>5
  <2> QED BY <2>7, <2>9, <2>10, <2>12, <2>13, <2>14 DEF Joined
<1> QED BY <1>8, <1>24, <1>26

\* A range scan yields the events of the full scan that lie in the range.
THEOREM RangeScanIsFilterEver == StoreSpec => []RangeScanIsFilter
<1>1. SegmentInv => RangeScanIsFilter
  <2> SUFFICES ASSUME SegmentInv, Down, Opens(disk), ~ScanFails(disk),
                      NEW lo \in 0 .. MaxMono, NEW hi \in 0 .. MaxMono
               PROVE  ScanMonoRange(disk, lo, hi) = Within(Scan(disk), lo, hi)
    BY DEF RangeScanIsFilter
  <2>1. PICK e \in Seq(Seq(Nat)) : SegmentOf(e)
    BY DEF SegmentInv
  <2>2. /\ CutInto(written, dir, e) /\ Remains(disk, written)
        /\ EndsOpen(written, e) \/ EndsSealed(written, dir, e)
    BY <2>1, DownMeans
  <2>3. PICK k \in 0 .. Len(e) : /\ Leading(disk, k)
                                 /\ Lists(disk, e, IF HasFooter(disk) THEN Len(e) ELSE k)
                                 /\ Scan(disk) = Concat(e, k)
                                 /\ ScanFails(disk) <=> HasFooter(disk) /\ k # Len(e)
    BY <2>1, ReaderYields
  <2>4. Lists(disk, e, k)
    BY <2>3
  <2>5. Ascends(Concat(e, k))
    BY <2>1, ReadAscends
  <2>6. lo \in Nat /\ hi \in Nat
    BY SegmentAssumption
  <2>7. ScanMonoRange(disk, lo, hi) = Within(Concat(e, k), lo, hi)
    BY <2>2, <2>3, <2>4, <2>5, <2>6, RangeIs
  <2> QED BY <2>3, <2>7
<1> QED BY <1>1, SegmentInvariant, PTL


-----------------------------------------------------------------------------
(* The block *)

(* Words: numbers that wrap. *)

PowersUpto(f, n) == f = [k \in 0 .. n |-> IF k = 0 THEN 1 ELSE Group * f[k - 1]]

\* The powers of Group, as far as a word reaches.
LEMMA PowersAre ==
  /\ LongestVarint \in Nat \ {0} /\ Group \in Nat /\ Group >= 2
  /\ Power[0] = 1
  /\ \A k \in 0 .. LongestVarint - 1 : Power[k] \in Nat /\ Power[k] >= 1
  /\ \A k \in 1 .. LongestVarint - 1 : Power[k] = Group * Power[k - 1]
<1>1. LongestVarint \in Nat \ {0} /\ Group \in Nat /\ Group >= 2
  BY BlockAssumption
<1> DEFINE T == {n \in Nat : \E f : PowersUpto(f, n)}
<1>2. 0 \in T
  <2> DEFINE f == [k \in 0 .. 0 |-> 1]
  <2>1. PowersUpto(f, 0)
    BY DEF PowersUpto
  <2> QED BY <2>1
<1>3. ASSUME NEW n \in Nat, n \in T PROVE n + 1 \in T
  <2>1. PICK f : PowersUpto(f, n)
    BY <1>3
  <2> DEFINE g == [k \in 0 .. n + 1 |-> IF k = n + 1 THEN Group * f[n] ELSE f[k]]
  <2>2. ASSUME NEW k \in 0 .. n + 1
        PROVE  g[k] = IF k = 0 THEN 1 ELSE Group * g[k - 1]
    <3>1. CASE k = n + 1
      <4>1. g[k] = Group * f[n] /\ g[k - 1] = f[n] /\ k # 0
        BY <3>1
      <4> QED BY <4>1
    <3>2. CASE k # n + 1
      <4>1. k \in 0 .. n /\ g[k] = f[k] /\ (k # 0 => g[k - 1] = f[k - 1])
        BY <3>2
      <4>2. f[k] = IF k = 0 THEN 1 ELSE Group * f[k - 1]
        BY <2>1, <4>1 DEF PowersUpto
      <4> QED BY <4>1, <4>2
    <3> QED BY <3>1, <3>2
  <2>3. PowersUpto(g, n + 1)
    <3>1. g = [k \in 0 .. n + 1 |-> g[k]]
      OBVIOUS
    <3> HIDE DEF g
    <3> QED BY <2>2, <3>1 DEF PowersUpto
  <2> QED BY <2>3
<1>4. LongestVarint - 1 \in T
  <2>1. \A n \in Nat : n \in T
    <3> HIDE DEF T
    <3> QED BY <1>2, <1>3, Induction
  <2> QED BY <1>1, <2>1
<1>5. PowersUpto(Power, LongestVarint - 1)
  <2>1. Power = CHOOSE f : PowersUpto(f, LongestVarint - 1)
    BY DEF Power, PowersUpto
  <2> QED BY <1>4, <2>1
<1>6. Power[0] = 1 /\ \A k \in 1 .. LongestVarint - 1 : Power[k] = Group * Power[k - 1]
  BY <1>1, <1>5 DEF PowersUpto
<1> DEFINE U == {n \in Nat : n <= LongestVarint - 1 => Power[n] \in Nat /\ Power[n] >= 1}
<1>7. 0 \in U
  BY <1>6
<1>8. ASSUME NEW n \in Nat, n \in U PROVE n + 1 \in U
  <2> SUFFICES ASSUME n + 1 <= LongestVarint - 1 PROVE Power[n + 1] \in Nat /\ Power[n + 1] >= 1
    OBVIOUS
  <2>1. Power[n] \in Nat /\ Power[n] >= 1
    BY <1>1, <1>8
  <2>2. Power[n + 1] = Group * Power[n]
    BY <1>1, <1>6
  <2>3. \A a, b \in Nat : a >= 2 /\ b >= 1 => a * b \in Nat /\ a * b >= 1
    OBVIOUS
  <2> QED BY <1>1, <2>1, <2>2, <2>3
<1>9. \A n \in Nat : n \in U
  <2> HIDE DEF U
  <2> QED BY <1>7, <1>8, Induction
<1> QED BY <1>1, <1>6, <1>9

Words == 0 .. Word - 1

\* A word has an even number of values.
LEMMA WordIs == Word \in Nat /\ Word >= 2 /\ \E h \in Nat : h >= 1 /\ Word = 2 * h
<1>1. LongestVarint - 1 \in 0 .. LongestVarint - 1
  BY PowersAre
<1>2. Power[LongestVarint - 1] \in Nat /\ Power[LongestVarint - 1] >= 1
  BY <1>1, PowersAre
<1> QED BY <1>2 DEF Word

\* Division by a positive number.
LEMMA RemainderIs ==
  ASSUME NEW x \in Int, NEW w \in Nat, w >= 1, NEW q \in Int, NEW r \in Int,
         x = q * w + r, 0 <= r, r < w
  PROVE  x % w = r
  OBVIOUS

\* What Wrap makes of a sum or a difference of two words.
LEMMA WrapIs ==
  ASSUME NEW x \in Int
  PROVE  /\ x \in Words => Wrap(x) = x
         /\ x \in (- Word) .. (- 1) => Wrap(x) = x + Word
         /\ x \in Word .. (2 * Word - 1) => Wrap(x) = x - Word
<1>1. Word \in Nat /\ Word >= 1
  BY WordIs
<1> DEFINE w == Word
<1> HIDE DEF w
<1>2. w \in Nat /\ w >= 1
  BY <1>1 DEF w
<1>3. x \in 0 .. w - 1 => x % w = x
  <2>1. x = 0 * w + x
    BY <1>2
  <2> QED BY <1>2, <2>1, RemainderIs
<1>4. x \in (- w) .. (- 1) => x % w = x + w
  <2>1. x = (-1) * w + (x + w) /\ x + w \in Int
    BY <1>2
  <2> QED BY <1>2, <2>1, RemainderIs
<1>5. x \in w .. (2 * w - 1) => x % w = x - w
  <2>1. x = 1 * w + (x - w) /\ x - w \in Int
    BY <1>2
  <2> QED BY <1>2, <2>1, RemainderIs
<1> QED BY <1>3, <1>4, <1>5 DEF w, Words, Wrap

\* A difference that wraps, added again.
LEMMA DifferenceIs ==
  ASSUME NEW x \in Words, NEW y \in Words
  PROVE  Wrap(x - y) \in Words /\ Wrap(y + Wrap(x - y)) = x
<1>1. Word \in Nat /\ Word >= 2 /\ x \in Int /\ y \in Int
  BY WordIs DEF Words
<1>2. CASE x >= y
  <2>1. Wrap(x - y) = x - y
    <3>1. x - y \in Words
      BY <1>1, <1>2 DEF Words
    <3> QED BY <1>1, <3>1, WrapIs
  <2>2. y + (x - y) = x
    BY <1>1
  <2> QED BY <1>1, <1>2, <2>1, <2>2, WrapIs DEF Words
<1>3. CASE x < y
  <2>1. Wrap(x - y) = x - y + Word
    <3>1. x - y \in (- Word) .. (- 1) /\ x - y \in Int
      BY <1>1, <1>3 DEF Words
    <3> QED BY <3>1, WrapIs
  <2>2. y + (x - y + Word) = x + Word
    BY <1>1
  <2>3. Wrap(x + Word) = x
    <3>1. x + Word \in Word .. (2 * Word - 1) /\ x + Word \in Int /\ (x + Word) - Word = x
      BY <1>1 DEF Words
    <3> QED BY <3>1, WrapIs
  <2> QED BY <1>1, <1>3, <2>1, <2>2, <2>3 DEF Words
<1> QED BY <1>1, <1>2, <1>3

\* Zig-zag loses nothing, at the ends of the signed range as well.
LEMMA ZigzagIs ==
  ASSUME NEW u \in Words
  PROVE  Zigzag(u) \in Words /\ Unzigzag(Zigzag(u)) = u
<1>1. PICK h \in Nat : h >= 1 /\ Word = 2 * h
  BY WordIs
<1>2. u \in Int /\ 0 <= u /\ u < 2 * h
  BY <1>1 DEF Words
<1>3. CASE u < h
  <2>1. Signed(u) = u /\ Zigzag(u) = 2 * u
    BY <1>1, <1>2, <1>3 DEF Signed, Zigzag
  <2>2. (2 * u) % 2 = 0 /\ (2 * u) \div 2 = u
    BY <1>2
  <2> QED BY <1>1, <1>2, <1>3, <2>1, <2>2 DEF Unzigzag, Words
<1>4. CASE u >= h
  <2>1. Signed(u) = u - 2 * h /\ Signed(u) < 0
    BY <1>1, <1>2, <1>4 DEF Signed
  <2>2. Zigzag(u) = 2 * (2 * h - u) - 1
    BY <1>1, <1>2, <2>1 DEF Zigzag
  <2> DEFINE z == 2 * (2 * h - u) - 1
  <2>3. z \in Int /\ z % 2 # 0 /\ (z + 1) \div 2 = 2 * h - u /\ 0 <= z /\ z < 2 * h
    BY <1>1, <1>2, <1>4
  <2> HIDE DEF z
  <2>4. Unzigzag(z) = Wrap(-((z + 1) \div 2))
    BY <2>3 DEF Unzigzag
  <2>5. -((z + 1) \div 2) = u - 2 * h
    BY <1>2, <2>3
  <2>6. Wrap(u - 2 * h) = u
    <3>1. u - 2 * h \in (- Word) .. (- 1) /\ u - 2 * h \in Int /\ (u - 2 * h) + Word = u
      BY <1>1, <1>2
    <3> QED BY <3>1, WrapIs
  <2> QED BY <1>1, <2>2, <2>3, <2>4, <2>5, <2>6 DEF z, Words
<1> QED BY <1>2, <1>3, <1>4

(* Varints. *)

Bytes == 0 .. 2 * Group - 1

\* s is in b from pos on.
Holds(b, pos, s) ==
  /\ pos + Len(s) - 1 <= Len(b)
  /\ \A i \in 1 .. Len(s) : b[pos + (i - 1)] = s[i]

\* The groups of a word: the lowest one, and what remains above it.
LEMMA GroupDivides ==
  ASSUME NEW v \in Nat
  PROVE  /\ v \div Group \in Nat /\ v % Group \in 0 .. Group - 1
         /\ v = Group * (v \div Group) + (v % Group)
         /\ v >= Group => v \div Group < v
<1>1. Group \in Nat /\ Group >= 2
  BY PowersAre
<1> DEFINE g == Group
<1> HIDE DEF g
<1>2. g \in Nat /\ g >= 2
  BY <1>1 DEF g
<1>3. v \div g \in Nat /\ v % g \in 0 .. g - 1 /\ v = g * (v \div g) + (v % g)
  BY <1>2
<1>4. v >= g => v \div g < v
  <2>1. \A q, r \in Nat : g * q + r >= g => q < g * q + r
    <3> SUFFICES ASSUME NEW q \in Nat, NEW r \in Nat, g * q + r >= g PROVE q < g * q + r
      OBVIOUS
    <3>1. g * q >= 2 * q
      BY <1>2
    <3> QED BY <1>2, <3>1
  <2> QED BY <1>3, <2>1
<1> QED BY <1>3, <1>4 DEF g

PutsUpto(f, n) ==
  f = [v \in 0 .. n |-> IF v < Group THEN <<v>> ELSE <<Group + (v % Group)>> \o f[v \div Group]]

\* put_uvarint is defined for every word.
LEMMA PutIs ==
  \A v \in Words :
    PutUvarint[v] = IF v < Group THEN <<v>>
                    ELSE <<Group + (v % Group)>> \o PutUvarint[v \div Group]
<1> DEFINE T == {n \in Nat : \E f : PutsUpto(f, n)}
<1>1. Group \in Nat /\ Group >= 2
  BY PowersAre
<1>2. 0 \in T
  <2> DEFINE f == [v \in 0 .. 0 |-> <<v>>]
  <2>1. PutsUpto(f, 0)
    <3>1. \A v \in 0 .. 0 : v < Group
      BY <1>1
    <3> QED BY <3>1 DEF PutsUpto
  <2> QED BY <2>1
<1>3. ASSUME NEW n \in Nat, n \in T PROVE n + 1 \in T
  <2>1. PICK f : PutsUpto(f, n)
    BY <1>3
  <2> DEFINE Put(h, v) == IF v < Group THEN <<v>> ELSE <<Group + (v % Group)>> \o h[v \div Group]
             x == Put(f, n + 1)
             g == [v \in 0 .. n + 1 |-> IF v = n + 1 THEN x ELSE f[v]]
  <2>2. ASSUME NEW v \in 0 .. n + 1 PROVE g[v] = Put(g, v)
    <3>1. v >= Group => v \div Group \in 0 .. n /\ g[v \div Group] = f[v \div Group]
      <4> SUFFICES ASSUME v >= Group PROVE v \div Group \in 0 .. n
        BY <1>3
      <4>1. v \div Group \in Nat /\ v \div Group < v
        BY GroupDivides
      <4> QED BY <4>1
    <3>2. Put(g, v) = Put(f, v)
      <4>1. CASE v < Group
        BY <4>1
      <4>2. CASE ~ (v < Group)
        <5>1. v >= Group
          BY <1>1, <4>2
        <5>2. g[v \div Group] = f[v \div Group]
          BY <3>1, <5>1
        <5> HIDE DEF g
        <5> QED BY <4>2, <5>2
      <4> QED BY <4>1, <4>2
    <3>3. CASE v = n + 1
      BY <3>2, <3>3
    <3>4. CASE v # n + 1
      <4>1. v \in 0 .. n /\ g[v] = f[v]
        BY <3>4
      <4>2. f[v] = Put(f, v)
        BY <2>1, <4>1 DEF PutsUpto
      <4> HIDE DEF Put
      <4> QED BY <3>2, <4>1, <4>2
    <3> QED BY <3>3, <3>4
  <2>3. PutsUpto(g, n + 1)
    <3>1. g = [v \in 0 .. n + 1 |-> g[v]]
      OBVIOUS
    <3> HIDE DEF g
    <3> QED BY <2>2, <3>1, Zenon DEF PutsUpto
  <2> QED BY <2>3
<1>4. PutsUpto(PutUvarint, Word - 1)
  <2>1. \A n \in Nat : n \in T
    <3> HIDE DEF T
    <3> QED BY <1>2, <1>3, Induction
  <2>2. Word - 1 \in T
    BY <2>1, WordIs
  <2>3. PutUvarint = CHOOSE f : PutsUpto(f, Word - 1)
    BY DEF PutUvarint, PutsUpto
  <2> QED BY <2>2, <2>3
<1> QED BY <1>4 DEF PutsUpto, Words

\* Every byte but the last says that another follows.
IsVarint(p) ==
  /\ p \in Seq(Bytes) /\ Len(p) >= 1
  /\ p[Len(p)] < Group /\ \A i \in 1 .. Len(p) - 1 : p[i] >= Group

\* A longer varint by its first byte and the rest.
IsOneMore(p, x, r) ==
  Len(p) = Len(r) + 1 /\ p[1] = x /\ \A i \in 1 .. Len(r) : p[i + 1] = r[i]

\* The bytes of v are one byte and then those of v \div Group.
LEMMA PutMore ==
  ASSUME NEW v \in Words, v >= Group, IsVarint(PutUvarint[v \div Group])
  PROVE  /\ IsVarint(PutUvarint[v])
         /\ IsOneMore(PutUvarint[v], Group + (v % Group), PutUvarint[v \div Group])
<1>1. v \in Nat /\ Group \in Nat /\ Group >= 2 /\ Word \in Nat
  BY PowersAre, WordIs DEF Words
<1>2. PICK r : r = PutUvarint[v \div Group]
  OBVIOUS
<1>3. PICK x : x = Group + (v % Group)
  OBVIOUS
<1>4. PICK p : p = PutUvarint[v]
  OBVIOUS
<1>5. p = <<x>> \o r
  <2>1. ~ (v < Group)
    BY <1>1
  <2> QED BY <1>2, <1>3, <1>4, <2>1, PutIs
<1>6. x \in Bytes /\ x >= Group
  <2>1. v % Group \in 0 .. Group - 1
    BY <1>1, GroupDivides
  <2> QED BY <1>1, <1>3, <2>1 DEF Bytes
<1>7. r \in Seq(Bytes) /\ Len(r) \in Nat /\ Len(r) >= 1
  BY <1>2 DEF IsVarint
<1>8. p \in Seq(Bytes) /\ IsOneMore(p, x, r)
  BY <1>5, <1>6, <1>7 DEF IsOneMore
<1>9. p[Len(p)] < Group
  <2>1. Len(r) \in 1 .. Len(r) /\ Len(p) = Len(r) + 1
    BY <1>7, <1>8 DEF IsOneMore
  <2>2. r[Len(r)] < Group
    BY <1>2 DEF IsVarint
  <2> QED BY <1>8, <2>1, <2>2 DEF IsOneMore
<1>10. ASSUME NEW i \in 1 .. Len(p) - 1 PROVE p[i] >= Group
  <2>1. CASE i = 1
    BY <1>6, <1>8, <2>1 DEF IsOneMore
  <2>2. CASE i # 1
    <3>1. i - 1 \in 1 .. Len(r) - 1 /\ i - 1 \in 1 .. Len(r) /\ (i - 1) + 1 = i
      BY <1>7, <1>8, <2>2 DEF IsOneMore
    <3>2. r[i - 1] >= Group
      BY <1>2, <3>1 DEF IsVarint
    <3>3. p[(i - 1) + 1] = r[i - 1]
      BY <1>8, <3>1 DEF IsOneMore
    <3> QED BY <3>1, <3>2, <3>3
  <2> QED BY <2>1, <2>2
<1>11. Len(p) >= 1
  BY <1>7, <1>8 DEF IsOneMore
<1> QED BY <1>2, <1>3, <1>4, <1>8, <1>9, <1>10, <1>11 DEF IsVarint

\* A property of the words that passes from v \div Group to v holds for all.
LEMMA DownToOneByte ==
  ASSUME NEW S,
         \A v \in Words : v < Group => v \in S,
         \A v \in Words : v >= Group /\ v \div Group \in Words /\ v \div Group \in S => v \in S
  PROVE  \A v \in Words : v \in S
<1> SUFFICES ASSUME NEW x \in Words, x \notin S PROVE FALSE
  OBVIOUS
<1>1. Group \in Nat /\ Group >= 2 /\ Word \in Nat
  BY PowersAre, WordIs
<1> DEFINE T == {v \in Words : v \notin S}
<1>2. T \subseteq Nat /\ T # {}
  BY <1>1 DEF Words
<1>3. PICK m \in T : \A k \in T : m <= k
  <2> HIDE DEF T
  <2> QED BY <1>2, LeastElement
<1>4. m \in Nat /\ m \in Words /\ m < Word /\ m \notin S
  BY <1>1, <1>3 DEF Words
<1>5. m >= Group
  <2>1. ~ (m < Group)
    BY <1>4
  <2> QED BY <1>1, <1>4, <2>1
<1>6. m \div Group \in Nat /\ m \div Group < m
  BY <1>4, <1>5, GroupDivides
<1>7. m \div Group \in Words /\ m \div Group \notin T
  BY <1>1, <1>3, <1>4, <1>6 DEF Words
<1>8. m \div Group \in S
  BY <1>7
<1> QED BY <1>4, <1>5, <1>7, <1>8

\* A word of one group is one byte.
LEMMA PutLess ==
  ASSUME NEW v \in Words, v < Group
  PROVE  /\ IsVarint(PutUvarint[v])
         /\ Len(PutUvarint[v]) = 1 /\ PutUvarint[v][1] = v
<1>1. PutUvarint[v] = <<v>>
  BY PutIs
<1>2. v \in Bytes
  BY PowersAre, WordIs DEF Words, Bytes
<1>3. PICK p : p = <<v>>
  OBVIOUS
<1>4. p \in Seq(Bytes) /\ Len(p) = 1 /\ p[1] = v
  BY <1>2, <1>3
<1> QED BY <1>1, <1>3, <1>4 DEF IsVarint

\* put_uvarint: every byte but the last has the mark that more follow.
LEMMA VarintIs == \A v \in Words : IsVarint(PutUvarint[v])
<1> DEFINE S == {v \in Words : IsVarint(PutUvarint[v])}
<1>1. \A v \in Words : v < Group => v \in S
  BY PutLess
<1>2. \A v \in Words : v >= Group /\ v \div Group \in Words /\ v \div Group \in S => v \in S
  BY PutMore
<1> HIDE DEF S
<1>3. \A v \in Words : v \in S
  BY <1>1, <1>2, DownToOneByte
<1> QED BY <1>3 DEF S

\* A word takes at most LongestVarint bytes, and then the last of them is a bit.
Fits(v, k) ==
  /\ Len(PutUvarint[v]) <= k + 1
  /\ Len(PutUvarint[v]) = k + 1 => PutUvarint[v][k + 1] <= 1

\* No word takes more bytes than the longest varint, whose last byte is one bit.
LEMMA VarintFits == \A v \in Words : Fits(v, LongestVarint - 1)
<1>1. /\ Group \in Nat /\ Group >= 2 /\ LongestVarint \in Nat \ {0} /\ Word \in Nat
      /\ Word = 2 * Power[LongestVarint - 1]
  BY PowersAre, WordIs DEF Word
<1> DEFINE P(k) == \A v \in Words : v < 2 * Power[k] => Fits(v, k)
           T == {k \in Nat : k <= LongestVarint - 1 => P(k)}
<1>2. ASSUME NEW k \in Nat, k <= LongestVarint - 1,
             NEW v \in Words, v < Group, k = 0 => v <= 1
      PROVE  Fits(v, k)
  <2>1. Len(PutUvarint[v]) = 1 /\ PutUvarint[v][1] = v
    BY <1>2, PutLess
  <2>2. v \in Nat
    BY <1>1 DEF Words
  <2> QED BY <1>2, <2>1, <2>2 DEF Fits
<1>3. 0 \in T
  <2> SUFFICES ASSUME NEW v \in Words, v < 2 * Power[0], 0 <= LongestVarint - 1 PROVE Fits(v, 0)
    OBVIOUS
  <2>1. v \in Nat /\ v <= 1 /\ v < Group
    <3>1. Power[0] = 1 /\ v \in Nat
      BY <1>1, PowersAre DEF Words
    <3> QED BY <1>1, <3>1
  <2> QED BY <1>2, <2>1
<1>4. ASSUME NEW k \in Nat, k \in T PROVE k + 1 \in T
  <2> SUFFICES ASSUME k + 1 <= LongestVarint - 1, NEW v \in Words, v < 2 * Power[k + 1]
               PROVE  Fits(v, k + 1)
    OBVIOUS
  <2>1. P(k)
    BY <1>1, <1>4
  <2>2. CASE v < Group
    BY <1>2, <2>2
  <2>3. CASE ~ (v < Group)
    <3>1. v \in Nat /\ v >= Group /\ v < Word
      BY <1>1, <2>3 DEF Words
    <3>2. v \div Group \in Nat /\ v \div Group < v /\ v \div Group \in Words
      <4>1. v \div Group \in Nat /\ v \div Group < v
        BY <3>1, GroupDivides
      <4> QED BY <1>1, <3>1, <4>1 DEF Words
    <3>3. v \div Group < 2 * Power[k]
      <4>1. Power[k + 1] = Group * Power[k] /\ Power[k] \in Nat
        <5>1. k + 1 \in 1 .. LongestVarint - 1 /\ k \in 0 .. LongestVarint - 1 /\ (k + 1) - 1 = k
          BY <1>1
        <5> QED BY <5>1, PowersAre
      <4>2. v = Group * (v \div Group) + (v % Group) /\ v % Group \in 0 .. Group - 1
        BY <3>1, GroupDivides
      <4>3. \A g, q, r, p \in Nat : g >= 2 /\ g * q + r < 2 * (g * p) => q < 2 * p
        <5> SUFFICES ASSUME NEW g \in Nat, NEW q \in Nat, NEW r \in Nat, NEW p \in Nat,
                            g >= 2, q >= 2 * p
                     PROVE  g * q + r >= 2 * (g * p)
          OBVIOUS
        <5>1. PICK d \in Nat : q = 2 * p + d
          <6>1. q - 2 * p \in Nat /\ q = 2 * p + (q - 2 * p)
            OBVIOUS
          <6> QED BY <6>1
        <5>2. g * q = 2 * (g * p) + g * d /\ g * d >= 0
          BY <5>1
        <5> QED BY <5>2
      <4>4. v % Group \in Nat
        BY <1>1, <4>2
      <4> QED BY <1>1, <3>2, <4>1, <4>2, <4>3, <4>4
    <3>4. Fits(v \div Group, k)
      BY <2>1, <3>2, <3>3
    <3>5. IsOneMore(PutUvarint[v], Group + (v % Group), PutUvarint[v \div Group])
      BY <3>1, <3>2, PutMore, VarintIs
    <3>6. IsVarint(PutUvarint[v \div Group])
      BY <3>2, VarintIs
    <3> DEFINE p == PutUvarint[v]
               r == PutUvarint[v \div Group]
    <3>7. Len(r) \in Nat /\ Len(r) >= 1 /\ Len(p) = Len(r) + 1 /\ p[Len(r) + 1] = r[Len(r)]
      <4>1. Len(r) \in Nat /\ Len(r) >= 1
        BY <3>6 DEF IsVarint
      <4> QED BY <3>5, <4>1 DEF IsOneMore
    <3>8. Len(r) <= k + 1 /\ (Len(r) = k + 1 => r[k + 1] <= 1)
      BY <3>4 DEF Fits
    <3> QED BY <3>7, <3>8 DEF Fits
  <2> QED BY <2>2, <2>3
<1>5. P(LongestVarint - 1)
  <2> HIDE DEF P
  <2>1. \A k \in Nat : k \in T
    <3> HIDE DEF T
    <3> QED BY <1>3, <1>4, Induction
  <2>2. LongestVarint - 1 \in Nat
    BY <1>1
  <2> QED BY <2>1, <2>2
<1> QED BY <1>1, <1>5 DEF Words

ValuesUpto(f, b, end, n) ==
  f = [k \in 0 .. n |-> (b[end - k] % Group) + (IF k = 0 THEN 0 ELSE Group * f[k - 1])]

\* What bytes say, by the first of them.
LEMMA ValueStep ==
  ASSUME NEW b, NEW end \in Nat \ {0}, NEW pos \in 1 .. end
  PROVE  UvarintValue(b, pos, end) =
           (b[pos] % Group) + (IF pos = end THEN 0 ELSE Group * UvarintValue(b, pos + 1, end))
<1> DEFINE T == {n \in Nat : \E f : ValuesUpto(f, b, end, n)}
<1>1. 0 \in T
  <2> DEFINE f == [k \in 0 .. 0 |-> (b[end - k] % Group) + 0]
  <2>1. ValuesUpto(f, b, end, 0)
    BY DEF ValuesUpto
  <2> QED BY <2>1
<1>2. ASSUME NEW n \in Nat, n \in T PROVE n + 1 \in T
  <2>1. PICK f : ValuesUpto(f, b, end, n)
    BY <1>2
  <2> DEFINE Say(h, k) == (b[end - k] % Group) + (IF k = 0 THEN 0 ELSE Group * h[k - 1])
             x == Say(f, n + 1)
             g == [k \in 0 .. n + 1 |-> IF k = n + 1 THEN x ELSE f[k]]
  <2>2. ASSUME NEW k \in 0 .. n + 1 PROVE g[k] = Say(g, k)
    <3>1. k # 0 => g[k - 1] = f[k - 1]
      OBVIOUS
    <3>2. Say(g, k) = Say(f, k)
      <4> HIDE DEF g
      <4> QED BY <3>1
    <3>3. CASE k = n + 1
      BY <3>2, <3>3
    <3>4. CASE k # n + 1
      <4>1. k \in 0 .. n /\ g[k] = f[k]
        BY <3>4
      <4>2. f[k] = Say(f, k)
        BY <2>1, <4>1 DEF ValuesUpto
      <4> HIDE DEF Say
      <4> QED BY <3>2, <4>1, <4>2
    <3> QED BY <3>3, <3>4
  <2>3. ValuesUpto(g, b, end, n + 1)
    <3>1. g = [k \in 0 .. n + 1 |-> g[k]]
      OBVIOUS
    <3> HIDE DEF g
    <3> QED BY <2>2, <3>1, Zenon DEF ValuesUpto
  <2> QED BY <2>3
<1>3. \A n \in Nat : n \in T
  <2> HIDE DEF T
  <2> QED BY <1>1, <1>2, Induction
<1>4. PICK f : f = (CHOOSE h : ValuesUpto(h, b, end, end - 1)) /\ ValuesUpto(f, b, end, end - 1)
  <2>1. end - 1 \in T
    BY <1>3
  <2> QED BY <2>1
<1>5. \A p : UvarintValue(b, p, end) = f[end - p]
  BY <1>4 DEF UvarintValue, ValuesUpto
<1>6. end - pos \in 0 .. end - 1 /\ end - (end - pos) = pos
  BY DEF ValuesUpto
<1>7. f[end - pos] = (b[end - (end - pos)] % Group)
                     + (IF end - pos = 0 THEN 0 ELSE Group * f[(end - pos) - 1])
  BY <1>4, <1>6 DEF ValuesUpto
<1>8. (end - pos = 0 <=> pos = end) /\ (end - pos) - 1 = end - (pos + 1)
  OBVIOUS
<1> QED BY <1>5, <1>6, <1>7, <1>8

\* The bytes that were put for a word say this word.
Says(v) ==
  \A b : \A pos \in Nat \ {0} :
    Holds(b, pos, PutUvarint[v]) =>
      UvarintValue(b, pos, pos + Len(PutUvarint[v]) - 1) = v

\* The bytes put for v say v, wherever they are.
LEMMA VarintSays == \A v \in Words : Says(v)
<1>1. Group \in Nat /\ Group >= 2 /\ Word \in Nat
  BY PowersAre, WordIs
<1> DEFINE S == {v \in Words : Says(v)}
<1>2. ASSUME NEW v \in Words, v < Group PROVE v \in S
  <2> SUFFICES ASSUME NEW b, NEW pos \in Nat \ {0}, Holds(b, pos, PutUvarint[v])
               PROVE  UvarintValue(b, pos, pos + Len(PutUvarint[v]) - 1) = v
    BY DEF Says
  <2>1. Len(PutUvarint[v]) = 1 /\ PutUvarint[v][1] = v
    BY <1>2, PutLess
  <2>2. b[pos] = v
    <3>1. 1 \in 1 .. Len(PutUvarint[v]) /\ pos + (1 - 1) = pos
      BY <2>1
    <3>2. b[pos + (1 - 1)] = PutUvarint[v][1]
      BY <3>1 DEF Holds
    <3> QED BY <2>1, <3>1, <3>2
  <2>3. pos + Len(PutUvarint[v]) - 1 = pos /\ pos \in 1 .. pos
    BY <2>1
  <2>4. UvarintValue(b, pos, pos) = (b[pos] % Group) + 0
    BY <2>3, ValueStep
  <2>5. v % Group = v
    <3>1. v \in Nat /\ v = 0 * Group + v
      BY <1>1 DEF Words
    <3> QED BY <1>1, <1>2, <3>1, RemainderIs
  <2>6. v + 0 = v
    BY DEF Words
  <2> QED BY <2>2, <2>3, <2>4, <2>5, <2>6
<1>3. ASSUME NEW v \in Words, v >= Group, v \div Group \in Words, v \div Group \in S
      PROVE  v \in S
  <2> SUFFICES ASSUME NEW b, NEW pos \in Nat \ {0}, Holds(b, pos, PutUvarint[v])
               PROVE  UvarintValue(b, pos, pos + Len(PutUvarint[v]) - 1) = v
    BY DEF Says
  <2>1. PICK p : p = PutUvarint[v]
    OBVIOUS
  <2>2. PICK r : r = PutUvarint[v \div Group]
    OBVIOUS
  <2>3. IsVarint(r) /\ IsOneMore(p, Group + (v % Group), r)
    BY <1>3, <2>1, <2>2, PutMore, VarintIs
  <2>4. Len(r) \in Nat /\ Len(r) >= 1 /\ Len(p) = Len(r) + 1 /\ p[1] = Group + (v % Group)
    BY <2>3 DEF IsVarint, IsOneMore
  <2> DEFINE end == pos + Len(p) - 1
  <2>5. b[pos] = Group + (v % Group)
    <3>1. 1 \in 1 .. Len(p) /\ pos + (1 - 1) = pos
      BY <2>4
    <3>2. b[pos + (1 - 1)] = p[1]
      BY <2>1, <3>1 DEF Holds
    <3> QED BY <2>4, <3>1, <3>2
  <2>6. Holds(b, pos + 1, r)
    <3>1. (pos + 1) + Len(r) - 1 = pos + Len(p) - 1
      BY <2>4
    <3>2. ASSUME NEW i \in 1 .. Len(r) PROVE b[(pos + 1) + (i - 1)] = r[i]
      <4>1. i + 1 \in 1 .. Len(p) /\ pos + ((i + 1) - 1) = (pos + 1) + (i - 1)
        BY <2>4
      <4>2. b[pos + ((i + 1) - 1)] = p[i + 1]
        BY <2>1, <4>1 DEF Holds
      <4>3. p[i + 1] = r[i]
        BY <2>3 DEF IsOneMore
      <4> QED BY <4>1, <4>2, <4>3
    <3>3. pos + Len(p) - 1 <= Len(b)
      BY <2>1 DEF Holds
    <3> QED BY <3>1, <3>2, <3>3 DEF Holds
  <2>7. UvarintValue(b, pos + 1, (pos + 1) + Len(r) - 1) = v \div Group
    <3>1. pos + 1 \in Nat \ {0}
      OBVIOUS
    <3> QED BY <1>3, <2>2, <2>6, <3>1 DEF Says
  <2>8. end \in Nat \ {0} /\ pos \in 1 .. end /\ pos # end /\ (pos + 1) + Len(r) - 1 = end
    BY <2>4
  <2>9. UvarintValue(b, pos, end) = (b[pos] % Group) + Group * UvarintValue(b, pos + 1, end)
    <3> HIDE DEF end
    <3> QED BY <2>8, ValueStep
  <2>10. UvarintValue(b, pos, end) = ((Group + (v % Group)) % Group) + Group * (v \div Group)
    BY <2>5, <2>7, <2>8, <2>9
  <2>11. v \in Nat /\ v % Group \in 0 .. Group - 1 /\ v \div Group \in Nat
         /\ v = Group * (v \div Group) + (v % Group)
    BY <1>1, GroupDivides DEF Words
  <2>12. (Group + (v % Group)) % Group = v % Group
    <3>1. Group + (v % Group) = 1 * Group + (v % Group)
      BY <1>1
    <3>2. PICK r2 \in Nat : r2 = v % Group
      BY <1>1, <2>11
    <3> QED BY <1>1, <2>11, <3>1, <3>2, RemainderIs
  <2>13. UvarintValue(b, pos, end) = (v % Group) + Group * (v \div Group)
    BY <2>10, <2>12
  <2>14. \A q, m \in Int : m + q = q + m
    OBVIOUS
  <2>15. (v % Group) + Group * (v \div Group) = v
    <3>1. v % Group \in Int /\ Group * (v \div Group) \in Int
      BY <1>1, <2>11
    <3> QED BY <2>11, <2>14, <3>1
  <2> QED BY <2>1, <2>13, <2>15
<1> HIDE DEF S
<1>4. \A v \in Words : v \in S
  BY <1>2, <1>3, DownToOneByte
<1> QED BY <1>4 DEF S

\* take_uvarint takes what put_uvarint has put.
LEMMA TakeIs ==
  ASSUME NEW v \in Words, NEW b, NEW pos \in Nat \ {0}, Len(b) \in Nat,
         Holds(b, pos, PutUvarint[v])
  PROVE  TakeUvarint(b, pos) =
           [ok |-> TRUE, value |-> v, pos |-> pos + Len(PutUvarint[v])]
<1>1. PICK p : p = PutUvarint[v]
  OBVIOUS
<1>2. /\ Len(p) \in Nat /\ Len(p) >= 1 /\ p[Len(p)] < Group
      /\ \A i \in 1 .. Len(p) - 1 : p[i] >= Group /\ p[i] \in Bytes
      /\ p[Len(p)] \in Bytes
  BY <1>1, VarintIs DEF IsVarint
<1>3. Group \in Nat /\ Group >= 2 /\ LongestVarint \in Nat \ {0}
  BY PowersAre
<1> DEFINE end == pos + Len(p) - 1
           ends == {i \in pos .. Len(b) : b[i] < Group}
<1>4. end \in Nat /\ end >= pos /\ end <= Len(b) /\ end - pos + 1 = Len(p)
      /\ end + 1 = pos + Len(p)
  BY <1>1, <1>2 DEF Holds
<1>5. b[end] = p[Len(p)]
  <2>1. Len(p) \in 1 .. Len(p) /\ pos + (Len(p) - 1) = end
    BY <1>2
  <2>2. b[pos + (Len(p) - 1)] = p[Len(p)]
    BY <1>1, <2>1 DEF Holds
  <2> QED BY <2>1, <2>2
<1>6. \A i \in pos .. end - 1 : ~ (b[i] < Group)
  <2> SUFFICES ASSUME NEW i \in pos .. end - 1 PROVE ~ (b[i] < Group)
    OBVIOUS
  <2> DEFINE j == (i - pos) + 1
  <2>1. j \in 1 .. Len(p) - 1 /\ j \in 1 .. Len(p) /\ pos + (j - 1) = i
    BY <1>2, <1>4
  <2>2. b[i] = p[j]
    <3> HIDE DEF j
    <3>1. b[pos + (j - 1)] = p[j]
      BY <1>1, <2>1 DEF Holds
    <3> QED BY <2>1, <3>1
  <2>3. p[j] >= Group /\ p[j] \in Int
    <3> HIDE DEF j
    <3> QED BY <1>2, <1>3, <2>1 DEF Bytes
  <2> HIDE DEF j
  <2> QED BY <1>3, <2>2, <2>3
<1>7. end \in ends /\ \A i \in ends : end <= i
  <2>1. end \in ends
    BY <1>2, <1>4, <1>5
  <2>2. ASSUME NEW i \in ends PROVE end <= i
    <3>1. i \in Int /\ i >= pos /\ b[i] < Group
      OBVIOUS
    <3>2. ~ (i \in pos .. end - 1)
      BY <1>6, <3>1
    <3> HIDE DEF end, ends
    <3> QED BY <1>4, <3>1, <3>2
  <2> QED BY <2>1, <2>2
<1> HIDE DEF ends
<1>8. (CHOOSE i \in ends : \A j \in ends : i <= j) = end
  <2>1. ends \subseteq Int
    BY DEF ends
  <2>2. \A i \in ends : (\A j \in ends : i <= j) => i = end
    <3> HIDE DEF end
    <3> QED BY <1>7, <2>1
  <2>3. \E i \in ends : \A j \in ends : i <= j
    BY <1>7
  <2> HIDE DEF end
  <2> QED BY <2>2, <2>3
<1>9. ends # {}
  BY <1>7
<1>10. Len(p) <= LongestVarint /\ (Len(p) = LongestVarint => p[Len(p)] <= 1)
  <2>1. Fits(v, LongestVarint - 1)
    BY VarintFits
  <2>2. (LongestVarint - 1) + 1 = LongestVarint
    BY <1>3
  <2> QED BY <1>1, <2>1, <2>2 DEF Fits
<1>11. UvarintValue(b, pos, end) = v
  BY <1>1, VarintSays DEF Says
<1> HIDE DEF end
<1>12. ~ (Len(p) > LongestVarint) /\ ~ (Len(p) = LongestVarint /\ b[end] > 1)
  <2>1. p[Len(p)] \in Int
    BY <1>2, <1>3 DEF Bytes
  <2> QED BY <1>2, <1>3, <1>5, <1>10, <2>1
<1>13. TakeUvarint(b, pos) = [ok |-> TRUE, value |-> UvarintValue(b, pos, end), pos |-> end + 1]
  <2>1. TakeUvarint(b, pos) =
          LET e == IF ends = {} THEN 0 ELSE CHOOSE i \in ends : \A j \in ends : i <= j
              bad == \/ ends = {}
                     \/ e - pos + 1 > LongestVarint
                     \/ e - pos + 1 = LongestVarint /\ b[e] > 1
          IN  IF bad THEN [ok |-> FALSE, value |-> 0, pos |-> pos]
              ELSE [ok |-> TRUE, value |-> UvarintValue(b, pos, e), pos |-> e + 1]
    BY DEF TakeUvarint, ends
  <2> QED BY <1>4, <1>8, <1>9, <1>12, <2>1
<1> QED BY <1>1, <1>4, <1>11, <1>13

\* What a prefix says, what it begins says too.
LEMMA TakeExtends ==
  ASSUME NEW b, NEW c, NEW pos \in Nat \ {0}, Len(b) \in Nat, Len(c) \in Nat, Len(b) <= Len(c),
         \A i \in 1 .. Len(b) : c[i] = b[i],
         TakeUvarint(b, pos).ok
  PROVE  /\ TakeUvarint(c, pos) = TakeUvarint(b, pos)
         /\ TakeUvarint(b, pos).pos \in Nat /\ TakeUvarint(b, pos).pos >= pos
         /\ TakeUvarint(b, pos).pos <= Len(b) + 1
<1> DEFINE Ends(x) == {i \in pos .. Len(x) : x[i] < Group}
           Least(x) == CHOOSE i \in Ends(x) : \A j \in Ends(x) : i <= j
           Bad(x, e) == e - pos + 1 > LongestVarint \/ (e - pos + 1 = LongestVarint /\ x[e] > 1)
           Taken(x, e) == [ok |-> TRUE, value |-> UvarintValue(x, pos, e), pos |-> e + 1]
<1>1. \A x : TakeUvarint(x, pos) =
        IF Ends(x) = {} THEN [ok |-> FALSE, value |-> 0, pos |-> pos]
        ELSE IF Bad(x, Least(x)) THEN [ok |-> FALSE, value |-> 0, pos |-> pos]
        ELSE Taken(x, Least(x))
  <2> SUFFICES ASSUME NEW x
               PROVE  TakeUvarint(x, pos) =
                        IF Ends(x) = {} THEN [ok |-> FALSE, value |-> 0, pos |-> pos]
                        ELSE IF Bad(x, Least(x)) THEN [ok |-> FALSE, value |-> 0, pos |-> pos]
                        ELSE Taken(x, Least(x))
    OBVIOUS
  <2>1. TakeUvarint(x, pos) =
          LET e == IF Ends(x) = {} THEN 0 ELSE Least(x)
              bad == Ends(x) = {} \/ Bad(x, e)
          IN  IF bad THEN [ok |-> FALSE, value |-> 0, pos |-> pos]
              ELSE [ok |-> TRUE, value |-> UvarintValue(x, pos, e), pos |-> e + 1]
    BY DEF TakeUvarint
  <2> HIDE DEF Ends, Least, Bad
  <2> QED BY <2>1
<1> HIDE DEF Ends
<1>2. Ends(b) # {} /\ ~ Bad(b, Least(b))
  BY <1>1
<1>3. Ends(b) \subseteq Nat /\ \A i \in Ends(b) : i >= pos /\ i <= Len(b)
  BY DEF Ends
<1>4. PICK e \in Ends(b) : \A j \in Ends(b) : e <= j
  BY <1>2, <1>3, LeastElement
<1>5. Least(b) = e
  <2>1. \A i \in Ends(b) : (\A j \in Ends(b) : i <= j) => i = e
    BY <1>3, <1>4
  <2> QED BY <1>4, <2>1
<1>6. e \in Ends(c) /\ \A i \in Ends(c) : i \in Nat /\ e <= i
  <2>1. e \in pos .. Len(b) /\ b[e] < Group
    BY <1>4 DEF Ends
  <2>2. e \in Ends(c)
    <3>1. e \in 1 .. Len(b) /\ e \in pos .. Len(c)
      BY <2>1
    <3> QED BY <2>1, <3>1 DEF Ends
  <2>3. ASSUME NEW i \in Ends(c), i < e PROVE FALSE
    <3>1. i \in pos .. Len(c) /\ c[i] < Group
      BY DEF Ends
    <3>2. i \in pos .. Len(b) /\ i \in 1 .. Len(b)
      BY <2>1, <2>3, <3>1
    <3>3. i \in Ends(b)
      BY <3>1, <3>2 DEF Ends
    <3> QED BY <1>4, <2>1, <2>3, <3>1, <3>3
  <2>4. \A i \in Ends(c) : i \in Nat
    BY DEF Ends
  <2> QED BY <1>3, <1>4, <2>2, <2>3, <2>4
<1>7. Least(c) = e
  <2>1. e \in Nat
    BY <1>3, <1>4
  <2>2. \A i \in Ends(c) : (\A j \in Ends(c) : i <= j) => i = e
    BY <1>6, <2>1
  <2> QED BY <1>6, <2>2
<1>8. e \in 1 .. Len(b) /\ e >= pos /\ c[e] = b[e]
  BY <1>3, <1>4
<1>9. UvarintValue(c, pos, e) = UvarintValue(b, pos, e)
  <2>1. \A k \in 0 .. e - 1 : c[e - k] = b[e - k]
    BY <1>8
  <2>2. \A f : ValuesUpto(f, c, e, e - 1) <=> ValuesUpto(f, b, e, e - 1)
    BY <2>1 DEF ValuesUpto
  <2>3. (CHOOSE f : ValuesUpto(f, c, e, e - 1)) = (CHOOSE f : ValuesUpto(f, b, e, e - 1))
    BY <2>2
  <2> QED BY <2>3 DEF UvarintValue, ValuesUpto
<1>10. Bad(c, e) <=> Bad(b, e)
  BY <1>8
<1>11. Ends(c) # {}
  BY <1>6
<1>12. TakeUvarint(c, pos) = Taken(c, e) /\ TakeUvarint(b, pos) = Taken(b, e)
  <2> HIDE DEF Taken, Bad, Least
  <2> QED BY <1>1, <1>2, <1>5, <1>7, <1>10, <1>11
<1>13. TakeUvarint(b, pos).pos = e + 1
  BY <1>12
<1> QED BY <1>8, <1>9, <1>12, <1>13

(* Columns. *)

ColumnNames == {"recv_mono", "price", "qty", "instrument"}

\* The distance that decode_dod_u64 has at the k-th value.
DeltaAt(column, vals, k) == IF column = "recv_mono" /\ k # 0 THEN Delta(vals, k) ELSE 0

\* The values before the k-th, and their delta, are words.
LEMMA ValuesBefore ==
  ASSUME NEW vals \in Seq(Words), NEW i \in 1 .. Len(vals)
  PROVE  /\ vals[i] \in Words /\ ValueAt(vals, i) = vals[i] /\ ValueAt(vals, i - 1) \in Words
         /\ Delta(vals, i) = Wrap(vals[i] - ValueAt(vals, i - 1))
         /\ Delta(vals, i) \in Words
         /\ (i >= 2 => Delta(vals, i - 1) \in Words)
<1>1. \A k \in 0 .. Len(vals) : ValueAt(vals, k) \in Words
  <2>1. 0 \in Words
    BY WordIs DEF Words
  <2> QED BY <2>1 DEF ValueAt
<1>2. vals[i] \in Words /\ ValueAt(vals, i) = vals[i]
  BY DEF ValueAt
<1>3. ValueAt(vals, i - 1) \in Words /\ (i >= 2 => ValueAt(vals, (i - 1) - 1) \in Words)
  BY <1>1
<1>4. Delta(vals, i) = Wrap(vals[i] - ValueAt(vals, i - 1))
  BY <1>2 DEF Delta
<1>5. Delta(vals, i) \in Words
  BY <1>2, <1>3, <1>4, DifferenceIs
<1>6. ASSUME i >= 2 PROVE Delta(vals, i - 1) \in Words
  BY <1>3, <1>6, DifferenceIs DEF Delta
<1> QED BY <1>2, <1>3, <1>4, <1>5, <1>6

\* The number written for a value gives the value, after the one before it.
LEMMA NextIs ==
  ASSUME NEW column \in ColumnNames, NEW vals \in Seq(Words), NEW i \in 1 .. Len(vals)
  PROVE  /\ Coded(column, vals, i) \in Words
         /\ NextValue(column, [value |-> ValueAt(vals, i - 1), delta |-> DeltaAt(column, vals, i - 1)],
                      Coded(column, vals, i))
              = [value |-> vals[i], delta |-> DeltaAt(column, vals, i)]
<1>1. /\ vals[i] \in Words /\ ValueAt(vals, i) = vals[i] /\ ValueAt(vals, i - 1) \in Words
      /\ Delta(vals, i) = Wrap(vals[i] - ValueAt(vals, i - 1))
      /\ Delta(vals, i) \in Words
      /\ (i >= 2 => Delta(vals, i - 1) \in Words)
  BY ValuesBefore
<1>2. PICK s : s = [value |-> ValueAt(vals, i - 1), delta |-> DeltaAt(column, vals, i - 1)]
  OBVIOUS
<1>3. s.value = ValueAt(vals, i - 1) /\ s.delta = DeltaAt(column, vals, i - 1)
  BY <1>2
<1>4. CASE column = "recv_mono"
  <2> DEFINE before == IF i < 2 THEN 0 ELSE Delta(vals, i - 1)
             dod == Wrap(Delta(vals, i) - before)
             u == Zigzag(dod)
  <2>1. before \in Words
    <3>1. 0 \in Words
      BY WordIs DEF Words
    <3> QED BY <1>1, <3>1
  <2>2. s.delta = before
    <3>1. i - 1 = 0 <=> i < 2
      OBVIOUS
    <3> QED BY <1>3, <1>4, <3>1 DEF DeltaAt
  <2>3. Coded(column, vals, i) = u
    BY <1>4 DEF Coded, DeltaOfDelta
  <2> HIDE DEF before
  <2>4. dod \in Words /\ Wrap(before + dod) = Delta(vals, i)
    BY <1>1, <2>1, DifferenceIs
  <2> HIDE DEF dod
  <2>5. u \in Words /\ Unzigzag(u) = dod
    BY <2>4, ZigzagIs
  <2> HIDE DEF u
  <2>6. NextDod(s, u) = [value |-> Wrap(s.value + Delta(vals, i)), delta |-> Delta(vals, i)]
    BY <2>2, <2>4, <2>5 DEF NextDod
  <2>7. Wrap(s.value + Delta(vals, i)) = vals[i]
    BY <1>1, <1>3, DifferenceIs
  <2>8. NextValue(column, s, u) = NextDod(s, u)
    BY <1>4 DEF NextValue
  <2>9. DeltaAt(column, vals, i) = Delta(vals, i)
    BY <1>4 DEF DeltaAt
  <2> QED BY <1>2, <2>3, <2>5, <2>6, <2>7, <2>8, <2>9
<1>5. CASE column = "price"
  <2> DEFINE u == Zigzag(Delta(vals, i))
  <2>1. Coded(column, vals, i) = u
    BY <1>5 DEF Coded
  <2>2. u \in Words /\ Unzigzag(u) = Delta(vals, i)
    BY <1>1, ZigzagIs
  <2> HIDE DEF u
  <2>3. NextValue(column, s, u) = [value |-> Wrap(s.value + Delta(vals, i)), delta |-> 0]
    BY <1>5, <2>2 DEF NextValue
  <2>4. Wrap(s.value + Delta(vals, i)) = vals[i]
    BY <1>1, <1>3, DifferenceIs
  <2>5. DeltaAt(column, vals, i) = 0
    BY <1>5 DEF DeltaAt
  <2> QED BY <1>2, <2>1, <2>2, <2>3, <2>4, <2>5
<1>6. CASE column = "qty"
  <2> DEFINE u == Zigzag(vals[i])
  <2>1. Coded(column, vals, i) = u
    BY <1>6 DEF Coded
  <2>2. u \in Words /\ Unzigzag(u) = vals[i]
    BY <1>1, ZigzagIs
  <2> HIDE DEF u
  <2>3. NextValue(column, s, u) = [value |-> vals[i], delta |-> 0]
    BY <1>6, <2>2 DEF NextValue
  <2>4. DeltaAt(column, vals, i) = 0
    BY <1>6 DEF DeltaAt
  <2> QED BY <1>2, <2>1, <2>2, <2>3, <2>4
<1>7. CASE column = "instrument"
  <2>1. Coded(column, vals, i) = vals[i]
    BY <1>7 DEF Coded
  <2>2. NextValue(column, s, vals[i]) = [value |-> vals[i], delta |-> 0]
    BY <1>7 DEF NextValue
  <2>3. DeltaAt(column, vals, i) = 0
    BY <1>7 DEF DeltaAt
  <2> QED BY <1>1, <1>2, <2>1, <2>2, <2>3
<1> QED BY <1>4, <1>5, <1>6, <1>7 DEF ColumnNames

\* The states of decoding: after each of the first n values.
TakesUpto(f, column, b, pos, n) ==
  f = [k \in 0 .. n |->
        IF k = 0 THEN [ok |-> TRUE, pos |-> pos, delta |-> 0, out |-> <<>>]
        ELSE TakeValue(column, b, f[k - 1])]

\* Decode is the n-fold TakeValue.
LEMMA DecodeRuns ==
  ASSUME NEW column, NEW b, NEW pos, NEW n \in Nat
  PROVE  \E f : TakesUpto(f, column, b, pos, n) /\ Decode(column, b, pos, n) = f[n]
<1> DEFINE start == [ok |-> TRUE, pos |-> pos, delta |-> 0, out |-> <<>>]
           T == {m \in Nat : \E f : TakesUpto(f, column, b, pos, m)}
<1>1. 0 \in T
  <2> DEFINE f == [k \in 0 .. 0 |-> start]
  <2>1. TakesUpto(f, column, b, pos, 0)
    BY DEF TakesUpto
  <2> QED BY <2>1
<1>2. ASSUME NEW m \in Nat, m \in T PROVE m + 1 \in T
  <2>1. PICK f : TakesUpto(f, column, b, pos, m)
    BY <1>2
  <2> DEFINE Step(h, k) == IF k = 0 THEN start ELSE TakeValue(column, b, h[k - 1])
             x == Step(f, m + 1)
             g == [k \in 0 .. m + 1 |-> IF k = m + 1 THEN x ELSE f[k]]
  <2>2. ASSUME NEW k \in 0 .. m + 1 PROVE g[k] = Step(g, k)
    <3>1. k # 0 => g[k - 1] = f[k - 1]
      OBVIOUS
    <3>2. Step(g, k) = Step(f, k)
      <4> HIDE DEF g
      <4> QED BY <3>1
    <3>3. CASE k = m + 1
      BY <3>2, <3>3
    <3>4. CASE k # m + 1
      <4>1. k \in 0 .. m /\ g[k] = f[k]
        BY <3>4
      <4>2. f[k] = Step(f, k)
        BY <2>1, <4>1 DEF TakesUpto
      <4> HIDE DEF Step
      <4> QED BY <3>2, <4>1, <4>2
    <3> QED BY <3>3, <3>4
  <2>3. TakesUpto(g, column, b, pos, m + 1)
    <3>1. g = [k \in 0 .. m + 1 |-> g[k]]
      OBVIOUS
    <3> HIDE DEF g
    <3> QED BY <2>2, <3>1, Zenon DEF TakesUpto
  <2> QED BY <2>3
<1>3. n \in T
  <2> HIDE DEF T
  <2> QED BY <1>1, <1>2, Induction
<1>4. PICK f : f = (CHOOSE h : TakesUpto(h, column, b, pos, n)) /\ TakesUpto(f, column, b, pos, n)
  BY <1>3
<1>5. Decode(column, b, pos, n) = f[n]
  BY <1>4 DEF Decode, TakesUpto
<1> QED BY <1>4, <1>5

\* What holds a concatenation holds its parts, one after the other.
LEMMA ConcatHolds ==
  ASSUME NEW S, NEW e, NEW n \in Nat, \A j \in 1 .. n : e[j] \in Seq(S),
         NEW b, NEW pos \in Nat \ {0}, Len(b) \in Nat, Holds(b, pos, Concat(e, n)),
         NEW k \in 1 .. n
  PROVE  /\ Holds(b, pos + Len(Concat(e, k - 1)), e[k])
         /\ Len(Concat(e, k)) = Len(Concat(e, k - 1)) + Len(e[k])
         /\ Len(Concat(e, k - 1)) \in Nat /\ Len(e[k]) \in Nat
<1>1. k - 1 \in Nat /\ (k - 1) + 1 = k /\ k <= n
  OBVIOUS
<1>2. \A j \in 1 .. (k - 1) + 1 : e[j] \in Seq(S)
  BY <1>1
<1>3. Concat(e, k - 1) \in Seq(S) /\ Concat(e, k) = Concat(e, k - 1) \o e[k]
  BY <1>1, <1>2, ConcatNext
<1>4. Concat(e, k) \in Seq(S) /\ Concat(e, n) \in Seq(S) /\ IsPrefix(Concat(e, k), Concat(e, n))
  <2>1. k \in Nat /\ k <= n /\ n <= n
    OBVIOUS
  <2> QED BY <2>1, ConcatGrows, Zenon
<1>5. PICK x : x = Concat(e, k - 1)
  OBVIOUS
<1>6. PICK y : y = Concat(e, k)
  OBVIOUS
<1>7. PICK z : z = Concat(e, n)
  OBVIOUS
<1>8. PICK r : r = e[k]
  OBVIOUS
<1>9. x \in Seq(S) /\ y \in Seq(S) /\ z \in Seq(S) /\ r \in Seq(S)
  BY <1>3, <1>4, <1>5, <1>6, <1>7, <1>8
<1>10. Len(y) = Len(x) + Len(r) /\ \A i \in 1 .. Len(r) : y[Len(x) + i] = r[i]
  <2>1. y = x \o r
    BY <1>3, <1>5, <1>6, <1>8
  <2> QED BY <1>9, <2>1
<1>11. Len(y) <= Len(z) /\ \A i \in 1 .. Len(y) : z[i] = y[i]
  <2>1. IsPrefix(y, z)
    BY <1>4, <1>6, <1>7
  <2> QED BY <1>9, <2>1 DEF IsPrefix
<1>12. Len(x) \in Nat /\ Len(r) \in Nat /\ Len(z) \in Nat /\ Len(y) \in Nat
  BY <1>9
<1>13. Holds(b, pos + Len(x), r)
  <2>1. (pos + Len(x)) + Len(r) - 1 <= Len(b)
    <3>1. pos + Len(z) - 1 <= Len(b)
      BY <1>7 DEF Holds
    <3> QED BY <1>10, <1>11, <1>12, <3>1
  <2>2. ASSUME NEW i \in 1 .. Len(r) PROVE b[(pos + Len(x)) + (i - 1)] = r[i]
    <3>1. Len(x) + i \in 1 .. Len(y) /\ Len(x) + i \in 1 .. Len(z)
          /\ pos + ((Len(x) + i) - 1) = (pos + Len(x)) + (i - 1)
      BY <1>10, <1>11, <1>12
    <3>2. b[pos + ((Len(x) + i) - 1)] = z[Len(x) + i]
      BY <1>7, <3>1 DEF Holds
    <3> QED BY <1>10, <1>11, <3>1, <3>2
  <2> QED BY <2>1, <2>2 DEF Holds
<1>14. Len(y) = Len(x) + Len(r)
  BY <1>10
<1> QED BY <1>5, <1>6, <1>8, <1>12, <1>13, <1>14, Zenon

\* Of a column of `instrument` the values are narrow.
IsColumn(column, vals) ==
  /\ column \in ColumnNames /\ vals \in Seq(Words)
  /\ column = "instrument" => \A i \in 1 .. Len(vals) : vals[i] < Narrow

Varints(column, vals) == [i \in 1 .. Len(vals) |-> PutUvarint[Coded(column, vals, i)]]

\* A stream is the concatenation of its varints.
LEMMA EncodeIs ==
  ASSUME NEW column, NEW vals, IsColumn(column, vals)
  PROVE  /\ Encode(column, vals) = Concat(Varints(column, vals), Len(vals))
         /\ \A j \in 1 .. Len(vals) : Varints(column, vals)[j] \in Seq(Bytes)
         /\ Len(vals) \in Nat
         /\ Encode(column, vals) \in Seq(Bytes)
<1>1. vals \in Seq(Words) /\ column \in ColumnNames /\ Len(vals) \in Nat /\ DOMAIN vals = 1 .. Len(vals)
  BY DEF IsColumn
<1>2. Encode(column, vals) = FlattenSeq(Varints(column, vals))
  BY <1>1 DEF Encode, Varints
<1>3. [j \in 1 .. Len(vals) |-> Varints(column, vals)[j]] = Varints(column, vals)
  BY DEF Varints
<1>4. \A j \in 1 .. Len(vals) : Varints(column, vals)[j] \in Seq(Bytes)
  BY <1>1, NextIs, VarintIs DEF Varints, IsVarint
<1>5. Encode(column, vals) = Concat(Varints(column, vals), Len(vals))
  BY <1>2, <1>3 DEF Concat
<1> QED BY <1>1, <1>4, <1>5, ConcatType

\* After k values the decoder is at the end of the k-th varint.
IsAfter(s, column, vals, pos, k) ==
  s = [ok |-> TRUE, pos |-> pos + Len(Concat(Varints(column, vals), k)),
       delta |-> DeltaAt(column, vals, k), out |-> SubSeq(vals, 1, k)]

\* A decoder that has k values takes the one that follows.
LEMMA TakeValueIs ==
  ASSUME NEW column, NEW vals, IsColumn(column, vals), NEW b, NEW pos \in Nat \ {0},
         Len(b) \in Nat, Holds(b, pos, Encode(column, vals)),
         NEW k \in 1 .. Len(vals), NEW s, IsAfter(s, column, vals, pos, k - 1)
  PROVE  IsAfter(TakeValue(column, b, s), column, vals, pos, k)
<1>1. column \in ColumnNames /\ vals \in Seq(Words) /\ Len(vals) \in Nat
  BY DEF IsColumn
<1>2. PICK e : e = Varints(column, vals)
  OBVIOUS
<1>3. PICK u : u = Coded(column, vals, k)
  OBVIOUS
<1>4. u \in Words /\ e[k] = PutUvarint[u]
  BY <1>1, <1>2, <1>3, NextIs DEF Varints
<1>5. /\ Holds(b, pos + Len(Concat(e, k - 1)), e[k])
      /\ Len(Concat(e, k)) = Len(Concat(e, k - 1)) + Len(e[k])
      /\ Len(Concat(e, k - 1)) \in Nat /\ Len(e[k]) \in Nat
  <2>1. Holds(b, pos, Concat(e, Len(vals))) /\ \A j \in 1 .. Len(vals) : e[j] \in Seq(Bytes)
    BY <1>2, EncodeIs
  <2> QED BY <1>1, <2>1, ConcatHolds
<1>6. PICK a \in Nat : a = Len(Concat(e, k - 1))
  BY <1>5
<1>7. PICK l \in Nat : l = Len(e[k])
  BY <1>5
<1>8. PICK out : out = SubSeq(vals, 1, k - 1)
  OBVIOUS
<1>9. s.ok = TRUE /\ s.pos = pos + a /\ s.delta = DeltaAt(column, vals, k - 1) /\ s.out = out
  BY <1>2, <1>6, <1>8 DEF IsAfter
<1>10. TakeUvarint(b, pos + a) = [ok |-> TRUE, value |-> u, pos |-> (pos + a) + l]
  <2>1. pos + a \in Nat \ {0} /\ Holds(b, pos + a, PutUvarint[u])
    BY <1>4, <1>5, <1>6
  <2>2. TakeUvarint(b, pos + a) = [ok |-> TRUE, value |-> u, pos |-> (pos + a) + Len(PutUvarint[u])]
    BY <1>4, <2>1, TakeIs
  <2> QED BY <1>4, <1>7, <2>2
<1>11. Len(out) = k - 1 /\ ValueAt(out, Len(out)) = ValueAt(vals, k - 1)
       /\ Append(out, vals[k]) = SubSeq(vals, 1, k)
  <2>1. out \in Seq(Words) /\ Len(out) = k - 1 /\ \A i \in 1 .. k - 1 : out[i] = vals[i]
    BY <1>1, <1>8
  <2>2. ValueAt(out, Len(out)) = ValueAt(vals, k - 1)
    <3>1. CASE k - 1 < 1
      BY <2>1, <3>1 DEF ValueAt
    <3>2. CASE ~ (k - 1 < 1)
      <4>1. k - 1 \in 1 .. k - 1
        BY <3>2
      <4> QED BY <2>1, <3>2, <4>1 DEF ValueAt
    <3> QED BY <3>1, <3>2
  <2>3. Append(out, vals[k]) = SubSeq(vals, 1, k)
    <3>1. PICK x : x = Append(out, vals[k])
      OBVIOUS
    <3>2. PICK y : y = SubSeq(vals, 1, k)
      OBVIOUS
    <3>3. vals[k] \in Words
      BY <1>1
    <3>4. x \in Seq(Words) /\ Len(x) = k /\ x[k] = vals[k] /\ \A i \in 1 .. k - 1 : x[i] = vals[i]
      BY <2>1, <3>1, <3>3
    <3>5. y \in Seq(Words) /\ Len(y) = k /\ \A i \in 1 .. k : y[i] = vals[i]
      BY <1>1, <3>2
    <3>6. \A i \in 1 .. k : x[i] = y[i]
      <4> TAKE i \in 1 .. k
      <4>1. CASE i = k
        BY <3>4, <3>5, <4>1
      <4>2. CASE i # k
        <5>1. i \in 1 .. k - 1
          BY <4>2
        <5> QED BY <3>4, <3>5, <5>1
      <4> QED BY <4>1, <4>2
    <3>7. x = y
      BY <3>4, <3>5, <3>6
    <3> QED BY <3>1, <3>2, <3>7
  <2> QED BY <2>1, <2>2, <2>3
<1>12. NextValue(column, [value |-> ValueAt(vals, k - 1), delta |-> DeltaAt(column, vals, k - 1)], u)
         = [value |-> vals[k], delta |-> DeltaAt(column, vals, k)]
  BY <1>1, <1>3, NextIs
<1>13. column = "instrument" => vals[k] < Narrow
  BY DEF IsColumn
<1> DEFINE t == TakeUvarint(b, s.pos)
           v == NextValue(column, [value |-> ValueAt(s.out, Len(s.out)), delta |-> s.delta], t.value)
<1>14. t.ok = TRUE /\ t.value = u /\ t.pos = (pos + a) + l
  BY <1>9, <1>10
<1>15. v = [value |-> vals[k], delta |-> DeltaAt(column, vals, k)]
  <2> HIDE DEF t
  <2>1. ValueAt(s.out, Len(s.out)) = ValueAt(vals, k - 1)
    BY <1>9, <1>11
  <2> QED BY <1>9, <1>12, <1>14, <2>1
<1>16. v.value = vals[k] /\ v.delta = DeltaAt(column, vals, k)
  <2> HIDE DEF v
  <2> QED BY <1>15
<1>17. TakeValue(column, b, s) =
         [ok |-> TRUE, pos |-> t.pos, delta |-> v.delta, out |-> Append(s.out, v.value)]
  <2>1. s.ok /\ t.ok /\ (column = "instrument" => v.value < Narrow)
    <3> HIDE DEF t, v
    <3> QED BY <1>9, <1>13, <1>14, <1>16
  <2> QED BY <2>1 DEF TakeValue
<1>18. TakeValue(column, b, s) =
         [ok |-> TRUE, pos |-> (pos + a) + l, delta |-> DeltaAt(column, vals, k),
          out |-> Append(out, vals[k])]
  <2> HIDE DEF t, v
  <2> QED BY <1>9, <1>14, <1>16, <1>17
<1>19. (pos + a) + l = pos + Len(Concat(e, k))
  <2>1. Len(Concat(e, k)) = a + l
    BY <1>5, <1>6, <1>7, Zenon
  <2>2. pos + (a + l) = (pos + a) + l
    OBVIOUS
  <2> QED BY <2>1, <2>2
<1> QED BY <1>2, <1>11, <1>18, <1>19 DEF IsAfter

HasDecoded(d, column, vals, pos) ==
  d.ok = TRUE /\ d.pos = pos + Len(Encode(column, vals)) /\ d.out = vals

\* A column is decoded wherever its stream is.
LEMMA DecodeIs ==
  ASSUME NEW column, NEW vals, IsColumn(column, vals), NEW b, NEW pos \in Nat \ {0},
         Len(b) \in Nat, Holds(b, pos, Encode(column, vals))
  PROVE  HasDecoded(Decode(column, b, pos, Len(vals)), column, vals, pos)
<1>1. column \in ColumnNames /\ vals \in Seq(Words) /\ Len(vals) \in Nat
  BY DEF IsColumn
<1>2. PICK n \in Nat : n = Len(vals)
  BY <1>1
<1>3. PICK f : TakesUpto(f, column, b, pos, n) /\ Decode(column, b, pos, n) = f[n]
  BY DecodeRuns
<1> DEFINE T == {k \in Nat : k <= n => IsAfter(f[k], column, vals, pos, k)}
<1>4. 0 \in T
  <2>1. f[0] = [ok |-> TRUE, pos |-> pos, delta |-> 0, out |-> <<>>]
    BY <1>3 DEF TakesUpto
  <2>2. Len(Concat(Varints(column, vals), 0)) = 0 /\ pos + 0 = pos
    <3>1. Concat(Varints(column, vals), 0) = <<>> /\ Len(<<>>) = 0
      BY ConcatZero
    <3> QED BY <3>1
  <2>3. SubSeq(vals, 1, 0) = <<>>
    BY <1>1
  <2>4. DeltaAt(column, vals, 0) = 0
    BY DEF DeltaAt
  <2> QED BY <2>1, <2>2, <2>3, <2>4 DEF IsAfter
<1>5. ASSUME NEW k \in Nat, k \in T PROVE k + 1 \in T
  <2> SUFFICES ASSUME k + 1 <= n PROVE IsAfter(f[k + 1], column, vals, pos, k + 1)
    OBVIOUS
  <2>1. k + 1 \in 1 .. Len(vals) /\ (k + 1) - 1 = k /\ k + 1 \in 0 .. n /\ k + 1 # 0
    BY <1>2
  <2>2. f[k + 1] = TakeValue(column, b, f[k])
    BY <1>3, <2>1 DEF TakesUpto
  <2>3. IsAfter(f[k], column, vals, pos, (k + 1) - 1)
    BY <1>5, <2>1
  <2> QED BY <2>1, <2>2, <2>3, TakeValueIs
<1>6. IsAfter(f[n], column, vals, pos, n)
  <2>1. n \in T
    <3> HIDE DEF T
    <3> QED BY <1>4, <1>5, Induction
  <2> QED BY <2>1
<1>7. SubSeq(vals, 1, n) = vals
  BY <1>1, <1>2
<1>8. Concat(Varints(column, vals), n) = Encode(column, vals)
  BY <1>2, EncodeIs
<1> QED BY <1>2, <1>3, <1>6, <1>7, <1>8 DEF IsAfter, HasDecoded

\* As long as the decoder gets on with b, it does the same with c.
GoesAlong(s, r) ==
  /\ "ok" \in DOMAIN s /\ s.ok \in BOOLEAN
  /\ s.ok = TRUE => r = s /\ s.pos \in Nat \ {0}

\* What is decoded of a prefix is decoded of what it begins.
LEMMA DecodeExtends ==
  ASSUME NEW column, NEW n \in Nat, NEW b, NEW c, NEW pos \in Nat \ {0},
         Len(b) \in Nat, Len(c) \in Nat, Len(b) <= Len(c),
         \A i \in 1 .. Len(b) : c[i] = b[i]
  PROVE  GoesAlong(Decode(column, b, pos, n), Decode(column, c, pos, n))
<1>1. PICK f : TakesUpto(f, column, b, pos, n) /\ Decode(column, b, pos, n) = f[n]
  BY DecodeRuns
<1>2. PICK g : TakesUpto(g, column, c, pos, n) /\ Decode(column, c, pos, n) = g[n]
  BY DecodeRuns
<1> DEFINE T == {k \in Nat : k <= n => GoesAlong(f[k], g[k])}
<1>3. 0 \in T
  <2>1. /\ f[0] = [ok |-> TRUE, pos |-> pos, delta |-> 0, out |-> <<>>]
        /\ g[0] = [ok |-> TRUE, pos |-> pos, delta |-> 0, out |-> <<>>]
    BY <1>1, <1>2 DEF TakesUpto
  <2>2. PICK s : s = [ok |-> TRUE, pos |-> pos, delta |-> 0, out |-> <<>>]
    OBVIOUS
  <2>3. GoesAlong(s, s)
    BY <2>2 DEF GoesAlong
  <2>4. f[0] = s /\ g[0] = s
    BY <2>1, <2>2
  <2> QED BY <2>3, <2>4
<1>4. ASSUME NEW k \in Nat, k \in T PROVE k + 1 \in T
  <2> SUFFICES ASSUME k + 1 <= n PROVE GoesAlong(f[k + 1], g[k + 1])
    OBVIOUS
  <2>1. f[k + 1] = TakeValue(column, b, f[k]) /\ g[k + 1] = TakeValue(column, c, g[k])
    <3>1. k + 1 \in 0 .. n /\ k + 1 # 0 /\ (k + 1) - 1 = k
      OBVIOUS
    <3> QED BY <1>1, <1>2, <3>1 DEF TakesUpto
  <2>2. PICK s : s = f[k]
    OBVIOUS
  <2>3. "ok" \in DOMAIN s /\ s.ok \in BOOLEAN /\ (s.ok = TRUE => g[k] = s /\ s.pos \in Nat \ {0})
    <3>1. GoesAlong(f[k], g[k])
      BY <1>4
    <3> QED BY <2>2, <3>1 DEF GoesAlong
  <2> DEFINE t == TakeUvarint(b, s.pos)
             v == NextValue(column, [value |-> ValueAt(s.out, Len(s.out)), delta |-> s.delta], t.value)
             goes == s.ok /\ t.ok /\ (column = "instrument" => v.value < Narrow)
  <2>4. CASE goes
    <3>1. /\ TakeUvarint(c, s.pos) = t /\ t.pos \in Nat /\ t.pos >= s.pos
      BY <2>3, <2>4, TakeExtends
    <3> HIDE DEF t
    <3>2. TakeValue(column, b, s) =
            [ok |-> TRUE, pos |-> t.pos, delta |-> v.delta, out |-> Append(s.out, v.value)]
      BY <2>4 DEF TakeValue, t
    <3>3. TakeValue(column, c, s) = TakeValue(column, b, s)
      BY <3>1 DEF TakeValue, t
    <3>4. g[k] = s /\ s.pos \in Nat \ {0}
      BY <2>3, <2>4
    <3>5. PICK r : r = [ok |-> TRUE, pos |-> t.pos, delta |-> v.delta, out |-> Append(s.out, v.value)]
      OBVIOUS
    <3>6. GoesAlong(r, r)
      <4>1. t.pos \in Nat \ {0}
        BY <3>1, <3>4
      <4> HIDE DEF v
      <4> QED BY <3>5, <4>1 DEF GoesAlong
    <3>7. f[k + 1] = r /\ g[k + 1] = r
      <4> HIDE DEF v
      <4> QED BY <2>1, <2>2, <3>2, <3>3, <3>4, <3>5
    <3> QED BY <3>6, <3>7
  <2>5. CASE ~ goes
    <3>1. TakeValue(column, b, s) = [s EXCEPT !.ok = FALSE]
      BY <2>5 DEF TakeValue
    <3>2. "ok" \in DOMAIN [s EXCEPT !.ok = FALSE] /\ [s EXCEPT !.ok = FALSE].ok = FALSE
      BY <2>3
    <3>3. PICK r : r = [s EXCEPT !.ok = FALSE]
      OBVIOUS
    <3>4. "ok" \in DOMAIN r /\ r.ok = FALSE
      BY <3>2, <3>3
    <3>5. f[k + 1] = r
      BY <2>1, <2>2, <3>1, <3>3
    <3> QED BY <3>4, <3>5 DEF GoesAlong
  <2> QED BY <2>4, <2>5
<1>5. n \in T
  <2> HIDE DEF T
  <2> QED BY <1>3, <1>4, Induction
<1>6. GoesAlong(f[n], g[n])
  BY <1>5
<1> QED BY <1>1, <1>2, <1>6

(* The block. *)

\* The columns by their names.
LEMMA ColumnsAre ==
  /\ Len(Columns) = 4 /\ DOMAIN Columns = 1 .. 4
  /\ \A c \in 1 .. 4 : Columns[c] \in ColumnNames
<1>1. /\ Columns[1] = "recv_mono" /\ Columns[2] = "price"
      /\ Columns[3] = "qty" /\ Columns[4] = "instrument"
  BY DEF Columns
<1>2. Len(Columns) = 4 /\ DOMAIN Columns = 1 .. 4
  BY DEF Columns
<1> QED BY <1>1, <1>2 DEF ColumnNames

\* The columns that the events are, and the byte column.
LEMMA ValuesAre ==
  ASSUME events \in Seq(Inputs)
  PROVE  /\ Len(events) \in Nat
         /\ \A c \in 1 .. 4 : /\ IsColumn(Columns[c], Values(Columns[c]))
                              /\ Len(Values(Columns[c])) = Len(events)
         /\ KindBytes \in Seq(Bytes) /\ Len(KindBytes) = Len(events)
<1>1. Len(events) \in Nat /\ DOMAIN events = 1 .. Len(events)
      /\ \A i \in 1 .. Len(events) : events[i] \in Inputs
  OBVIOUS
<1>2. Word \in Nat /\ Group \in Nat /\ Narrow \in Nat /\ Narrow <= Word
  BY WordIs, PowersAre, InputsAssumption
<1>3. ASSUME NEW i \in 1 .. Len(events)
      PROVE  /\ events[i].recv_mono \in Words /\ events[i].price \in Words
             /\ events[i].qty \in Words /\ events[i].instrument \in 0 .. Narrow - 1
             /\ events[i].kind \in Bytes
  <2>1. events[i] \in [recv_mono : 0 .. Word - 1, price : 0 .. Word - 1, qty : 0 .. Word - 1,
                       instrument : 0 .. Narrow - 1, kind : 0 .. 2 * Group - 1]
    BY <1>1, InputsAssumption
  <2> QED BY <2>1 DEF Words, Bytes
<1>4. \A i \in 1 .. Len(events) : events[i].instrument \in Words /\ events[i].instrument < Narrow
  BY <1>2, <1>3 DEF Words
<1>5. ASSUME NEW column \in ColumnNames, NEW i \in 1 .. Len(events)
      PROVE  events[i][column] \in Words
  <2>1. CASE column = "recv_mono"
    BY <1>3, <2>1
  <2>2. CASE column = "price"
    BY <1>3, <2>2
  <2>3. CASE column = "qty"
    BY <1>3, <2>3
  <2>4. CASE column = "instrument"
    BY <1>4, <2>4
  <2> QED BY <2>1, <2>2, <2>3, <2>4 DEF ColumnNames
<1>6. ASSUME NEW column \in ColumnNames
      PROVE  IsColumn(column, Values(column)) /\ Len(Values(column)) = Len(events)
  <2>1. PICK vals : vals = [i \in 1 .. Len(events) |-> events[i][column]]
    OBVIOUS
  <2>2. Values(column) = vals
    BY <1>1, <2>1 DEF Values
  <2>3. vals \in Seq(Words) /\ Len(vals) = Len(events)
    BY <1>1, <1>5, <2>1
  <2>4. ASSUME column = "instrument", NEW i \in 1 .. Len(vals) PROVE vals[i] < Narrow
    <3>1. i \in 1 .. Len(events)
      BY <2>3
    <3>2. vals[i] = events[i].instrument
      BY <2>1, <2>4, <3>1
    <3> QED BY <1>4, <3>1, <3>2
  <2> QED BY <2>2, <2>3, <2>4 DEF IsColumn
<1>7. KindBytes \in Seq(Bytes) /\ Len(KindBytes) = Len(events)
  <2>1. KindBytes = [i \in 1 .. Len(events) |-> events[i].kind]
    BY <1>1 DEF KindBytes
  <2> QED BY <1>1, <1>3, <2>1
<1> QED BY <1>1, <1>6, <1>7, ColumnsAre

\* Four parts and a fifth.
LEMMA FiveParts ==
  ASSUME NEW S, NEW f, NEW x, f = [c \in 1 .. 4 |-> f[c]], \A c \in 1 .. 4 : f[c] \in S, x \in S
  PROVE  /\ Append(f, x) \in Seq(S)
         /\ Len(Append(f, x)) = 5 /\ DOMAIN Append(f, x) = 1 .. 5
         /\ \A c \in 1 .. 4 : Append(f, x)[c] = f[c]
         /\ Append(f, x)[5] = x
<1>1. f \in Seq(S) /\ Len(f) = 4
  OBVIOUS
<1>2. PICK g : g = Append(f, x)
  OBVIOUS
<1>3. g \in Seq(S) /\ Len(g) = 5 /\ g[5] = x /\ \A c \in 1 .. 4 : g[c] = f[c]
  BY <1>1, <1>2
<1>4. DOMAIN g = 1 .. 5
  BY <1>3
<1> QED BY <1>2, <1>3, <1>4

Lens == [c \in DOMAIN Streams |-> Len(Streams[c])]

\* The streams of a block, one of each column.
LEMMA StreamsAre ==
  ASSUME events \in Seq(Inputs)
  PROVE  /\ Len(Streams) = 5 /\ DOMAIN Streams = 1 .. 5
         /\ \A c \in 1 .. 4 : Streams[c] = Encode(Columns[c], Values(Columns[c]))
         /\ Streams[5] = KindBytes
         /\ \A c \in 1 .. 5 : Streams[c] \in Seq(Bytes) /\ Len(Streams[c]) \in Nat
         /\ FlattenSeq(Streams) = Concat(Streams, 5)
         /\ FlattenSeq(Streams) \in Seq(Bytes) /\ Len(FlattenSeq(Streams)) \in Nat
<1>1. PICK f : f = [c \in 1 .. 4 |-> Encode(Columns[c], Values(Columns[c]))]
  OBVIOUS
<1>2. Streams = Append(f, KindBytes)
  BY <1>1, ColumnsAre DEF Streams
<1>3. \A c \in 1 .. 4 : f[c] \in Seq(Bytes)
  BY <1>1, ValuesAre, EncodeIs
<1>4. KindBytes \in Seq(Bytes)
  BY ValuesAre
<1>5. f = [c \in 1 .. 4 |-> f[c]]
  BY <1>1
<1>6. /\ Streams \in Seq(Seq(Bytes)) /\ Len(Streams) = 5 /\ DOMAIN Streams = 1 .. 5
      /\ \A c \in 1 .. 4 : Streams[c] = f[c]
      /\ Streams[5] = KindBytes
  BY <1>2, <1>3, <1>4, <1>5, FiveParts
<1>7. \A c \in 1 .. 4 : Streams[c] = Encode(Columns[c], Values(Columns[c]))
  BY <1>1, <1>6
<1>8. \A c \in 1 .. 5 : Streams[c] \in Seq(Bytes) /\ Len(Streams[c]) \in Nat
  <2> TAKE c \in 1 .. 5
  <2>1. PICK x : x = Streams[c]
    OBVIOUS
  <2>2. c = 5 \/ c \in 1 .. 4
    OBVIOUS
  <2>3. x \in Seq(Bytes)
    BY <1>3, <1>4, <1>6, <2>1, <2>2
  <2>4. Len(x) \in Nat
    BY <2>3
  <2> QED BY <2>1, <2>3, <2>4
<1>9. FlattenSeq(Streams) = Concat(Streams, 5)
  <2>1. Streams = [c \in 1 .. 5 |-> Streams[c]]
    BY <1>6
  <2> QED BY <2>1 DEF Concat
<1>10. Concat(Streams, 5) \in Seq(Bytes)
  BY <1>8, ConcatType
<1> QED BY <1>6, <1>7, <1>8, <1>9, <1>10

\* col_offsets.
LEMMA StartIs ==
  ASSUME NEW lens
  PROVE  /\ Start(lens, 1) = 1
         /\ \A k \in 1 .. 5 : Start(lens, k + 1) = Start(lens, k) + lens[k]
<1> DEFINE Starts(f) == f = [k \in 1 .. 6 |-> IF k = 1 THEN 1 ELSE f[k - 1] + lens[k - 1]]
           s2 == 1 + lens[1]
           s3 == s2 + lens[2]
           s4 == s3 + lens[3]
           s5 == s4 + lens[4]
           s6 == s5 + lens[5]
           g == [k \in 1 .. 6 |-> IF k = 1 THEN 1 ELSE IF k = 2 THEN s2 ELSE IF k = 3 THEN s3
                                  ELSE IF k = 4 THEN s4 ELSE IF k = 5 THEN s5 ELSE s6]
<1>1. /\ g[1] = 1 /\ g[2] = g[1] + lens[1] /\ g[3] = g[2] + lens[2] /\ g[4] = g[3] + lens[3]
      /\ g[5] = g[4] + lens[4] /\ g[6] = g[5] + lens[5] /\ g = [k \in 1 .. 6 |-> g[k]]
  OBVIOUS
<1> HIDE DEF g
<1>2. \A k \in 1 .. 6 : g[k] = IF k = 1 THEN 1 ELSE g[k - 1] + lens[k - 1]
  BY <1>1
<1>3. Starts(g)
  BY <1>1, <1>2, Zenon
<1>4. PICK f : f = (CHOOSE h : Starts(h)) /\ Starts(f)
  <2> HIDE DEF Starts
  <2> QED BY <1>3
<1>5. \A k : Start(lens, k) = f[k]
  <2>1. Len(Columns) + 2 = 6
    BY ColumnsAre
  <2> QED BY <1>4, <2>1 DEF Start
<1>6. f[1] = 1 /\ \A k \in 1 .. 5 : f[k + 1] = f[k] + lens[k]
  <2>1. f[1] = 1
    BY <1>4
  <2>2. \A k \in 1 .. 5 : k + 1 \in 1 .. 6 /\ k + 1 # 1 /\ (k + 1) - 1 = k
    OBVIOUS
  <2> QED BY <1>4, <2>1, <2>2
<1> QED BY <1>5, <1>6

\* The starts that the length table of a good block gives.
LEMMA LensAre ==
  ASSUME events \in Seq(Inputs)
  PROVE  /\ DOMAIN Lens = 1 .. 5
         /\ \A c \in 1 .. 5 : Lens[c] = Len(Streams[c]) /\ Lens[c] \in Nat
         /\ Lens[5] = Len(events)
         /\ \A c \in 1 .. 6 : Start(Lens, c) = 1 + Len(Concat(Streams, c - 1))
                              /\ Start(Lens, c) \in Nat \ {0}
<1>1. /\ DOMAIN Streams = 1 .. 5 /\ Streams[5] = KindBytes
      /\ \A c \in 1 .. 5 : Streams[c] \in Seq(Bytes) /\ Len(Streams[c]) \in Nat
      /\ Concat(Streams, 5) \in Seq(Bytes)
  BY StreamsAre
<1>2. DOMAIN Lens = 1 .. 5 /\ \A c \in 1 .. 5 : Lens[c] = Len(Streams[c]) /\ Lens[c] \in Nat
  BY <1>1 DEF Lens
<1>3. Lens[5] = Len(events)
  BY <1>1, <1>2, ValuesAre
<1> DEFINE l(c) == Len(Concat(Streams, c))
<1>4. l(0) = 0
  <2>1. Concat(Streams, 0) = <<>> /\ Len(<<>>) = 0
    BY ConcatZero
  <2> QED BY <2>1
<1>5. \A c \in 1 .. 5 : l(c) = l(c - 1) + Lens[c]
  <2> TAKE c \in 1 .. 5
  <2>1. PICK b : b = Concat(Streams, 5)
    OBVIOUS
  <2>2. Holds(b, 1, b) /\ Len(b) \in Nat
    BY <1>1, <2>1 DEF Holds
  <2>3. Len(Concat(Streams, c)) = Len(Concat(Streams, c - 1)) + Len(Streams[c])
    <3>1. Holds(b, 1, Concat(Streams, 5)) /\ 1 \in Nat \ {0} /\ 5 \in Nat
      BY <2>1, <2>2
    <3> QED BY <1>1, <2>2, <3>1, ConcatHolds
  <2> QED BY <1>2, <2>3
<1>6. Start(Lens, 1) = 1 /\ \A k \in 1 .. 5 : Start(Lens, k + 1) = Start(Lens, k) + Lens[k]
  BY StartIs
<1> HIDE DEF l
<1>7. ASSUME NEW k \in 1 .. 5, Start(Lens, k) = 1 + l(k - 1), l(k - 1) \in Nat
      PROVE  Start(Lens, k + 1) = 1 + l(k) /\ l(k) \in Nat
  <2>1. PICK x \in Nat : x = Lens[k]
    BY <1>2
  <2>2. PICK a \in Nat : a = l(k - 1)
    BY <1>7
  <2>3. l(k) = a + x
    BY <1>5, <2>1, <2>2, Zenon
  <2>4. Start(Lens, k + 1) = (1 + a) + x
    BY <1>6, <1>7, <2>1, <2>2, Zenon
  <2>5. (1 + a) + x = 1 + (a + x) /\ a + x \in Nat
    OBVIOUS
  <2> QED BY <2>3, <2>4, <2>5, Zenon
<1>8. Start(Lens, 1) = 1 + l(0) /\ l(0) \in Nat
  BY <1>4, <1>6
<1>9. /\ Start(Lens, 2) = 1 + l(1) /\ l(1) \in Nat
      /\ Start(Lens, 3) = 1 + l(2) /\ l(2) \in Nat
      /\ Start(Lens, 4) = 1 + l(3) /\ l(3) \in Nat
  <2>1. Start(Lens, 2) = 1 + l(1) /\ l(1) \in Nat
    BY <1>7, <1>8
  <2>2. Start(Lens, 3) = 1 + l(2) /\ l(2) \in Nat
    BY <1>7, <2>1
  <2> QED BY <1>7, <2>1, <2>2
<1>10. /\ Start(Lens, 5) = 1 + l(4) /\ l(4) \in Nat
       /\ Start(Lens, 6) = 1 + l(5) /\ l(5) \in Nat
  <2>1. Start(Lens, 5) = 1 + l(4) /\ l(4) \in Nat
    BY <1>7, <1>9
  <2> QED BY <1>7, <2>1
<1>11. ASSUME NEW c \in 1 .. 6
       PROVE  Start(Lens, c) = 1 + l(c - 1) /\ Start(Lens, c) \in Nat \ {0}
  <2>1. Start(Lens, c) = 1 + l(c - 1) /\ l(c - 1) \in Nat
    <3>1. CASE c = 1
      BY <1>8, <3>1
    <3>2. CASE c = 2
      BY <1>9, <3>2
    <3>3. CASE c = 3
      BY <1>9, <3>3
    <3>4. CASE c = 4
      BY <1>9, <3>4
    <3>5. CASE c = 5
      BY <1>10, <3>5
    <3>6. CASE c = 6
      BY <1>10, <3>6
    <3> QED BY <3>1, <3>2, <3>3, <3>4, <3>5, <3>6
  <2>2. PICK a \in Nat : a = l(c - 1)
    BY <2>1
  <2>3. Start(Lens, c) = 1 + a /\ 1 + a \in Nat \ {0}
    BY <2>1, <2>2
  <2> QED BY <2>1, <2>3
<1> QED BY <1>2, <1>3, <1>11 DEF l

\* Each stream is in the body where the length table says.
LEMMA BodyHolds ==
  ASSUME events \in Seq(Inputs), NEW c \in 1 .. 5
  PROVE  /\ Holds(FlattenSeq(Streams), Start(Lens, c), Streams[c])
         /\ Start(Lens, c) + Len(Streams[c]) = Start(Lens, c + 1)
         /\ Start(Lens, 6) = Len(FlattenSeq(Streams)) + 1
<1>1. PICK b : b = FlattenSeq(Streams)
  OBVIOUS
<1>2. /\ b = Concat(Streams, 5) /\ b \in Seq(Bytes) /\ Len(b) \in Nat
      /\ \A j \in 1 .. 5 : Streams[j] \in Seq(Bytes)
  BY <1>1, StreamsAre
<1>3. Holds(b, 1, Concat(Streams, 5))
  BY <1>2 DEF Holds
<1>4. 1 \in Nat \ {0} /\ 5 \in Nat
  OBVIOUS
<1>5. Holds(b, 1 + Len(Concat(Streams, c - 1)), Streams[c])
  BY <1>2, <1>3, <1>4, ConcatHolds
<1>6. Start(Lens, c) = 1 + Len(Concat(Streams, c - 1))
  <2>1. c \in 1 .. 6
    OBVIOUS
  <2> QED BY <2>1, LensAre
<1>7. Start(Lens, 6) = Len(b) + 1
  <2>1. 6 \in 1 .. 6 /\ 6 - 1 = 5
    OBVIOUS
  <2>2. Start(Lens, 6) = 1 + Len(Concat(Streams, 5))
    BY <2>1, LensAre
  <2> QED BY <1>2, <2>2
<1>8. Start(Lens, c + 1) = Start(Lens, c) + Len(Streams[c])
  BY StartIs, LensAre
<1> QED BY <1>1, <1>5, <1>6, <1>7, <1>8

\* What holds s from pos on has s there as a subsequence.
LEMMA HeldIs ==
  ASSUME NEW S, NEW b \in Seq(S), NEW s \in Seq(S), NEW pos \in Nat \ {0}, Holds(b, pos, s)
  PROVE  SubSeq(b, pos, pos + Len(s) - 1) = s
<1>1. PICK n \in Nat : n = Len(s)
  OBVIOUS
<1>2. pos + n - 1 <= Len(b) /\ \A i \in 1 .. n : b[pos + (i - 1)] = s[i]
  BY <1>1 DEF Holds
<1>3. PICK r : r = SubSeq(b, pos, pos + n - 1)
  OBVIOUS
<1>4. pos + n - 1 \in Int /\ \A i \in pos .. pos + n - 1 : i \in 1 .. Len(b)
  BY <1>2
<1>5. r \in Seq(S) /\ Len(r) = n /\ \A i \in 1 .. n : r[i] = b[pos + i - 1]
  <2>1. (pos + n - 1) - pos + 1 = n
    OBVIOUS
  <2>2. r = [i \in 1 .. n |-> b[pos + i - 1]]
    BY <1>3, <2>1
  <2>3. \A i \in 1 .. n : pos + i - 1 \in 1 .. Len(b) /\ b[pos + i - 1] \in S
    BY <1>4
  <2> QED BY <2>2, <2>3
<1>6. \A i \in 1 .. n : r[i] = s[i]
  <2> TAKE i \in 1 .. n
  <2>1. pos + i - 1 = pos + (i - 1)
    OBVIOUS
  <2> QED BY <1>2, <1>5, <2>1
<1>7. r = s
  <2>1. s \in Seq(S) /\ Len(s) = n
    BY <1>1
  <2> QED BY <1>5, <1>6, <2>1
<1> QED BY <1>1, <1>3, <1>7

\* The part of a sequence.
LEMMA PartIs ==
  ASSUME NEW S, NEW b \in Seq(S), NEW pos \in Nat \ {0}, NEW n \in Nat, pos + n - 1 <= Len(b)
  PROVE  LET r == SubSeq(b, pos, pos + n - 1)
         IN  r \in Seq(S) /\ Len(r) = n /\ \A i \in 1 .. n : r[i] = b[pos + (i - 1)]
<1>1. PICK r : r = SubSeq(b, pos, pos + n - 1)
  OBVIOUS
<1>2. (pos + n - 1) - pos + 1 = n
  OBVIOUS
<1>3. r = [i \in 1 .. n |-> b[pos + i - 1]]
  BY <1>1, <1>2
<1>4. \A i \in 1 .. n : pos + i - 1 \in 1 .. Len(b) /\ b[pos + i - 1] \in S /\ pos + i - 1 = pos + (i - 1)
  OBVIOUS
<1>5. r \in Seq(S) /\ Len(r) = n /\ \A i \in 1 .. n : r[i] = b[pos + (i - 1)]
  BY <1>3, <1>4
<1> QED BY <1>1, <1>5

\* The values of the columns, with the bytes.
LEMMA WrittenIs ==
  ASSUME events \in Seq(Inputs)
  PROVE  /\ Len(Written) = 5 /\ DOMAIN Written = 1 .. 5
         /\ \A c \in 1 .. 4 : Written[c] = Values(Columns[c])
         /\ Written[5] = KindBytes
<1>1. PICK f : f = [c \in 1 .. 4 |-> Values(Columns[c])]
  OBVIOUS
<1>2. Written = Append(f, KindBytes)
  BY <1>1, ColumnsAre DEF Written
<1> DEFINE S == {f[c] : c \in 1 .. 4} \cup {KindBytes}
<1>3. (\A c \in 1 .. 4 : f[c] \in S) /\ KindBytes \in S /\ f = [c \in 1 .. 4 |-> f[c]]
  BY <1>1
<1> HIDE DEF S
<1> QED BY <1>1, <1>2, <1>3, FiveParts

\* A column whose stream is where the table says is read, if the table has the
\* length of the stream, and no other length is accepted.
LEMMA DecodeColIs ==
  ASSUME events \in Seq(Inputs), NEW b, b.body = FlattenSeq(Streams), b.n = Len(events),
         NEW c \in 1 .. 4, Start(b.lens, c) = Start(Lens, c), b.lens[c] \in Nat,
         Start(b.lens, c) + b.lens[c] <= Len(b.body) + 1
  PROVE  /\ b.lens[c] = Lens[c] => DecodeCol(b, c) = [ok |-> TRUE, out |-> Values(Columns[c])]
         /\ DecodeCol(b, c).ok = TRUE => b.lens[c] = Lens[c]
<1>1. PICK vals : vals = Values(Columns[c])
  OBVIOUS
<1>2. IsColumn(Columns[c], vals) /\ Len(vals) = b.n /\ b.n \in Nat
  BY <1>1, ValuesAre
<1>3. PICK r : r = Streams[c]
  OBVIOUS
<1>4. c \in 1 .. 5 /\ c \in 1 .. 6
  OBVIOUS
<1>5. r = Encode(Columns[c], vals) /\ r \in Seq(Bytes) /\ Len(r) \in Nat /\ Len(r) = Lens[c]
  BY <1>1, <1>3, <1>4, StreamsAre, LensAre
<1>6. PICK body : body = b.body
  OBVIOUS
<1>7. body \in Seq(Bytes) /\ Len(body) \in Nat
  BY <1>6, StreamsAre
<1>8. PICK pos \in Nat \ {0} : pos = Start(b.lens, c)
  BY <1>4, LensAre
<1>9. PICK n \in Nat : n = b.lens[c]
  OBVIOUS
<1>10. Holds(body, pos, r)
  BY <1>3, <1>4, <1>6, <1>8, BodyHolds
<1>11. pos + n - 1 <= Len(body)
  BY <1>6, <1>7, <1>8, <1>9
<1>12. PICK s : s = SubSeq(body, pos, pos + n - 1)
  OBVIOUS
<1>13. s \in Seq(Bytes) /\ Len(s) = n /\ \A i \in 1 .. n : s[i] = body[pos + (i - 1)]
  BY <1>7, <1>11, <1>12, PartIs
<1>14. \A i \in 1 .. Len(r) : r[i] = body[pos + (i - 1)]
  BY <1>10 DEF Holds
<1>15. PICK d : d = Decode(Columns[c], s, 1, Len(vals))
  OBVIOUS
<1>20. 1 \in Nat \ {0} /\ Len(s) \in Nat /\ Len(vals) \in Nat
  BY <1>2, <1>13
<1>21. d.ok \in BOOLEAN
  <2>1. GoesAlong(d, d)
    BY <1>15, <1>20, DecodeExtends
  <2> QED BY <2>1 DEF GoesAlong
<1>16. DecodeCol(b, c) = IF d.ok /\ d.pos = n + 1 THEN [ok |-> TRUE, out |-> d.out] ELSE Corrupt
  <2>1. DecodeCol(b, c) =
          LET x == SubSeq(b.body, Start(b.lens, c), Start(b.lens, c) + b.lens[c] - 1)
              y == Decode(Columns[c], x, 1, b.n)
          IN  IF y.ok /\ y.pos = Len(x) + 1 THEN [ok |-> TRUE, out |-> y.out] ELSE Corrupt
    BY DEF DecodeCol
  <2>2. SubSeq(b.body, Start(b.lens, c), Start(b.lens, c) + b.lens[c] - 1) = s
    BY <1>6, <1>8, <1>9, <1>12
  <2>3. Decode(Columns[c], s, 1, b.n) = d
    BY <1>2, <1>15
  <2> QED BY <1>13, <2>1, <2>2, <2>3
<1>17. Corrupt.ok = FALSE
  BY DEF Corrupt
<1>18. CASE n >= Len(r)
  <2>1. Holds(s, 1, r)
    <3>1. 1 + Len(r) - 1 <= Len(s)
      BY <1>5, <1>13, <1>18
    <3>2. ASSUME NEW i \in 1 .. Len(r) PROVE s[1 + (i - 1)] = r[i]
      <4>1. i \in 1 .. n /\ 1 + (i - 1) = i
        BY <1>5, <1>18
      <4> QED BY <1>13, <1>14, <4>1
    <3> QED BY <3>1, <3>2 DEF Holds
  <2>2. d.ok = TRUE /\ d.pos = 1 + Len(r) /\ d.out = vals
    <3>1. Holds(s, 1, Encode(Columns[c], vals))
      BY <1>5, <2>1
    <3>2. HasDecoded(d, Columns[c], vals, 1)
      BY <1>2, <1>15, <1>20, <3>1, DecodeIs
    <3> QED BY <1>5, <3>2 DEF HasDecoded
  <2>3. n = Len(r) => DecodeCol(b, c) = [ok |-> TRUE, out |-> vals]
    <3>1. n = Len(r) => d.pos = n + 1
      BY <1>5, <2>2
    <3> QED BY <1>16, <2>2, <3>1
  <2>4. n # Len(r) => DecodeCol(b, c).ok = FALSE
    <3>1. n # Len(r) => d.pos # n + 1
      BY <1>5, <2>2
    <3> QED BY <1>16, <1>17, <3>1
  <2> QED BY <1>1, <1>5, <1>9, <2>3, <2>4
<1>19. CASE n < Len(r)
  <2>1. ASSUME d.ok = TRUE PROVE d.pos # n + 1
    <3>1. \A i \in 1 .. Len(s) : r[i] = s[i]
      <4> TAKE i \in 1 .. Len(s)
      <4>1. i \in 1 .. n /\ i \in 1 .. Len(r)
        BY <1>5, <1>13, <1>19
      <4> QED BY <1>13, <1>14, <4>1
    <3>2. Len(s) \in Nat /\ Len(s) <= Len(r) /\ 1 \in Nat \ {0}
      BY <1>5, <1>13, <1>19
    <3>3. Decode(Columns[c], r, 1, Len(vals)) = d
      <4>1. GoesAlong(d, Decode(Columns[c], r, 1, Len(vals)))
        BY <1>5, <1>15, <1>20, <3>1, <3>2, DecodeExtends
      <4> QED BY <2>1, <4>1 DEF GoesAlong
    <3>4. Holds(r, 1, r)
      BY <1>5 DEF Holds
    <3>5. d.pos = 1 + Len(r)
      <4>1. Holds(r, 1, Encode(Columns[c], vals))
        BY <1>5, <3>4
      <4>2. HasDecoded(d, Columns[c], vals, 1)
        BY <1>2, <1>5, <1>20, <3>3, <4>1, DecodeIs
      <4> QED BY <1>5, <4>2 DEF HasDecoded
    <3> QED BY <1>5, <1>19, <3>5
  <2>2. DecodeCol(b, c).ok # TRUE
    <3>1. CASE d.ok /\ d.pos = n + 1
      <4>1. DecodeCol(b, c) = [ok |-> TRUE, out |-> d.out]
        BY <1>16, <3>1
      <4>2. d.ok = TRUE
        BY <1>21, <3>1
      <4> QED BY <2>1, <3>1, <4>2
    <3>2. CASE ~ (d.ok /\ d.pos = n + 1)
      BY <1>16, <1>17, <3>2
    <3> QED BY <3>1, <3>2
  <2>3. b.lens[c] # Lens[c]
    BY <1>5, <1>9, <1>19
  <2> QED BY <2>2, <2>3
<1>22. n >= Len(r) \/ n < Len(r)
  BY <1>5
<1> QED BY <1>18, <1>19, <1>22, Zenon

\* The states of decoding a block of version 1: after each of its columns.
ColumnsUpto(f, b, n) ==
  f = [c \in 0 .. n |-> IF c = 0 THEN [ok |-> TRUE, pos |-> 1, cols |-> <<>>]
                        ELSE TakeColumn(b, f[c - 1], c)]

\* DecodeSequential is TakeColumn for each column in turn.
LEMMA SequentialRuns ==
  ASSUME NEW b
  PROVE  \E f : /\ ColumnsUpto(f, b, 4)
                /\ f = (CHOOSE h : ColumnsUpto(h, b, 4))
<1> DEFINE s0 == [ok |-> TRUE, pos |-> 1, cols |-> <<>>]
           s1 == TakeColumn(b, s0, 1)
           s2 == TakeColumn(b, s1, 2)
           s3 == TakeColumn(b, s2, 3)
           s4 == TakeColumn(b, s3, 4)
<1>1. PICK t0, t1, t2, t3, t4 : t0 = s0 /\ t1 = s1 /\ t2 = s2 /\ t3 = s3 /\ t4 = s4
  OBVIOUS
<1>2. /\ t1 = TakeColumn(b, t0, 1) /\ t2 = TakeColumn(b, t1, 2)
      /\ t3 = TakeColumn(b, t2, 3) /\ t4 = TakeColumn(b, t3, 4)
  BY <1>1, Zenon
<1> DEFINE g == [c \in 0 .. 4 |-> IF c = 0 THEN t0 ELSE IF c = 1 THEN t1 ELSE IF c = 2 THEN t2
                                  ELSE IF c = 3 THEN t3 ELSE t4]
<1>3. g[0] = t0 /\ g[1] = t1 /\ g[2] = t2 /\ g[3] = t3 /\ g[4] = t4 /\ g = [c \in 0 .. 4 |-> g[c]]
  OBVIOUS
<1> HIDE DEF g
<1>4. \A c \in 0 .. 4 : g[c] = IF c = 0 THEN t0 ELSE TakeColumn(b, g[c - 1], c)
  <2> TAKE c \in 0 .. 4
  <2>1. c = 0 \/ c = 1 \/ c = 2 \/ c = 3 \/ c = 4
    OBVIOUS
  <2> QED BY <1>2, <1>3, <2>1
<1>5. ColumnsUpto(g, b, 4)
  <2>1. \A c \in 0 .. 4 : g[c] = IF c = 0 THEN [ok |-> TRUE, pos |-> 1, cols |-> <<>>]
                                 ELSE TakeColumn(b, g[c - 1], c)
    BY <1>1, <1>4, Zenon
  <2> QED BY <1>3, <2>1, Zenon DEF ColumnsUpto
<1> QED BY <1>5

\* The first columns.
ColumnsRead(k) == [c \in 1 .. k |-> Values(Columns[c])]

\* One column more.
LEMMA ColumnsReadNext ==
  ASSUME NEW k \in 1 .. 4
  PROVE  Append(ColumnsRead(k - 1), Values(Columns[k])) = ColumnsRead(k)
<1> DEFINE S == {Values(Columns[c]) : c \in 1 .. 4}
<1>1. \A c \in 1 .. 4 : Values(Columns[c]) \in S
  OBVIOUS
<1>2. PICK w : w = [c \in 1 .. 4 |-> Values(Columns[c])]
  OBVIOUS
<1> HIDE DEF S
<1>3. \A c \in 1 .. 4 : w[c] = Values(Columns[c]) /\ w[c] \in S
  BY <1>1, <1>2
<1>4. PICK x : x = ColumnsRead(k - 1)
  OBVIOUS
<1>5. PICK y : y = ColumnsRead(k)
  OBVIOUS
<1>6. x \in Seq(S) /\ Len(x) = k - 1 /\ \A c \in 1 .. k - 1 : x[c] = w[c]
  <2>1. x = [c \in 1 .. k - 1 |-> w[c]]
    BY <1>3, <1>4 DEF ColumnsRead
  <2> QED BY <1>3, <2>1
<1>7. y \in Seq(S) /\ Len(y) = k /\ \A c \in 1 .. k : y[c] = w[c]
  <2>1. y = [c \in 1 .. k |-> w[c]]
    BY <1>3, <1>5 DEF ColumnsRead
  <2> QED BY <1>3, <2>1
<1>8. PICK z : z = Append(x, w[k])
  OBVIOUS
<1>9. z \in Seq(S) /\ Len(z) = k /\ z[k] = w[k] /\ \A c \in 1 .. k - 1 : z[c] = x[c]
  BY <1>3, <1>6, <1>8
<1>10. \A c \in 1 .. k : z[c] = y[c]
  <2> TAKE c \in 1 .. k
  <2>1. CASE c = k
    BY <1>7, <1>9, <2>1
  <2>2. CASE c # k
    <3>1. c \in 1 .. k - 1
      BY <2>2
    <3> QED BY <1>6, <1>7, <1>9, <3>1
  <2> QED BY <2>1, <2>2
<1>11. z = y
  BY <1>7, <1>9, <1>10
<1> QED BY <1>3, <1>4, <1>5, <1>8, <1>11

\* A block with the body as written.
LEMMA SequentialIs ==
  ASSUME events \in Seq(Inputs), NEW b, b.body = FlattenSeq(Streams), b.n = Len(events)
  PROVE  DecodeSequential(b) = [ok |-> TRUE, cols |-> Written]
<1>1. PICK f : ColumnsUpto(f, b, 4) /\ f = (CHOOSE h : ColumnsUpto(h, b, 4))
  BY SequentialRuns
<1>2. PICK body : body = b.body
  OBVIOUS
<1>3. body \in Seq(Bytes) /\ Len(body) \in Nat /\ body = FlattenSeq(Streams)
  BY <1>2, StreamsAre
<1>4. Len(events) \in Nat
  BY ValuesAre
<1> DEFINE Read(s, c) == s = [ok |-> TRUE, pos |-> Start(Lens, c + 1), cols |-> ColumnsRead(c)]
<1>5. Read(f[0], 0)
  <2>1. f[0] = [ok |-> TRUE, pos |-> 1, cols |-> <<>>]
    BY <1>1 DEF ColumnsUpto
  <2>2. ColumnsRead(0) = <<>>
    BY DEF ColumnsRead
  <2>3. Start(Lens, 1) = 1
    BY StartIs
  <2>4. 0 + 1 = 1
    OBVIOUS
  <2>5. f[0] = [ok |-> TRUE, pos |-> Start(Lens, 0 + 1), cols |-> ColumnsRead(0)]
    BY <2>1, <2>2, <2>3, <2>4, Zenon
  <2> QED BY <2>5, Zenon
<1>6. ASSUME NEW c \in 1 .. 4, Read(f[c - 1], c - 1) PROVE Read(f[c], c)
  <2>1. f[c] = TakeColumn(b, f[c - 1], c)
    <3>1. c \in 0 .. 4 /\ c # 0
      OBVIOUS
    <3> QED BY <1>1, <3>1 DEF ColumnsUpto
  <2>2. PICK pos \in Nat \ {0} : pos = Start(Lens, c)
    <3>1. c \in 1 .. 6
      OBVIOUS
    <3> QED BY <3>1, LensAre
  <2>3. PICK s : s = f[c - 1]
    OBVIOUS
  <2>4. s.ok = TRUE /\ s.pos = pos /\ s.cols = ColumnsRead(c - 1)
    <3>1. (c - 1) + 1 = c
      OBVIOUS
    <3> QED BY <1>6, <2>2, <2>3, <3>1
  <2>5. PICK vals : vals = Values(Columns[c])
    OBVIOUS
  <2>6. IsColumn(Columns[c], vals) /\ Len(vals) = Len(events)
    BY <2>5, ValuesAre
  <2>7. PICK d : d = Decode(Columns[c], body, pos, Len(vals))
    OBVIOUS
  <2>8. c \in 1 .. 5 /\ Streams[c] = Encode(Columns[c], vals)
    BY <2>5, StreamsAre
  <2>9. Holds(body, pos, Encode(Columns[c], vals)) /\ pos + Len(Encode(Columns[c], vals)) = Start(Lens, c + 1)
    BY <1>3, <2>2, <2>8, BodyHolds
  <2>10. HasDecoded(d, Columns[c], vals, pos)
    BY <1>3, <2>6, <2>7, <2>9, DecodeIs
  <2>11. d.ok = TRUE /\ d.pos = Start(Lens, c + 1) /\ d.out = vals
    BY <2>9, <2>10 DEF HasDecoded
  <2>12. Decode(Columns[c], b.body, s.pos, b.n) = d
    BY <1>2, <2>4, <2>6, <2>7
  <2>13. TakeColumn(b, s, c) = [ok |-> TRUE, pos |-> d.pos, cols |-> Append(s.cols, d.out)]
    <3>1. s.ok /\ d.ok
      BY <2>4, <2>11
    <3> QED BY <2>12, <3>1 DEF TakeColumn
  <2>14. Append(s.cols, d.out) = ColumnsRead(c)
    BY <2>4, <2>5, <2>11, ColumnsReadNext
  <2> QED BY <2>1, <2>3, <2>11, <2>13, <2>14
<1> HIDE DEF Read
<1>7. Read(f[4], 4)
  <2>1. Read(f[1], 1)
    BY <1>5, <1>6
  <2>2. Read(f[2], 2)
    BY <1>6, <2>1
  <2>3. Read(f[3], 3)
    BY <1>6, <2>2
  <2> QED BY <1>6, <2>3
<1>8. PICK s : s = f[4]
  OBVIOUS
<1>9. s.ok = TRUE /\ s.pos = Start(Lens, 5) /\ s.cols = ColumnsRead(4)
  <2>1. 4 + 1 = 5
    OBVIOUS
  <2> QED BY <1>7, <1>8, <2>1 DEF Read
<1>10. PICK n \in Nat : n = Len(events)
  BY <1>4
<1>11. PICK pos \in Nat \ {0} : pos = Start(Lens, 5)
  BY LensAre
<1>12. Streams[5] = KindBytes /\ KindBytes \in Seq(Bytes) /\ Len(KindBytes) = n
  BY <1>10, StreamsAre, ValuesAre
<1>13. Holds(body, pos, KindBytes) /\ pos + n = Len(body) + 1
  <2>1. /\ Holds(FlattenSeq(Streams), Start(Lens, 5), Streams[5])
        /\ Start(Lens, 5) + Len(Streams[5]) = Start(Lens, 6)
        /\ Start(Lens, 6) = Len(FlattenSeq(Streams)) + 1
    <3>1. 5 \in 1 .. 5 /\ 5 + 1 = 6
      OBVIOUS
    <3> QED BY <3>1, BodyHolds
  <2> QED BY <1>3, <1>11, <1>12, <2>1
<1>14. Len(body) - pos + 1 = n
  BY <1>3, <1>13
<1>15. SubSeq(body, pos, pos + n - 1) = KindBytes
  BY <1>3, <1>12, <1>13, HeldIs
<1>16. Append(ColumnsRead(4), KindBytes) = Written
  BY ColumnsAre DEF ColumnsRead, Written
<1>17. DecodeSequential(b) =
         IF s.ok /\ Len(b.body) - s.pos + 1 = b.n
         THEN [ok |-> TRUE, cols |-> Append(s.cols, SubSeq(b.body, s.pos, s.pos + b.n - 1))]
         ELSE Corrupt
  BY <1>1, <1>8, ColumnsAre DEF DecodeSequential, ColumnsUpto
<1>18. s.ok /\ Len(b.body) - s.pos + 1 = b.n
  BY <1>2, <1>9, <1>10, <1>11, <1>14
<1>19. SubSeq(b.body, s.pos, s.pos + b.n - 1) = KindBytes
  BY <1>2, <1>9, <1>10, <1>11, <1>15
<1> QED BY <1>9, <1>16, <1>17, <1>18, <1>19

Body == FlattenSeq(Streams)

\* A block as encode_block has made it.
IsEncoded(b) ==
  /\ events # <<>>
  /\ b.version \in {1, 2} /\ b.n = Len(events) /\ b.body = Body
  /\ b.version = 2 => b.lens = Lens

IsBlock(b) == b = [version |-> b.version, n |-> b.n, lens |-> b.lens, body |-> b.body]

\* Two entries of the length table are changed, and their sum is not.
IsShifted(lens, c, d) ==
  /\ c \in 1 .. 5 /\ d \in 1 .. 5 /\ c # d
  /\ \E by \in 1 .. Lens[d] : lens[c] = Lens[c] + by /\ lens[d] = Lens[d] - by
  /\ \A j \in 1 .. 5 : j # c /\ j # d => lens[j] = Lens[j]

\* What a struck header may be, if the block has a length table.
IsStruck(b) ==
  /\ events # <<>> /\ b.version \in {1, 2} /\ b.body = Body
  /\ b.version = 2 =>
       \/ b.lens = Lens /\ b.n \in Nat
       \/ b.n = Len(events) /\ \E c, d \in 1 .. 5 : IsShifted(b.lens, c, d)

BlockInv ==
  /\ events \in Seq(Inputs) /\ struck \in BOOLEAN
  /\ \/ block = NoBlock /\ struck = FALSE
     \/ struck = FALSE /\ IsBlock(block) /\ IsEncoded(block)
     \/ struck = TRUE /\ IsStruck(block)

\* A good block of version 2: its header is fine, and each of its parts is read.
LEMMA GoodParts ==
  ASSUME events \in Seq(Inputs), NEW b, IsEncoded(b), b.version = 2
  PROVE  /\ HeaderOk(b)
         /\ \A c \in 1 .. 4 : DecodeCol(b, c) = [ok |-> TRUE, out |-> Values(Columns[c])]
         /\ ByteColumn(b) = KindBytes
<1>1. b.n = Len(events) /\ b.body = FlattenSeq(Streams) /\ b.lens = Lens /\ events # <<>>
  BY DEF IsEncoded, Body
<1>2. Len(events) \in Nat /\ Len(events) > 0
  <2>1. Len(events) \in Nat /\ Len(events) # 0
    BY <1>1
  <2> QED BY <2>1
<1>3. Len(Columns) = 4
  BY ColumnsAre
<1>4. /\ Start(Lens, 6) = Len(b.body) + 1
      /\ \A c \in 1 .. 5 : Start(Lens, c) + Lens[c] = Start(Lens, c + 1)
  <2>1. Start(Lens, 6) = Len(b.body) + 1
    <3>1. 1 \in 1 .. 5
      OBVIOUS
    <3> QED BY <1>1, <3>1, BodyHolds
  <2>2. \A c \in 1 .. 5 : Start(Lens, c) + Lens[c] = Start(Lens, c + 1)
    BY StartIs
  <2> QED BY <2>1, <2>2
<1>5. HeaderOk(b)
  <2>1. Start(b.lens, Len(Columns) + 2) = Len(b.body) + 1
    <3>1. Len(Columns) + 2 = 6
      BY <1>3
    <3> QED BY <1>1, <1>4, <3>1
  <2>2. b.lens[Len(Columns) + 1] = b.n
    <3>1. Len(Columns) + 1 = 5
      BY <1>3
    <3> QED BY <1>1, <3>1, LensAre
  <2> QED BY <1>1, <1>2, <2>1, <2>2 DEF HeaderOk
<1>6. ASSUME NEW c \in 1 .. 4
      PROVE  DecodeCol(b, c) = [ok |-> TRUE, out |-> Values(Columns[c])]
  <2>1. c \in 1 .. 5 /\ c \in 1 .. 6
    OBVIOUS
  <2>2. Lens[c] \in Nat
    BY <2>1, LensAre
  <2>3. Start(Lens, c) + Lens[c] <= Len(b.body) + 1
    <3>1. /\ Start(Lens, c) + Lens[c] = Start(Lens, c + 1)
          /\ Start(Lens, 2) + Lens[2] = Start(Lens, 3) /\ Start(Lens, 3) + Lens[3] = Start(Lens, 4)
          /\ Start(Lens, 4) + Lens[4] = Start(Lens, 5) /\ Start(Lens, 5) + Lens[5] = Start(Lens, 6)
      <4>1. 2 + 1 = 3 /\ 3 + 1 = 4 /\ 4 + 1 = 5 /\ 5 + 1 = 6
        OBVIOUS
      <4> QED BY <1>4, <2>1, <4>1
    <3>2. \A j \in 2 .. 5 : Lens[j] \in Nat /\ Start(Lens, j) \in Nat
      <4> TAKE j \in 2 .. 5
      <4>1. j \in 1 .. 5 /\ j \in 1 .. 6
        OBVIOUS
      <4> QED BY <4>1, LensAre
    <3>3. Start(Lens, 6) \in Nat
      BY LensAre
    <3>4. /\ Start(Lens, 2) <= Start(Lens, 6) /\ Start(Lens, 3) <= Start(Lens, 6)
          /\ Start(Lens, 4) <= Start(Lens, 6) /\ Start(Lens, 5) <= Start(Lens, 6)
      <4>1. \A x, y, z \in Nat : x + y = z => x <= z
        OBVIOUS
      <4>2. \A x, y, z \in Nat : x <= y /\ y <= z => x <= z
        OBVIOUS
      <4>3. Start(Lens, 2) <= Start(Lens, 3) /\ Start(Lens, 3) <= Start(Lens, 4)
            /\ Start(Lens, 4) <= Start(Lens, 5) /\ Start(Lens, 5) <= Start(Lens, 6)
        <5>1. ASSUME NEW j \in 2 .. 5 PROVE Start(Lens, j) <= Start(Lens, j + 1)
          <6>1. PICK x \in Nat : x = Lens[j]
            BY <3>2
          <6>2. PICK y \in Nat : y = Start(Lens, j)
            BY <3>2
          <6>3. j \in 1 .. 5
            OBVIOUS
          <6>4. Start(Lens, j + 1) = y + x
            BY <1>4, <6>1, <6>2, <6>3, Zenon
          <6> QED BY <6>2, <6>4
        <5>2. 2 + 1 = 3 /\ 3 + 1 = 4 /\ 4 + 1 = 5 /\ 5 + 1 = 6
          OBVIOUS
        <5> QED BY <5>1, <5>2
      <4>4. Start(Lens, 4) <= Start(Lens, 6)
        BY <3>2, <3>3, <4>2, <4>3
      <4>5. Start(Lens, 3) <= Start(Lens, 6)
        BY <3>2, <3>3, <4>2, <4>3, <4>4
      <4> QED BY <3>2, <3>3, <4>2, <4>3, <4>4, <4>5
    <3>5. c + 1 = 2 \/ c + 1 = 3 \/ c + 1 = 4 \/ c + 1 = 5
      OBVIOUS
    <3>6. Start(Lens, c + 1) <= Start(Lens, 6)
      BY <3>4, <3>5
    <3> QED BY <1>4, <3>1, <3>6
  <2> QED BY <1>1, <2>2, <2>3, DecodeColIs
<1>7. ByteColumn(b) = KindBytes
  <2>1. PICK body : body = b.body
    OBVIOUS
  <2>2. body \in Seq(Bytes) /\ Len(body) \in Nat
    BY <1>1, <2>1, StreamsAre
  <2>3. PICK pos \in Nat \ {0} : pos = Start(Lens, 5)
    BY LensAre
  <2>4. Streams[5] = KindBytes /\ KindBytes \in Seq(Bytes) /\ Len(KindBytes) \in Nat
    BY StreamsAre, ValuesAre
  <2>5. /\ Holds(body, pos, KindBytes) /\ pos + Len(KindBytes) = Len(body) + 1
    <3>1. 5 \in 1 .. 5 /\ 5 + 1 = 6
      OBVIOUS
    <3>2. /\ Holds(FlattenSeq(Streams), Start(Lens, 5), Streams[5])
          /\ Start(Lens, 5) + Len(Streams[5]) = Start(Lens, 6)
      BY <3>1, BodyHolds
    <3> QED BY <1>1, <1>4, <2>1, <2>3, <2>4, <3>2
  <2>6. pos + Len(KindBytes) - 1 = Len(body)
    BY <2>2, <2>4, <2>5
  <2>7. SubSeq(body, pos, Len(body)) = KindBytes
    BY <2>2, <2>4, <2>5, <2>6, HeldIs
  <2>8. Len(Columns) + 1 = 5
    BY <1>3
  <2> QED BY <1>1, <2>1, <2>3, <2>7, <2>8 DEF ByteColumn
<1> QED BY <1>5, <1>6, <1>7

\* A good block is decoded to what was written.
LEMMA GoodDecodes ==
  ASSUME events \in Seq(Inputs), NEW b, IsEncoded(b)
  PROVE  DecodeBlock(b) = [ok |-> TRUE, cols |-> Written]
<1>1. b.n = Len(events) /\ b.body = FlattenSeq(Streams) /\ b.version \in {1, 2} /\ events # <<>>
  BY DEF IsEncoded, Body
<1>2. CASE b.version = 1
  <2>1. HeaderOk(b)
    <3>1. b.n > 0
      <4>1. Len(events) \in Nat /\ Len(events) # 0
        BY <1>1
      <4> QED BY <1>1, <4>1
    <3> QED BY <1>2, <3>1 DEF HeaderOk
  <2>2. DecodeBlock(b) = DecodeSequential(b)
    BY <1>2, <2>1 DEF DecodeBlock
  <2> QED BY <1>1, <2>2, SequentialIs
<1>3. CASE b.version = 2
  <2>1. /\ HeaderOk(b) /\ ByteColumn(b) = KindBytes
        /\ \A c \in 1 .. 4 : DecodeCol(b, c) = [ok |-> TRUE, out |-> Values(Columns[c])]
    BY <1>3, GoodParts
  <2>2. \A c \in 1 .. 4 : DecodeCol(b, c).ok = TRUE /\ DecodeCol(b, c).out = Values(Columns[c])
    BY <2>1
  <2>3. DOMAIN Columns = 1 .. 4
    BY ColumnsAre
  <2>4. ~ (HeaderOk(b) /\ b.version = 1)
    BY <1>3
  <2>5. \A c \in DOMAIN Columns : DecodeCol(b, c).ok
    BY <2>2, <2>3
  <2>6. DecodeBlock(b) =
          [ok |-> TRUE, cols |-> Append([c \in DOMAIN Columns |-> DecodeCol(b, c).out], ByteColumn(b))]
    BY <2>1, <2>4, <2>5 DEF DecodeBlock
  <2>7. [c \in DOMAIN Columns |-> DecodeCol(b, c).out] = [c \in DOMAIN Columns |-> Values(Columns[c])]
    BY <2>2, <2>3
  <2>8. Append([c \in DOMAIN Columns |-> DecodeCol(b, c).out], ByteColumn(b)) = Written
    BY <2>1, <2>7 DEF Written
  <2> QED BY <2>6, <2>8
<1> QED BY <1>1, <1>2, <1>3

\* And any selection of its columns to what was written of these.
LEMMA GoodSelects ==
  ASSUME events \in Seq(Inputs), NEW b, IsEncoded(b), NEW sel \in SUBSET (1 .. 5)
  PROVE  DecodeBlockColumns(b, sel) = [ok |-> TRUE, cols |-> [c \in sel |-> Written[c]]]
<1>1. b.n = Len(events) /\ b.body = FlattenSeq(Streams) /\ b.version \in {1, 2} /\ events # <<>>
  BY DEF IsEncoded, Body
<1>2. CASE b.version = 1
  <2>1. HeaderOk(b)
    <3>1. b.n > 0
      <4>1. Len(events) \in Nat /\ Len(events) # 0
        BY <1>1
      <4> QED BY <1>1, <4>1
    <3> QED BY <1>2, <3>1 DEF HeaderOk
  <2>2. PICK all : all = DecodeSequential(b)
    OBVIOUS
  <2>3. all = [ok |-> TRUE, cols |-> Written]
    BY <1>1, <2>2, SequentialIs
  <2>4. all.ok = TRUE /\ all.cols = Written
    BY <2>3
  <2>5. DecodeBlockColumns(b, sel) =
          IF all.ok THEN [ok |-> TRUE, cols |-> [c \in sel |-> all.cols[c]]] ELSE Corrupt
    BY <1>2, <2>1, <2>2 DEF DecodeBlockColumns
  <2> QED BY <2>4, <2>5
<1>3. CASE b.version = 2
  <2>1. /\ HeaderOk(b) /\ ByteColumn(b) = KindBytes
        /\ \A c \in 1 .. 4 : DecodeCol(b, c) = [ok |-> TRUE, out |-> Values(Columns[c])]
    BY <1>3, GoodParts
  <2>2. \A c \in 1 .. 4 : DecodeCol(b, c).ok = TRUE /\ DecodeCol(b, c).out = Values(Columns[c])
    BY <2>1
  <2>3. DOMAIN Columns = 1 .. 4
    BY ColumnsAre
  <2>4. b.version # 1
    BY <1>3
  <2>5. \A c \in sel \cap DOMAIN Columns : DecodeCol(b, c).ok
    BY <2>2, <2>3
  <2>6. DecodeBlockColumns(b, sel) =
          [ok |-> TRUE, cols |-> [c \in sel |-> IF c \in DOMAIN Columns THEN DecodeCol(b, c).out
                                               ELSE ByteColumn(b)]]
    BY <2>1, <2>4, <2>5 DEF DecodeBlockColumns
  <2>7. ASSUME NEW c \in sel
        PROVE  (IF c \in DOMAIN Columns THEN DecodeCol(b, c).out ELSE ByteColumn(b)) = Written[c]
    <3>1. CASE c \in 1 .. 4
      BY <2>2, <2>3, <3>1, WrittenIs
    <3>2. CASE c \notin 1 .. 4
      <4>1. c = 5
        BY <3>2
      <4> QED BY <2>1, <2>3, <3>2, <4>1, WrittenIs
    <3> QED BY <3>1, <3>2
  <2>8. [c \in sel |-> IF c \in DOMAIN Columns THEN DecodeCol(b, c).out ELSE ByteColumn(b)]
          = [c \in sel |-> Written[c]]
    BY <2>7
  <2> QED BY <2>6, <2>8
<1> QED BY <1>1, <1>2, <1>3

\* A table that was shifted is found out.
LEMMA ShiftedIsFound ==
  ASSUME events \in Seq(Inputs), NEW b, b.body = Body, b.n = Len(events), b.version = 2,
         NEW c, NEW d, IsShifted(b.lens, c, d), HeaderOk(b)
  PROVE  \E m \in 1 .. 4 : DecodeCol(b, m).ok # TRUE
<1>1. c \in 1 .. 5 /\ d \in 1 .. 5 /\ c # d
  BY DEF IsShifted
<1>2. PICK by \in 1 .. Lens[d] : b.lens[c] = Lens[c] + by /\ b.lens[d] = Lens[d] - by
  BY DEF IsShifted
<1>3. \A j \in 1 .. 5 : j # c /\ j # d => b.lens[j] = Lens[j]
  BY DEF IsShifted
<1>4. /\ \A j \in 1 .. 5 : Lens[j] \in Nat
      /\ Lens[5] = Len(events)
      /\ \A j \in 1 .. 6 : Start(Lens, j) \in Nat \ {0}
  BY LensAre
<1>5. by \in Nat /\ by >= 1 /\ by <= Lens[d]
  BY <1>1, <1>4
<1>6. Start(b.lens, 6) = Len(b.body) + 1 /\ b.lens[5] = b.n
  <2>1. Len(Columns) + 2 = 6 /\ Len(Columns) + 1 = 5
    BY ColumnsAre
  <2> QED BY <2>1 DEF HeaderOk
<1>7. c # 5 /\ d # 5
  <2>1. b.lens[5] = Lens[5]
    BY <1>4, <1>6
  <2>2. Lens[c] \in Nat /\ Lens[d] \in Nat
    BY <1>1, <1>4
  <2>3. b.lens[c] # Lens[c] /\ b.lens[d] # Lens[d]
    BY <1>2, <1>5, <2>2
  <2> QED BY <2>1, <2>3
<1>8. \A j \in 1 .. 5 : b.lens[j] \in Nat
  <2> TAKE j \in 1 .. 5
  <2>1. Lens[j] \in Nat
    BY <1>4
  <2>2. CASE j = c
    BY <1>2, <1>5, <2>1, <2>2
  <2>3. CASE j = d
    BY <1>2, <1>5, <2>1, <2>3
  <2> QED BY <1>3, <2>1, <2>2, <2>3
<1>9. PICK m \in 1 .. 4 : /\ m = c \/ m = d
                          /\ \A j \in 1 .. 5 : j < m => j # c /\ j # d
  <2>1. CASE c < d
    <3>1. c \in 1 .. 4 /\ \A j \in 1 .. 5 : j < c => j # c /\ j # d
      BY <1>1, <1>7, <2>1
    <3> QED BY <3>1
  <2>2. CASE ~ (c < d)
    <3>1. d \in 1 .. 4 /\ \A j \in 1 .. 5 : j < d => j # c /\ j # d
      BY <1>1, <1>7, <2>2
    <3> QED BY <3>1
  <2> QED BY <2>1, <2>2
<1>10. m \in 1 .. 5 /\ m \in 1 .. 6 /\ b.lens[m] # Lens[m] /\ b.lens[m] \in Nat
  <2>1. m \in 1 .. 5 /\ m \in 1 .. 6
    OBVIOUS
  <2>2. Lens[m] \in Nat /\ b.lens[m] \in Nat
    BY <1>4, <1>8, <2>1
  <2>3. b.lens[m] # Lens[m]
    BY <1>2, <1>5, <1>9, <2>2
  <2> QED BY <2>1, <2>2, <2>3
<1>11. PICK l : l = b.lens
  OBVIOUS
<1>12. /\ Start(l, 1) = 1 /\ Start(Lens, 1) = 1
       /\ \A k \in 1 .. 5 : /\ Start(l, k + 1) = Start(l, k) + l[k]
                            /\ Start(Lens, k + 1) = Start(Lens, k) + Lens[k]
  BY StartIs
<1>13. \A j \in 1 .. 5 : j < m => l[j] = Lens[j]
  BY <1>3, <1>9, <1>11
<1>14. Start(l, m) = Start(Lens, m)
  <2>1. ASSUME NEW k \in 1 .. 5, k < m, Start(l, k) = Start(Lens, k)
        PROVE  Start(l, k + 1) = Start(Lens, k + 1)
    BY <1>12, <1>13, <2>1
  <2>2. Start(l, 1) = Start(Lens, 1)
    BY <1>12
  <2>3. 1 < m => Start(l, 2) = Start(Lens, 2)
    <3>1. 1 + 1 = 2 /\ 1 \in 1 .. 5
      OBVIOUS
    <3> QED BY <2>1, <2>2, <3>1
  <2>4. 2 < m => Start(l, 3) = Start(Lens, 3)
    <3>1. 2 + 1 = 3 /\ 2 \in 1 .. 5 /\ (2 < m => 1 < m)
      OBVIOUS
    <3> QED BY <2>1, <2>3, <3>1
  <2>5. 3 < m => Start(l, 4) = Start(Lens, 4)
    <3>1. 3 + 1 = 4 /\ 3 \in 1 .. 5 /\ (3 < m => 2 < m)
      OBVIOUS
    <3> QED BY <2>1, <2>4, <3>1
  <2>6. m = 1 \/ (m = 2 /\ 1 < m) \/ (m = 3 /\ 2 < m) \/ (m = 4 /\ 3 < m)
    OBVIOUS
  <2> QED BY <2>2, <2>3, <2>4, <2>5, <2>6
<1>15. Start(l, m) + l[m] <= Len(b.body) + 1
  <2>1. ASSUME NEW k \in 1 .. 5, Start(l, k) \in Nat
        PROVE  Start(l, k + 1) \in Nat /\ Start(l, k) <= Start(l, k + 1)
    <3>1. PICK x \in Nat : x = l[k]
      BY <1>8, <1>11
    <3>2. PICK y \in Nat : y = Start(l, k)
      BY <2>1
    <3>3. Start(l, k + 1) = y + x
      BY <1>12, <3>1, <3>2
    <3> QED BY <3>2, <3>3
  <2>2. Start(l, 1) \in Nat
    BY <1>12
  <2>3. 1 + 1 = 2 /\ 2 + 1 = 3 /\ 3 + 1 = 4 /\ 4 + 1 = 5 /\ 5 + 1 = 6
    OBVIOUS
  <2>4. Start(l, 2) \in Nat
    BY <2>1, <2>2, <2>3
  <2>5. Start(l, 3) \in Nat /\ Start(l, 2) <= Start(l, 3)
    BY <2>1, <2>3, <2>4
  <2>6. Start(l, 4) \in Nat /\ Start(l, 3) <= Start(l, 4)
    BY <2>1, <2>3, <2>5
  <2>7. Start(l, 5) \in Nat /\ Start(l, 4) <= Start(l, 5)
    BY <2>1, <2>3, <2>6
  <2>8. Start(l, 6) \in Nat /\ Start(l, 5) <= Start(l, 6)
    BY <2>1, <2>3, <2>7
  <2>9. \A x, y, z \in Nat : x <= y /\ y <= z => x <= z
    OBVIOUS
  <2>10. Start(l, 4) <= Start(l, 6)
    BY <2>6, <2>7, <2>8, <2>9
  <2>11. Start(l, 3) <= Start(l, 6)
    BY <2>5, <2>6, <2>8, <2>9, <2>10
  <2>12. Start(l, 2) <= Start(l, 6)
    BY <2>4, <2>5, <2>8, <2>9, <2>11
  <2>13. m + 1 = 2 \/ m + 1 = 3 \/ m + 1 = 4 \/ m + 1 = 5
    OBVIOUS
  <2>14. Start(l, m + 1) <= Start(l, 6)
    BY <2>8, <2>10, <2>11, <2>12, <2>13
  <2>15. Start(l, m + 1) = Start(l, m) + l[m]
    BY <1>10, <1>12
  <2> QED BY <1>6, <1>11, <2>14, <2>15
<1>16. DecodeCol(b, m).ok = TRUE => b.lens[m] = Lens[m]
  <2>1. b.body = FlattenSeq(Streams)
    BY DEF Body
  <2> QED BY <1>10, <1>11, <1>14, <1>15, <2>1, DecodeColIs
<1> QED BY <1>10, <1>16

\* A field of a block is changed, and the others are not.
LEMMA FieldIsChanged ==
  ASSUME NEW b, IsBlock(b), NEW x
  PROVE  /\ [b EXCEPT !.n = x].version = b.version /\ [b EXCEPT !.n = x].body = b.body
         /\ [b EXCEPT !.n = x].lens = b.lens /\ [b EXCEPT !.n = x].n = x
         /\ [b EXCEPT !.lens = x].version = b.version /\ [b EXCEPT !.lens = x].body = b.body
         /\ [b EXCEPT !.lens = x].n = b.n /\ [b EXCEPT !.lens = x].lens = x
<1>1. PICK v, n, l, y : b = [version |-> v, n |-> n, lens |-> l, body |-> y]
  BY DEF IsBlock
<1> QED BY <1>1

\* A block of version 0 is none.
LEMMA NoBlockIs == NoBlock.version = 0
  BY DEF NoBlock

\* The invariant: at the start, ...
LEMMA BlockInitInv == BlockInit => BlockInv
<1> SUFFICES ASSUME BlockInit PROVE BlockInv
  OBVIOUS
<1>1. events = <<>> /\ block = NoBlock /\ struck = FALSE
  BY DEF BlockInit
<1>2. events \in Seq(Inputs)
  BY <1>1
<1> QED BY <1>1, <1>2 DEF BlockInv

\* ... after a change to the header, ...
LEMMA StrikeInv ==
  ASSUME BlockInv, StrikeHeader
  PROVE  BlockInv'
<1>1. /\ block # NoBlock /\ struck = FALSE /\ struck' = TRUE /\ events' = events
      /\ events \in Seq(Inputs)
  BY DEF StrikeHeader, BlockInv
<1>2. IsBlock(block) /\ IsEncoded(block)
  BY <1>1 DEF BlockInv
<1>3. /\ events # <<>> /\ block.version \in {1, 2} /\ block.n = Len(events) /\ block.body = Body
      /\ block.version = 2 => block.lens = Lens
  BY <1>2 DEF IsEncoded
<1>4. Body' = Body /\ Lens' = Lens
  BY <1>1 DEF Body, Lens, Streams, Values, KindBytes
<1>5. CASE \E n \in 1 .. MaxBlock : block' = [block EXCEPT !.n = n]
  <2>1. PICK n \in 1 .. MaxBlock : block' = [block EXCEPT !.n = n]
    BY <1>5
  <2>2. /\ block'.version = block.version /\ block'.body = block.body
        /\ block'.lens = block.lens /\ block'.n = n
    BY <1>2, <2>1, FieldIsChanged
  <2>3. n \in Nat
    OBVIOUS
  <2>4. IsStruck(block)'
    BY <1>1, <1>3, <1>4, <2>2, <2>3 DEF IsStruck
  <2> QED BY <1>1, <2>4 DEF BlockInv
<1>6. CASE \E c, d \in DOMAIN block.lens : \E by \in 1 .. block.lens[d] :
             c # d /\ block' = [block EXCEPT !.lens =
                 [block.lens EXCEPT ![c] = block.lens[c] + by, ![d] = block.lens[d] - by]]
  <2>1. PICK c, d \in DOMAIN block.lens : \E by \in 1 .. block.lens[d] :
             c # d /\ block' = [block EXCEPT !.lens =
                 [block.lens EXCEPT ![c] = block.lens[c] + by, ![d] = block.lens[d] - by]]
    BY <1>6
  <2>2. PICK by \in 1 .. block.lens[d] :
             c # d /\ block' = [block EXCEPT !.lens =
                 [block.lens EXCEPT ![c] = block.lens[c] + by, ![d] = block.lens[d] - by]]
    BY <2>1
  <2>3. PICK l : l = [block.lens EXCEPT ![c] = block.lens[c] + by, ![d] = block.lens[d] - by]
    OBVIOUS
  <2>4. block' = [block EXCEPT !.lens = l]
    BY <2>2, <2>3
  <2>5. /\ block'.version = block.version /\ block'.body = block.body
        /\ block'.lens = l /\ block'.n = block.n
    BY <1>2, <2>4, FieldIsChanged
  <2>6. ASSUME block.version = 2
        PROVE  IsShifted(l, c, d)
    <3>1. block.lens = Lens /\ DOMAIN Lens = 1 .. 5
      BY <1>1, <1>3, <2>6, LensAre
    <3>2. c \in 1 .. 5 /\ d \in 1 .. 5 /\ c # d /\ by \in 1 .. Lens[d]
      BY <2>2, <3>1
    <3>3. PICK t : t = Lens
      OBVIOUS
    <3>4. DOMAIN t = 1 .. 5 /\ l = [t EXCEPT ![c] = t[c] + by, ![d] = t[d] - by]
      BY <2>3, <3>1, <3>3
    <3>5. /\ l[c] = t[c] + by /\ l[d] = t[d] - by
          /\ \A j \in 1 .. 5 : j # c /\ j # d => l[j] = t[j]
      BY <3>2, <3>4
    <3> QED BY <3>2, <3>3, <3>5 DEF IsShifted
  <2>7. block.version = 2 => \E i, j \in 1 .. 5 : IsShifted(l, i, j)
    <3> SUFFICES ASSUME block.version = 2 PROVE \E i, j \in 1 .. 5 : IsShifted(l, i, j)
      OBVIOUS
    <3>1. IsShifted(l, c, d)
      BY <2>6
    <3>2. c \in 1 .. 5 /\ d \in 1 .. 5
      BY <3>1 DEF IsShifted
    <3> QED BY <3>1, <3>2
  <2>8. \A i, j : IsShifted(l, i, j) => IsShifted(block.lens, i, j)'
    BY <1>4, <2>5 DEF IsShifted
  <2>9. IsStruck(block)'
    BY <1>1, <1>3, <1>4, <2>5, <2>7, <2>8 DEF IsStruck
  <2> QED BY <1>1, <2>9 DEF BlockInv
<1> QED BY <1>5, <1>6 DEF StrikeHeader

\* ... after encode_block, ...
LEMMA EncodeInv ==
  ASSUME BlockInv, NEW version \in {1, 2}, EncodeBlock(version)
  PROVE  BlockInv'
<1>1. /\ block = NoBlock /\ events # <<>> /\ events' = events /\ struck' = struck
      /\ events \in Seq(Inputs)
  BY DEF EncodeBlock, BlockInv
<1>2. block' = [version |-> version, n |-> Len(events), body |-> Body,
                lens |-> IF version = 2 THEN Lens ELSE <<>>]
  BY DEF EncodeBlock, Body, Lens
<1>3. PICK y, l, n : /\ y = Body /\ l = (IF version = 2 THEN Lens ELSE <<>>) /\ n = Len(events)
                     /\ block' = [version |-> version, n |-> n, body |-> y, lens |-> l]
  BY <1>2
<1>4. block'.version = version /\ block'.n = n /\ block'.body = y /\ block'.lens = l
  BY <1>3
<1>5. Body' = Body /\ Lens' = Lens
  BY <1>1 DEF Body, Lens, Streams, Values, KindBytes
<1>6. IsBlock(block)'
  BY <1>3 DEF IsBlock
<1>7. IsEncoded(block)'
  BY <1>1, <1>3, <1>4, <1>5 DEF IsEncoded
<1>8. struck = FALSE
  <2>1. ~ IsEncoded(block)
    BY <1>1, NoBlockIs DEF IsEncoded
  <2>2. ~ IsStruck(block)
    BY <1>1, NoBlockIs DEF IsStruck
  <2> QED BY <2>1, <2>2 DEF BlockInv
<1> QED BY <1>1, <1>6, <1>7, <1>8 DEF BlockInv

\* ... after an event more, ...
LEMMA AppendInv ==
  ASSUME BlockInv, NEW e \in Inputs, AppendToBlock(e)
  PROVE  BlockInv'
<1>1. /\ block = NoBlock /\ events' = Append(events, e) /\ struck' = struck /\ block' = block
      /\ events \in Seq(Inputs)
  BY DEF AppendToBlock, BlockInv
<1>2. Append(events, e) \in Seq(Inputs)
  BY <1>1
<1>3. struck = FALSE
  <2>1. ~ IsEncoded(block)
    BY <1>1, NoBlockIs DEF IsEncoded
  <2>2. ~ IsStruck(block)
    BY <1>1, NoBlockIs DEF IsStruck
  <2> QED BY <2>1, <2>2 DEF BlockInv
<1>4. NoBlock' = NoBlock
  BY DEF NoBlock
<1> QED BY <1>1, <1>2, <1>3, <1>4 DEF BlockInv

\* ... and so after every step.
LEMMA BlockStep ==
  ASSUME BlockInv, [BlockNext]_blockVars
  PROVE  BlockInv'
<1>1. CASE \E e \in Inputs : AppendToBlock(e)
  BY <1>1, AppendInv
<1>2. CASE \E version \in {1, 2} : EncodeBlock(version)
  BY <1>2, EncodeInv
<1>3. CASE StrikeHeader
  BY <1>3, StrikeInv
<1>4. CASE UNCHANGED blockVars
  <2>1. events' = events /\ block' = block /\ struck' = struck
    BY <1>4 DEF blockVars
  <2>2. Body' = Body /\ Lens' = Lens
    BY <2>1 DEF Body, Lens, Streams, Values, KindBytes
  <2>3. \A c, d : IsShifted(block.lens, c, d) => IsShifted(block.lens, c, d)'
    BY <2>1, <2>2 DEF IsShifted
  <2>4. IsStruck(block) => IsStruck(block)'
    BY <2>1, <2>2, <2>3 DEF IsStruck
  <2>5. IsEncoded(block) => IsEncoded(block)'
    BY <2>1, <2>2 DEF IsEncoded
  <2>6. IsBlock(block) => IsBlock(block)'
    BY <2>1 DEF IsBlock
  <2> QED BY <2>1, <2>4, <2>5, <2>6 DEF BlockInv, NoBlock
<1> QED BY <1>1, <1>2, <1>3, <1>4 DEF BlockNext

\* A block that is as it was written is read as it was written.
LEMMA InvScan == BlockInv => ScanIsWritten
<1> SUFFICES ASSUME BlockInv, block # NoBlock, ~ struck
             PROVE  /\ DecodeBlock(block) = [ok |-> TRUE, cols |-> Written]
                    /\ \A sel \in SUBSET (1 .. Len(Columns) + 1) :
                         DecodeBlockColumns(block, sel) = [ok |-> TRUE, cols |-> [c \in sel |-> Written[c]]]
  BY DEF ScanIsWritten
<1>1. events \in Seq(Inputs) /\ IsEncoded(block)
  BY DEF BlockInv
<1>2. Len(Columns) + 1 = 5
  BY ColumnsAre
<1>3. DecodeBlock(block) = [ok |-> TRUE, cols |-> Written]
  BY <1>1, GoodDecodes
<1>4. ASSUME NEW sel \in SUBSET (1 .. 5)
      PROVE  DecodeBlockColumns(block, sel) = [ok |-> TRUE, cols |-> [c \in sel |-> Written[c]]]
  BY <1>1, GoodSelects
<1> QED BY <1>2, <1>3, <1>4

\* A changed count disagrees with the byte column's length, changed lengths
\* with a stream.
LEMMA InvGuarded == BlockInv => LengthTableIsGuarded
<1> SUFFICES ASSUME BlockInv, block.version = 2, DecodeBlock(block).ok
             PROVE  DecodeBlock(block).cols = Written
  BY DEF LengthTableIsGuarded
<1>1. events \in Seq(Inputs) /\ block # NoBlock
  BY NoBlockIs DEF BlockInv
<1>2. ASSUME IsEncoded(block) PROVE DecodeBlock(block).cols = Written
  <2>1. PICK w : w = Written
    OBVIOUS
  <2>2. DecodeBlock(block) = [ok |-> TRUE, cols |-> w]
    BY <1>1, <1>2, <2>1, GoodDecodes
  <2> QED BY <2>1, <2>2
<1>3. Corrupt.ok = FALSE
  BY DEF Corrupt
<1>4. HeaderOk(block)
  <2> SUFFICES ASSUME ~ HeaderOk(block) PROVE FALSE
    OBVIOUS
  <2>1. DecodeBlock(block) = Corrupt
    BY DEF DecodeBlock
  <2> QED BY <1>3, <2>1
<1>5. CASE IsStruck(block)
  <2>1. /\ events # <<>> /\ block.body = Body
        /\ \/ block.lens = Lens /\ block.n \in Nat
           \/ block.n = Len(events) /\ \E c, d \in 1 .. 5 : IsShifted(block.lens, c, d)
    BY <1>5 DEF IsStruck
  <2>2. CASE block.lens = Lens
    <3>1. block.lens[5] = block.n
      <4>1. Len(Columns) + 1 = 5
        BY ColumnsAre
      <4> QED BY <1>4, <4>1 DEF HeaderOk
    <3>2. block.n = Len(events)
      BY <1>1, <2>2, <3>1, LensAre
    <3>3. IsEncoded(block)
      BY <2>1, <2>2, <3>2 DEF IsEncoded
    <3> QED BY <1>2, <3>3
  <2>3. CASE block.n = Len(events) /\ \E c, d \in 1 .. 5 : IsShifted(block.lens, c, d)
    <3>1. PICK c, d \in 1 .. 5 : IsShifted(block.lens, c, d)
      BY <2>3
    <3>2. PICK m \in 1 .. 4 : DecodeCol(block, m).ok # TRUE
      BY <1>1, <1>4, <2>1, <2>3, <3>1, ShiftedIsFound
    <3>3. DecodeCol(block, m).ok = FALSE
      <4>1. \A o : [ok |-> TRUE, out |-> o].ok = TRUE
        OBVIOUS
      <4>2. \/ DecodeCol(block, m) = Corrupt
            \/ \E o : DecodeCol(block, m) = [ok |-> TRUE, out |-> o]
        BY DEF DecodeCol
      <4> QED BY <1>3, <3>2, <4>1, <4>2
    <3>4. ~ \A k \in DOMAIN Columns : DecodeCol(block, k).ok
      <4>1. m \in DOMAIN Columns
        BY ColumnsAre
      <4> QED BY <3>3, <4>1
    <3>5. ~ (HeaderOk(block) /\ block.version = 1)
      OBVIOUS
    <3>6. DecodeBlock(block) = Corrupt
      BY <1>4, <3>4, <3>5 DEF DecodeBlock
    <3> QED BY <1>3, <3>6
  <2> QED BY <2>1, <2>2, <2>3
<1> QED BY <1>1, <1>2, <1>5 DEF BlockInv

\* A block is what its writer made of the events, or that with one change to its
\* header; the changes are those of a damaged count or length table.
THEOREM BlockInvariant == BlockSpec => []BlockInv
<1>1. BlockInit => BlockInv
  BY BlockInitInv
<1>2. BlockInv /\ [BlockNext]_blockVars => BlockInv'
  BY BlockStep
<1> QED BY <1>1, <1>2, PTL DEF BlockSpec

\* A scan of a good block, of all columns or of any selection, gives back the
\* events it was made of (decode_block and decode_block_columns).
THEOREM ScanIsWrittenEver == BlockSpec => []ScanIsWritten
  BY BlockInvariant, InvScan, PTL

\* A full scan never takes a damaged header for a good one (parse_header and
\* decode_col).
THEOREM LengthTableIsGuardedEver == BlockSpec => []LengthTableIsGuarded
  BY BlockInvariant, InvGuarded, PTL
=============================================================================
