--------------------------- MODULE CaptureProcess ---------------------------
(***************************************************************************)
(* The capture process (run in capture.rs): one task per venue, the task   *)
(* that emits statistics, and the supervisor that waits for a signal or a  *)
(* failure, tells all of them to stop through a watch channel, joins them  *)
(* with a time limit, and settles the exit code.                           *)
(*                                                                         *)
(* A receiver of the watch channel is woken once by a change; borrow reads *)
(* the value without taking notice of it.  A task that consumes the change *)
(* in one select has to find it by its value later (run_venue, conn.rs).   *)
(***************************************************************************)
EXTENDS Integers, Sequences, FiniteSets, FiniteSetsExt

CONSTANTS
  Order,            \* the venues, in the order they are started and joined
  MaxFrames,        \* bound: frames a venue sends
  MaxRequests       \* bound: REST requests of a venue

Venues == {Order[i] : i \in DOMAIN Order}
ASSUME CaptureAssumption ==
  /\ Order \in Seq(Venues) /\ Cardinality(Venues) = Len(Order)
  /\ MaxFrames \in Nat /\ MaxRequests \in Nat

VARIABLES
  task,         \* where each venue's task is
  noticed,      \* the venues whose receiver has consumed the change
  unsynced,     \* the venues with records that no fsync has covered
  frames,       \* frames counted by each venue's VenueStats
  requests,     \* REST requests made by each venue
  shutdown,     \* value of the watch channel
  reports,      \* failures on the way to the supervisor
  supervisor,   \* where run is
  toJoin,       \* handles not joined yet
  failed,       \* run's flag of the same name
  emitter,      \* the stats task
  line,         \* frames in the last "total" line it wrote
  code          \* exit code of the process

taskVars == <<task, noticed, unsynced, frames, requests, reports>>
supervisorVars == <<shutdown, supervisor, toJoin, failed, code>>
captureVars == <<taskVars, supervisorVars, emitter, line>>

-----------------------------------------------------------------------------
CaptureInit ==
  /\ task = [v \in Venues |-> "none"]
  /\ noticed = {} /\ unsynced = {} /\ reports = {}
  /\ frames = [v \in Venues |-> 0] /\ requests = [v \in Venues |-> 0]
  /\ shutdown = FALSE
  /\ supervisor = "starting"
  /\ toJoin = <<>>
  /\ failed = FALSE
  /\ emitter = "none" /\ line = 0
  /\ code = "none"

Alive == supervisor # "exited"
Ended == {"done", "failed", "panicked"}

At(v, here) == Alive /\ task[v] = here
Goto(v, there) == task' = [task EXCEPT ![v] = there]
\* shutdown.changed() is ready.
Changed(v) == shutdown /\ v \notin noticed
Notice(v) == noticed' = noticed \cup {v}

-----------------------------------------------------------------------------
(* run_venue *)

\* Mutant: the loop relies on being woken.
LoopTopUnchecked(v) ==
  /\ At(v, "top")
  /\ Goto(v, "connecting")
  /\ UNCHANGED <<noticed, unsynced, frames, requests, reports, supervisorVars, emitter, line>>

LoopTop(v) ==
  /\ At(v, "top")
  /\ Goto(v, IF shutdown THEN "finishing" ELSE "connecting")
  /\ UNCHANGED <<noticed, unsynced, frames, requests, reports, supervisorVars, emitter, line>>

\* The handshake fails or times out, or succeeds and is noted in the raw log.
Connect(v) ==
  /\ At(v, "connecting")
  /\ \/ Goto(v, "backoff") /\ UNCHANGED unsynced
     \/ Goto(v, "session") /\ unsynced' = unsynced \cup {v}
  /\ UNCHANGED <<noticed, frames, requests, reports, supervisorVars, emitter, line>>

\* The delay is over, or the change arrives during it or during the handshake.
Wake(v) ==
  /\ \/ At(v, "backoff") /\ UNCHANGED noticed
     \/ (At(v, "backoff") \/ At(v, "connecting")) /\ Changed(v) /\ Notice(v)
  /\ Goto(v, "top")
  /\ UNCHANGED <<unsynced, frames, requests, reports, supervisorVars, emitter, line>>

ReadFrame(v) ==
  /\ At(v, "session") /\ frames[v] < MaxFrames
  /\ frames' = [frames EXCEPT ![v] = @ + 1]
  /\ unsynced' = unsynced \cup {v}
  /\ UNCHANGED <<task, noticed, requests, reports, supervisorVars, emitter, line>>

\* The five-second tick.
Sync(v) ==
  /\ At(v, "session")
  /\ unsynced' = unsynced \ {v}
  /\ UNCHANGED <<task, noticed, frames, requests, reports, supervisorVars, emitter, line>>

\* While a request is out the loop selects on nothing else.
StartFetch(v) ==
  /\ At(v, "session") /\ requests[v] < MaxRequests
  /\ requests' = [requests EXCEPT ![v] = @ + 1]
  /\ Goto(v, "fetching")
  /\ UNCHANGED <<noticed, unsynced, frames, reports, supervisorVars, emitter, line>>

\* It comes back with a body, which is recorded, or with none.
FinishFetch(v) ==
  /\ At(v, "fetching")
  /\ Goto(v, "session")
  /\ unsynced' \in {unsynced, unsynced \cup {v}}
  /\ UNCHANGED <<noticed, frames, requests, reports, supervisorVars, emitter, line>>

\* The socket ends, an idle timeout, an advisory: noted, and after a delay the
\* venue is tried again.
EndSession(v) ==
  /\ At(v, "session")
  /\ Goto(v, "backoff")
  /\ unsynced' = unsynced \cup {v}
  /\ UNCHANGED <<noticed, frames, requests, reports, supervisorVars, emitter, line>>

SessionSeesShutdown(v) ==
  /\ At(v, "session") /\ Changed(v)
  /\ Notice(v)
  /\ Goto(v, "finishing")
  /\ unsynced' = unsynced \cup {v}
  /\ UNCHANGED <<frames, requests, reports, supervisorVars, emitter, line>>

\* sink.finish: flush and fsync.
FinishSink(v) ==
  /\ At(v, "finishing")
  /\ Goto(v, "done")
  /\ unsynced' = unsynced \ {v}
  /\ UNCHANGED <<noticed, frames, requests, reports, supervisorVars, emitter, line>>

Writing == {"connecting", "session", "fetching", "finishing"}

\* Mutant: the wrapper logs the failure and reports it to nobody.
FailQuiet(v) ==
  /\ \E here \in Writing : At(v, here)
  /\ Goto(v, "failed")
  /\ reports' = reports
  /\ UNCHANGED <<noticed, unsynced, frames, requests, supervisorVars, emitter, line>>

\* The raw log cannot be written; the wrapper reports it.
Fail(v) ==
  /\ \E here \in Writing : At(v, here)
  /\ Goto(v, "failed")
  /\ reports' = reports \cup {v}
  /\ UNCHANGED <<noticed, unsynced, frames, requests, supervisorVars, emitter, line>>

\* A panic unwinds past the wrapper.
Panic(v) ==
  /\ \E here \in {"session", "fetching"} : At(v, here)
  /\ Goto(v, "panicked")
  /\ UNCHANGED <<noticed, unsynced, frames, requests, reports, supervisorVars, emitter, line>>

-----------------------------------------------------------------------------
(* run_stats_emitter *)

Total == MapThenSumSet(LAMBDA v : frames[v], Venues)

EmitStats ==
  /\ Alive /\ emitter = "running"
  /\ line' = Total
  /\ UNCHANGED <<taskVars, supervisorVars, emitter>>

\* One last batch when it sees the shutdown.
LastStats ==
  /\ Alive /\ emitter = "running" /\ shutdown
  /\ line' = Total
  /\ emitter' = "done"
  /\ UNCHANGED <<taskVars, supervisorVars>>

-----------------------------------------------------------------------------
(* run *)

Exit(with) == supervisor' = "exited" /\ code' = with

\* A sink that cannot be created ends run, and with it the tasks started.
StartVenue ==
  /\ supervisor = "starting" /\ Len(toJoin) < Len(Order)
  /\ LET v == Order[Len(toJoin) + 1]
     IN  \/ /\ Goto(v, "top")
            /\ toJoin' = Append(toJoin, v)
            /\ UNCHANGED <<supervisor, code>>
         \/ Exit("failure") /\ UNCHANGED <<task, toJoin>>
  /\ UNCHANGED <<noticed, unsynced, frames, requests, reports, shutdown, failed, emitter, line>>

Serve ==
  /\ supervisor = "starting" /\ Len(toJoin) = Len(Order)
  /\ supervisor' = "serving"
  /\ emitter' = "running"
  /\ UNCHANGED <<taskVars, shutdown, toJoin, failed, code, line>>

\* SIGINT or SIGTERM.
Signal ==
  /\ supervisor = "serving"
  /\ supervisor' = "joining" /\ shutdown' = TRUE
  /\ UNCHANGED <<taskVars, toJoin, failed, code, emitter, line>>

\* fail_rx.recv(): a report, or the end of a channel nobody can write to.
SeeFailure ==
  /\ supervisor = "serving"
  /\ reports # {} \/ \A v \in Venues : task[v] \in Ended
  /\ supervisor' = "joining" /\ shutdown' = TRUE
  /\ failed' = TRUE
  /\ UNCHANGED <<taskVars, toJoin, code, emitter, line>>

Join ==
  /\ supervisor = "joining" /\ toJoin # <<>>
  /\ task[Head(toJoin)] \in Ended
  /\ failed' = (failed \/ task[Head(toJoin)] # "done")
  /\ toJoin' = Tail(toJoin)
  /\ UNCHANGED <<taskVars, shutdown, supervisor, code, emitter, line>>

\* Mutant: a task that is late is let go.
JoinTimeoutIgnored ==
  /\ supervisor = "joining" /\ toJoin # <<>>
  /\ task[Head(toJoin)] = "fetching"
  /\ toJoin' = Tail(toJoin)
  /\ UNCHANGED <<taskVars, shutdown, supervisor, failed, code, emitter, line>>

\* 15 seconds pass: half of what a REST request may take, and more than any
\* other wait of a task lasts once the shutdown is there to be seen.
JoinTimeout ==
  /\ supervisor = "joining" /\ toJoin # <<>>
  /\ task[Head(toJoin)] = "fetching"
  /\ failed' = TRUE
  /\ toJoin' = Tail(toJoin)
  /\ UNCHANGED <<taskVars, shutdown, supervisor, code, emitter, line>>

\* The stats task is joined, which takes less than the five seconds it is
\* given; then the shutdown line, the pid file, and the exit, which drops what
\* still runs.
ExitProcess ==
  /\ supervisor = "joining" /\ toJoin = <<>> /\ emitter = "done"
  /\ Exit(IF failed THEN "failure" ELSE "success")
  /\ UNCHANGED <<taskVars, shutdown, toJoin, failed, emitter, line>>

-----------------------------------------------------------------------------
TaskNext(v) ==
  \/ LoopTop(v) \/ Connect(v) \/ Wake(v)
  \/ ReadFrame(v) \/ Sync(v) \/ StartFetch(v) \/ FinishFetch(v)
  \/ EndSession(v) \/ SessionSeesShutdown(v) \/ FinishSink(v)
  \/ Fail(v) \/ Panic(v)

CaptureNext ==
  \/ \E v \in Venues : TaskNext(v)
  \/ EmitStats \/ LastStats
  \/ StartVenue \/ Serve \/ Signal \/ SeeFailure \/ Join \/ JoinTimeout \/ ExitProcess

\* Handshakes, delays and requests are bounded in time, and so is a finish.
\* select! polls in random order, so a session that returns to it again and
\* again sees the change at last.  No venue has to send, and nobody to stop
\* the process.
CaptureFairness ==
  /\ \A v \in Venues :
       /\ WF_captureVars(LoopTop(v)) /\ WF_captureVars(Connect(v)) /\ WF_captureVars(Wake(v))
       /\ WF_captureVars(FinishFetch(v)) /\ WF_captureVars(FinishSink(v))
       /\ SF_captureVars(SessionSeesShutdown(v))
  /\ WF_captureVars(LastStats)
  /\ WF_captureVars(StartVenue \/ Serve)
  /\ WF_captureVars(SeeFailure) /\ WF_captureVars(Join) /\ WF_captureVars(ExitProcess)

CaptureSpec == CaptureInit /\ [][CaptureNext]_captureVars /\ CaptureFairness

-----------------------------------------------------------------------------
(* Properties *)

\* A clean exit leaves every record of every venue on the disk.
CleanMeansDurable ==
  code = "success" => unsynced = {} /\ \A v \in Venues : task[v] = "done"

\* A venue task that cannot write its raw log takes the process down with a
\* failure, whatever the other tasks and the supervisor are doing.
FailureIsFatal == \A v \in Venues : task[v] = "failed" ~> code = "failure"

\* Once told to stop the process does, wherever in its loop each task is and
\* whichever select has consumed the change.
StopsWhenTold == shutdown ~> supervisor = "exited"

\* Said of the statistics in ops/soak-report.md: the last line of a session is
\* its total.
LastLineIsTotal == code = "success" => line = Total
=============================================================================
