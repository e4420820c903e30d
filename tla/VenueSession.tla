---------------------------- MODULE VenueSession ----------------------------
(***************************************************************************)
(* The task that keeps one venue connected: run_venue, run_session and the *)
(* REST scheduler of crates/feed/src/conn.rs, in discrete time.  A timer   *)
(* fires at its deadline or later, in any order with what is ready at the  *)
(* same instant, as tokio::select! polls its arms at random.  The raw log  *)
(* and the codec's own state are left to other modules: of a frame, only   *)
(* whether it parsed and the signal it gave matter here.                   *)
(***************************************************************************)
EXTENDS Integers, FiniteSets

CONSTANTS
  N,                \* REST targets 1..N
  OnConnect,        \* RestPlan::on_connect
  RefreshEvery,     \* RestPlan::refresh_every
  Spacing,          \* RestPlan::min_spacing
  IdleTimeout, BackoffFloor, BackoffCap,      \* VenueConfig
  HealthyMin,       \* HEALTHY_SESSION_MIN
  RestFloor, RestCap,     \* backoff of a failed REST target
  RetryAfters,      \* delays retry_after_delay may return
  HttpTimeout,      \* the HTTP client's timeout, from capture.rs
  MaxTime           \* bound: the horizon

Targets == 1 .. N

ASSUME SessionAssumption ==
  /\ N \in Nat /\ OnConnect \in BOOLEAN
  /\ {RefreshEvery, Spacing, IdleTimeout, BackoffFloor, BackoffCap, HealthyMin,
      RestFloor, RestCap, HttpTimeout} \subseteq Nat \ {0}
  /\ RetryAfters \subseteq Nat \ {0}
  /\ BackoffFloor <= BackoffCap /\ RestFloor <= RestCap
  /\ MaxTime \in Nat

VARIABLES
  now,          \* the clock
  phase,        \* where the task is
  attempt,      \* run_venue's backoff counter
  wakeAt,       \* end of the backoff sleep
  start,        \* when the session was established
  parsed,       \* has a frame of the session parsed?
  lastFrame,    \* last_frame
  due, lastFetch, attempts,     \* RestSched
  fetching,     \* target of the request in progress
  tried,        \* history: last connection attempt
  pause,        \* history: end of the pause the venue asked for, forgotten
                \* with the session and when a resync is asked for
  venuePause,   \* history: the same, never forgotten
  passed        \* history: requests for others made while a target was
                \* ready, since its deadline was last set

sched == <<due, lastFetch, attempts>>
session == <<start, parsed, lastFrame>>
history == <<tried, pause, venuePause, passed>>
vars == <<now, phase, attempt, wakeAt, session, sched, fetching, history>>

Never == -1
Lesser(a, b) == IF a <= b THEN a ELSE b
Greater(a, b) == IF a <= b THEN b ELSE a

-----------------------------------------------------------------------------
(* The pure parts of conn.rs. *)

SessionHealthy == now - start >= HealthyMin /\ parsed

BackoffCeiling(n, floor, cap) == Lesser(cap, floor * 2 ^ Lesser(n, 31))

\* The delays next_backoff may draw.
NextBackoff(n, floor, cap) ==
  floor .. Lesser(cap, Greater(BackoffCeiling(n, floor, cap), 2 * floor))

\* RestSched::new: all due now, or spread over one refresh period.
NewDue ==
  [i \in Targets |-> IF OnConnect THEN now ELSE now + (RefreshEvery * i) \div N]

Scheduled == {i \in Targets : due[i] # Never}

\* Mutant: the first target with a deadline instead of the earliest.
EarliestByIndex == {i \in Scheduled : \A j \in Scheduled : i <= j}

\* RestSched::next: min_by_key, the first of equals.
Earliest ==
  {i \in Scheduled : \A j \in Scheduled :
     due[i] < due[j] \/ (due[i] = due[j] /\ i <= j)}

\* Mutant: the spacing is not honoured.
FireAtDue(i) == due[i]

FireAt(i) == IF lastFetch = Never THEN due[i] ELSE Greater(due[i], lastFetch + Spacing)

-----------------------------------------------------------------------------
Init ==
  /\ now = 0 /\ phase = "connecting" /\ attempt = 0 /\ wakeAt = 0
  /\ start = 0 /\ parsed = FALSE /\ lastFrame = 0
  /\ due = [i \in Targets |-> Never]
  /\ lastFetch = Never
  /\ attempts = [i \in Targets |-> 0]
  /\ fetching = 0
  /\ tried = 0 /\ pause = 0 /\ venuePause = 0
  /\ passed = [i \in Targets |-> 0]

\* A request lasts at most HttpTimeout.
Tick ==
  /\ now < MaxTime
  /\ phase = "fetching" => now < lastFetch + HttpTimeout
  /\ now' = now + 1
  /\ UNCHANGED <<phase, attempt, wakeAt, session, sched, fetching, history>>

\* The handshake fails or times out.
ConnectFails ==
  /\ phase = "connecting"
  /\ \E d \in NextBackoff(attempt, BackoffFloor, BackoffCap) : wakeAt' = now + d
  /\ attempt' = attempt + 1
  /\ phase' = "backoff"
  /\ UNCHANGED <<now, session, sched, fetching, history>>

\* The handshake succeeds: a session with a new REST scheduler.
ConnectSucceeds ==
  /\ phase = "connecting"
  /\ phase' = "session"
  /\ start' = now /\ parsed' = FALSE /\ lastFrame' = now
  /\ due' = NewDue
  /\ lastFetch' = Never
  /\ attempts' = [i \in Targets |-> 0]
  /\ passed' = [i \in Targets |-> 0]
  /\ UNCHANGED <<now, attempt, wakeAt, fetching, tried, pause, venuePause>>

\* The backoff sleep is over.
Wake ==
  /\ phase = "backoff" /\ now >= wakeAt
  /\ phase' = "connecting"
  /\ tried' = now
  /\ UNCHANGED <<now, attempt, wakeAt, session, sched, fetching, pause, venuePause, passed>>

\* Mutant: a session that ends is followed by a new one at once.
EndSessionAtOnce ==
  /\ phase' = "connecting"
  /\ tried' = now
  /\ pause' = 0
  /\ UNCHANGED <<now, attempt, wakeAt, session, sched, fetching, venuePause, passed>>

\* run_session returned Reconnect: the counter is reset by a healthy session
\* before the delay is drawn, and raised by any other after.
EndSession ==
  /\ LET a == IF SessionHealthy THEN 0 ELSE attempt
     IN  /\ \E d \in NextBackoff(a, BackoffFloor, BackoffCap) : wakeAt' = now + d
         /\ attempt' = IF SessionHealthy THEN 0 ELSE attempt + 1
  /\ phase' = "backoff"
  /\ pause' = 0
  /\ UNCHANGED <<now, session, sched, fetching, tried, venuePause, passed>>

\* The socket closes or errs, or a subscription or a pong cannot be sent.
SocketEnds == phase = "session" /\ EndSession

IdleEnds == phase = "session" /\ now >= lastFrame + IdleTimeout /\ EndSession

\* A frame that asks for nothing; ok: it parsed.
ReadFrame(ok) ==
  /\ phase = "session"
  /\ lastFrame' = now
  /\ parsed' = (parsed \/ ok)
  /\ UNCHANGED <<now, phase, attempt, wakeAt, start, sched, fetching, history>>

\* NeedResync of an instrument with a REST target: it is due now, whatever
\* its deadline was.
ReadNeedResync(i) ==
  /\ phase = "session" /\ i \in Targets
  /\ lastFrame' = now /\ parsed' = TRUE
  /\ due' = [due EXCEPT ![i] = now]
  /\ pause' = 0
  /\ passed' = [passed EXCEPT ![i] = 0]
  /\ UNCHANGED <<now, phase, attempt, wakeAt, start, lastFetch, attempts, fetching,
                 tried, venuePause>>

\* Reconnect, or NeedResync of an instrument without a target.  The frame
\* that carried it has parsed.
ReadReconnect ==
  /\ phase = "session"
  /\ LET healthy == now - start >= HealthyMin
         a == IF healthy THEN 0 ELSE attempt
     IN  /\ \E d \in NextBackoff(a, BackoffFloor, BackoffCap) : wakeAt' = now + d
         /\ attempt' = IF healthy THEN 0 ELSE attempt + 1
  /\ lastFrame' = now /\ parsed' = TRUE
  /\ phase' = "backoff"
  /\ pause' = 0
  /\ UNCHANGED <<now, start, sched, fetching, tried, venuePause, passed>>

\* The REST arm fires: fetch_rest sends the request and awaits the answer.
StartFetch(i) ==
  /\ phase = "session" /\ i \in Earliest /\ now >= FireAt(i)
  /\ phase' = "fetching"
  /\ fetching' = i
  /\ lastFetch' = now
  /\ passed' = [j \in Targets |->
       IF j = i THEN 0 ELSE IF due[j] # Never /\ due[j] <= now
                            THEN passed[j] + 1 ELSE passed[j]]
  /\ UNCHANGED <<now, attempt, wakeAt, session, due, attempts, tried, pause, venuePause>>

\* An answer takes time.
Finish == phase = "fetching" /\ now > lastFetch /\ phase' = "session" /\ fetching' = 0

FetchSucceeds ==
  /\ Finish
  /\ attempts' = [attempts EXCEPT ![fetching] = 0]
  /\ due' = [due EXCEPT ![fetching] = now + RefreshEvery]
  /\ UNCHANGED <<now, attempt, wakeAt, session, lastFetch, history>>

\* reschedule_rest_failure: no answer, an error status, or a snapshot the
\* codec refuses.
FetchFails ==
  /\ Finish
  /\ attempts' = [attempts EXCEPT ![fetching] = @ + 1]
  /\ \E d \in NextBackoff(attempts[fetching], RestFloor, RestCap) :
       due' = [due EXCEPT ![fetching] = now + d]
  /\ UNCHANGED <<now, attempt, wakeAt, session, lastFetch, history>>

\* Mutant: only the target that was answered 429 is put off.
RateLimitedDueOne(i, until) == [due EXCEPT ![i] = until]

\* The deadlines after reschedule_rest_rate_limited.
RateLimitedDue(i, until) ==
  [j \in Targets |-> IF j = i THEN until
                     ELSE IF due[j] # Never THEN Greater(due[j], until) ELSE Never]

\* The venue answers 429 or 418.
FetchRateLimited(d) ==
  /\ Finish
  /\ attempts' = [attempts EXCEPT ![fetching] = @ + 1]
  /\ due' = RateLimitedDue(fetching, now + d)
  /\ pause' = now + d
  /\ venuePause' = now + d
  /\ passed' = [j \in Targets |-> IF due'[j] # due[j] THEN 0 ELSE passed[j]]
  /\ UNCHANGED <<now, attempt, wakeAt, session, lastFetch, tried>>

\* Raced in every wait but fetch_rest's.
Shutdown ==
  /\ phase \in {"connecting", "backoff", "session"}
  /\ phase' = "stopped"
  /\ UNCHANGED <<now, attempt, wakeAt, session, sched, fetching, history>>

Next ==
  \/ Tick \/ ConnectFails \/ ConnectSucceeds \/ Wake
  \/ SocketEnds \/ IdleEnds \/ ReadReconnect
  \/ \E ok \in BOOLEAN : ReadFrame(ok)
  \/ \E i \in Targets : ReadNeedResync(i) \/ StartFetch(i)
  \/ FetchSucceeds \/ FetchFails
  \/ \E d \in RetryAfters : FetchRateLimited(d)
  \/ Shutdown

Spec == Init /\ [][Next]_vars

-----------------------------------------------------------------------------
(* Properties *)

\* Two connection attempts are at least the backoff floor apart, however a
\* session or a handshake ended: the venue is never hammered.
ConnectsSpaced == [][tried' # tried => tried' >= tried + BackoffFloor]_vars

\* Requests of one session are min_spacing apart, whichever targets they are
\* for and whatever made them due.
FetchesSpaced ==
  [][lastFetch # Never /\ lastFetch' \notin {lastFetch, Never} =>
       lastFetch' >= lastFetch + Spacing]_vars

\* A 429 for one target keeps every target of the session quiet until the
\* pause is over, unless a resync is asked for in the meantime.
RateLimitPausesAll == [][phase # "fetching" /\ phase' = "fetching" => now >= pause]_vars

\* No target is starved by the others: once it is ready, and
\* until its deadline is set anew, each of them is requested at most once.
NoStarvation == \A i \in Targets : passed[i] <= N - 1

\* Retry-After is honoured "for the WHOLE venue".
VenuePauseHonoured == [][phase # "fetching" /\ phase' = "fetching" => now >= venuePause]_vars
=============================================================================
