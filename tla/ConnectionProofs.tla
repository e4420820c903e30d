-------------------------- MODULE ConnectionProofs --------------------------
(***************************************************************************)
(* Proofs about the two machines of a venue's connection (conn.rs), which  *)
(* share no variable.                                                      *)
(*                                                                         *)
(* The first part is about VenueSession, for any number of targets and any *)
(* delays: connection attempts and requests keep their distance, a 429     *)
(* holds for every target, and no target is starved.                       *)
(* The second is about Payload, for any number of frames: a frame has its  *)
(* effect once, whichever parser reads it, and the same in replay.  Each   *)
(* parser is shown to be fields read, events pushed and one operation at   *)
(* its end; the fast and the slow parser of a type to agree on the three.  *)
(***************************************************************************)
EXTENDS VenueSession, Payload, FiniteSetTheorems, SequenceTheorems, WellFoundedInduction, TLAPS

-----------------------------------------------------------------------------
(* The session: its schedule and its backoff. *)

Deadlines == Nat \cup {Never}

\* The types of what the proof speaks about.
TimesOK ==
  /\ now \in Nat /\ tried \in Nat /\ pause \in Nat
  /\ attempt \in Nat /\ wakeAt \in Int
  /\ due \in [Targets -> Deadlines] /\ lastFetch \in Deadlines
  /\ attempts \in [Targets -> Nat]
  /\ phase \in {"connecting", "session", "fetching", "backoff", "stopped"}

\* The sleep between two attempts is at least the floor, counted from the last.
SleepIsLong ==
  /\ tried <= now
  /\ phase = "backoff" => wakeAt >= tried + BackoffFloor

\* The pause is the session's, and no deadline lies within it; a request in
\* progress was sent after it.
PauseHolds ==
  /\ phase \in {"connecting", "backoff"} => pause = 0
  /\ phase \in {"session", "fetching"} => \A i \in Targets : due[i] # Never => due[i] >= pause
  /\ phase = "fetching" => now >= pause /\ fetching \in Targets

SessionInv == TimesOK /\ SleepIsLong /\ PauseHolds

-----------------------------------------------------------------------------
LEMMA Positive ==
  /\ {RefreshEvery, Spacing, BackoffFloor, BackoffCap, RestFloor, RestCap} \subseteq Nat \ {0}
  /\ RetryAfters \subseteq Nat \ {0}
  /\ N \in Nat /\ Targets \subseteq Nat \ {0}
BY SessionAssumption DEF SessionAssumption, Targets

\* next_backoff never draws less than the floor.
LEMMA BackoffIsFloored ==
  ASSUME NEW n, NEW floor \in Nat, NEW cap, NEW d \in NextBackoff(n, floor, cap)
  PROVE  d \in Nat /\ d >= floor
<1> DEFINE top == Lesser(cap, Greater(BackoffCeiling(n, floor, cap), 2 * floor))
<1>1. d \in floor .. top
  BY DEF NextBackoff
<1> HIDE DEF top
<1> QED BY <1>1

\* A new schedule has only deadlines from now on.
LEMMA NewDueType ==
  ASSUME now \in Nat
  PROVE  NewDue \in [Targets -> Nat]
<1> SUFFICES ASSUME NEW i \in Targets PROVE now + (RefreshEvery * i) \div N \in Nat
  BY DEF NewDue
<1>1. N \in Nat \ {0} /\ i \in Nat /\ RefreshEvery \in Nat
  BY Positive DEF Targets
<1> DEFINE a == RefreshEvery * i
<1>2. a \in Nat
  BY <1>1
<1> HIDE DEF a
<1>3. a \div N \in Nat
  BY <1>1, <1>2
<1> QED BY <1>3 DEF a

LEMMA SessionInitInv == Init => SessionInv
BY DEF Init, SessionInv, TimesOK, SleepIsLong, PauseHolds, Deadlines, Never, Targets

-----------------------------------------------------------------------------
(* The connection *)

\* The backoff begins: what run_venue does when a handshake fails or a session
\* ends.
LEMMA BackoffStep ==
  ASSUME SessionInv, NEW a,
         \E d \in NextBackoff(a, BackoffFloor, BackoffCap) : wakeAt' = now + d,
         attempt' \in Nat, phase' = "backoff", pause' = 0,
         UNCHANGED <<now, tried, sched, fetching>>
  PROVE  SessionInv'
<1> PICK d \in NextBackoff(a, BackoffFloor, BackoffCap) : wakeAt' = now + d
  OBVIOUS
<1>1. BackoffFloor \in Nat /\ d \in Nat /\ d >= BackoffFloor
  BY Positive, BackoffIsFloored
<1>2. TimesOK'
  BY <1>1 DEF SessionInv, TimesOK, sched
<1>3. SleepIsLong'
  BY <1>1 DEF SessionInv, TimesOK, SleepIsLong
<1> QED BY <1>2, <1>3 DEF SessionInv, PauseHolds

LEMMA EndsStep ==
  ASSUME SessionInv, EndSession
  PROVE  SessionInv'
<1>1. attempt' \in Nat
  BY DEF EndSession, SessionInv, TimesOK
<1> QED BY <1>1, BackoffStep DEF EndSession

LEMMA ConnectionStep ==
  ASSUME SessionInv,
         ConnectFails \/ ConnectSucceeds \/ Wake \/ ReadReconnect \/ Shutdown
  PROVE  SessionInv'
<1>1. CASE ConnectFails
  <2>1. pause = 0 /\ attempt' \in Nat
    BY <1>1 DEF ConnectFails, SessionInv, TimesOK, PauseHolds
  <2> QED BY <1>1, <2>1, BackoffStep DEF ConnectFails, history
<1>2. CASE ConnectSucceeds
  <2>1. NewDue \in [Targets -> Nat] /\ pause = 0
    BY <1>2, NewDueType DEF ConnectSucceeds, SessionInv, TimesOK, PauseHolds
  <2>2. /\ due' = NewDue /\ lastFetch' = Never /\ attempts' = [i \in Targets |-> 0]
        /\ phase' = "session" /\ UNCHANGED <<now, tried, pause, attempt, wakeAt>>
    BY <1>2 DEF ConnectSucceeds
  <2> HIDE DEF NewDue
  <2>3. due' \in [Targets -> Deadlines]
    BY <2>1, <2>2 DEF Deadlines
  <2> QED
    BY <2>1, <2>2, <2>3 DEF SessionInv, TimesOK, SleepIsLong, PauseHolds, Deadlines
<1>3. CASE Wake
  <2>1. phase' = "connecting" /\ tried' = now /\ phase = "backoff"
        /\ UNCHANGED <<now, attempt, wakeAt, due, lastFetch, attempts, pause>>
    BY <1>3 DEF Wake, sched
  <2> QED BY <2>1 DEF SessionInv, TimesOK, SleepIsLong, PauseHolds
<1>4. CASE ReadReconnect
  <2>1. attempt' \in Nat
    BY <1>4 DEF ReadReconnect, SessionInv, TimesOK
  <2> QED BY <1>4, <2>1, BackoffStep DEF ReadReconnect
<1>5. CASE Shutdown
  BY <1>5 DEF Shutdown, SessionInv, TimesOK, SleepIsLong, PauseHolds, sched, history
<1> QED BY <1>1, <1>2, <1>3, <1>4, <1>5

-----------------------------------------------------------------------------
(* The session *)

LEMMA TickStep ==
  ASSUME SessionInv, Tick
  PROVE  SessionInv'
BY DEF Tick, SessionInv, TimesOK, SleepIsLong, PauseHolds, sched, history

LEMMA ReadStep ==
  ASSUME SessionInv, (\E ok \in BOOLEAN : ReadFrame(ok)) \/ \E i \in Targets : ReadNeedResync(i)
  PROVE  SessionInv'
<1>1. CASE \E ok \in BOOLEAN : ReadFrame(ok)
  BY <1>1 DEF ReadFrame, SessionInv, TimesOK, SleepIsLong, PauseHolds, sched, history
<1>2. ASSUME NEW i \in Targets, ReadNeedResync(i) PROVE SessionInv'
  <2>1. /\ phase = "session" /\ due' = [due EXCEPT ![i] = now] /\ pause' = 0
        /\ UNCHANGED <<now, phase, attempt, wakeAt, lastFetch, attempts, tried>>
    BY <1>2 DEF ReadNeedResync
  <2>2. due' \in [Targets -> Deadlines]
    BY <2>1 DEF SessionInv, TimesOK, Deadlines
  <2>3. \A j \in Targets : due'[j] # Never => due'[j] >= 0
    BY <2>2 DEF Deadlines
  <2> QED BY <2>1, <2>2, <2>3 DEF SessionInv, TimesOK, SleepIsLong, PauseHolds
<1> QED BY <1>1, <1>2

\* A request is sent no earlier than its deadline and a spacing after the last.
LEMMA FiredLate ==
  ASSUME SessionInv, NEW i \in Targets, StartFetch(i)
  PROVE  /\ now >= pause
         /\ lastFetch # Never => now >= lastFetch + Spacing
<1>1. /\ phase = "session" /\ due[i] # Never /\ now >= FireAt(i)
  BY DEF StartFetch, Earliest, Scheduled
<1>2. due[i] \in Nat /\ due[i] >= pause
  BY <1>1 DEF SessionInv, TimesOK, PauseHolds, Deadlines
<1>3. Spacing \in Nat
  BY Positive
<1>4. lastFetch # Never => lastFetch \in Nat
  BY DEF SessionInv, TimesOK, Deadlines
<1>5. FireAt(i) >= due[i] /\ (lastFetch # Never => FireAt(i) >= lastFetch + Spacing)
      /\ FireAt(i) \in Nat
  BY <1>2, <1>3, <1>4 DEF FireAt, Greater
<1> QED BY <1>1, <1>2, <1>3, <1>4, <1>5 DEF SessionInv, TimesOK

LEMMA StartStep ==
  ASSUME SessionInv, NEW i \in Targets, StartFetch(i)
  PROVE  SessionInv'
<1>1. now >= pause
  BY FiredLate
<1>2. /\ phase = "session" /\ phase' = "fetching" /\ fetching' = i /\ lastFetch' = now
      /\ UNCHANGED <<now, attempt, wakeAt, due, attempts, tried, pause>>
  BY DEF StartFetch
<1> QED BY <1>1, <1>2 DEF SessionInv, TimesOK, SleepIsLong, PauseHolds, Deadlines

\* Whatever the answer, the next deadline is after now, and after the pause.
LEMMA FinishStep ==
  ASSUME SessionInv, FetchSucceeds \/ FetchFails
  PROVE  SessionInv'
<1>1. /\ phase = "fetching" /\ phase' = "session"
      /\ UNCHANGED <<now, attempt, wakeAt, lastFetch, tried, pause>>
  BY DEF FetchSucceeds, FetchFails, Finish, history
<1>2. now \in Nat /\ pause \in Nat /\ now >= pause /\ fetching \in Targets
  BY <1>1 DEF SessionInv, TimesOK, PauseHolds
<1>3. attempts' \in [Targets -> Nat]
  BY DEF FetchSucceeds, FetchFails, SessionInv, TimesOK
<1>4. PICK d \in Nat : due' = [due EXCEPT ![fetching] = now + d]
  <2>1. CASE FetchSucceeds
    BY <2>1, Positive DEF FetchSucceeds
  <2>2. CASE FetchFails
    <3> PICK d \in NextBackoff(attempts[fetching], RestFloor, RestCap) :
             due' = [due EXCEPT ![fetching] = now + d]
      BY <2>2 DEF FetchFails
    <3> QED BY Positive, BackoffIsFloored
  <2> QED BY <2>1, <2>2
<1>5. due' \in [Targets -> Deadlines]
  BY <1>2, <1>4 DEF SessionInv, TimesOK, Deadlines
<1>6. \A j \in Targets : due'[j] # Never => due'[j] >= pause
  BY <1>1, <1>2, <1>4 DEF SessionInv, TimesOK, PauseHolds
<1> QED BY <1>1, <1>3, <1>5, <1>6 DEF SessionInv, TimesOK, SleepIsLong, PauseHolds

LEMMA RateLimitedStep ==
  ASSUME SessionInv, NEW d \in RetryAfters, FetchRateLimited(d)
  PROVE  SessionInv'
<1> DEFINE until == now + d
<1>1. /\ phase = "fetching" /\ phase' = "session" /\ pause' = until
      /\ due' = RateLimitedDue(fetching, until)
      /\ UNCHANGED <<now, attempt, wakeAt, lastFetch, tried>>
  BY DEF FetchRateLimited, Finish
<1>2. until \in Nat
  BY Positive DEF SessionInv, TimesOK
<1> HIDE DEF until
<1>3. attempts' \in [Targets -> Nat]
  <2>1. attempts' = [attempts EXCEPT ![fetching] = @ + 1]
    BY DEF FetchRateLimited
  <2>2. attempts \in [Targets -> Nat] /\ fetching \in Targets
    BY <1>1 DEF SessionInv, TimesOK, PauseHolds
  <2> QED BY <2>1, <2>2
<1>4. \A j \in Targets : due'[j] \in Deadlines /\ (due'[j] # Never => due'[j] >= until)
  BY <1>1, <1>2 DEF SessionInv, TimesOK, RateLimitedDue, Deadlines, Greater
<1>5. due' \in [Targets -> Deadlines]
  BY <1>1, <1>4 DEF RateLimitedDue
<1> QED BY <1>1, <1>2, <1>3, <1>4, <1>5 DEF SessionInv, TimesOK, SleepIsLong, PauseHolds

-----------------------------------------------------------------------------
LEMMA SessionNextInv == SessionInv /\ [Next]_vars => SessionInv'
<1> SUFFICES ASSUME SessionInv, [Next]_vars PROVE SessionInv'
  OBVIOUS
<1>1. CASE Next
  BY <1>1, EndsStep, ConnectionStep, TickStep, ReadStep, StartStep, FinishStep, RateLimitedStep
     DEF Next, SocketEnds, IdleEnds
<1>2. CASE UNCHANGED vars
  BY <1>2 DEF vars, session, sched, history, SessionInv, TimesOK, SleepIsLong, PauseHolds
<1> QED BY <1>1, <1>2

\* The clock, the backoff and the schedule of conn.rs keep together, for any
\* number of targets and any delays.
THEOREM SessionInvariant == Spec => []SessionInv
BY SessionInitInv, SessionNextInv, PTL DEF Spec

\* run_venue's backoff: an attempt is made at least the floor after the last.
THEOREM ConnectsSpacedTheorem == Spec => ConnectsSpaced
<1>1. SessionInv /\ [Next]_vars => [tried' # tried => tried' >= tried + BackoffFloor]_vars
  <2> SUFFICES ASSUME SessionInv, Next, tried' # tried
               PROVE  tried' >= tried + BackoffFloor
    OBVIOUS
  <2>1. Wake
    BY DEF Next, Tick, ConnectFails, ConnectSucceeds, SocketEnds, IdleEnds, EndSession,
           ReadReconnect, ReadFrame, ReadNeedResync, StartFetch, FetchSucceeds, FetchFails,
           FetchRateLimited, Shutdown, history
  <2> QED BY <2>1, Positive DEF Wake, SessionInv, TimesOK, SleepIsLong
<1> QED BY <1>1, SessionInvariant, PTL DEF Spec, ConnectsSpaced

\* RestSched::next: requests of one session are a spacing apart.
THEOREM FetchesSpacedTheorem == Spec => FetchesSpaced
<1>1. SessionInv /\ [Next]_vars =>
        [lastFetch # Never /\ lastFetch' \notin {lastFetch, Never} =>
           lastFetch' >= lastFetch + Spacing]_vars
  <2> SUFFICES ASSUME SessionInv, Next, lastFetch # Never, lastFetch' \notin {lastFetch, Never}
               PROVE  lastFetch' >= lastFetch + Spacing
    OBVIOUS
  <2>1. PICK i \in Targets : StartFetch(i)
    BY DEF Next, Tick, ConnectFails, ConnectSucceeds, Wake, SocketEnds, IdleEnds, EndSession,
           ReadReconnect, ReadFrame, ReadNeedResync, FetchSucceeds, FetchFails,
           FetchRateLimited, Shutdown, sched
  <2>2. lastFetch' = now
    BY <2>1 DEF StartFetch
  <2> QED BY <2>1, <2>2, FiredLate
<1> QED BY <1>1, SessionInvariant, PTL DEF Spec, FetchesSpaced

\* reschedule_rest_rate_limited: no target is requested within the pause.
THEOREM RateLimitPausesAllTheorem == Spec => RateLimitPausesAll
<1>1. SessionInv /\ [Next]_vars =>
        [phase # "fetching" /\ phase' = "fetching" => now >= pause]_vars
  <2> SUFFICES ASSUME SessionInv, Next, phase # "fetching", phase' = "fetching"
               PROVE  now >= pause
    OBVIOUS
  <2>1. PICK i \in Targets : StartFetch(i)
    BY DEF Next, Tick, ConnectFails, ConnectSucceeds, Wake, SocketEnds, IdleEnds, EndSession,
           ReadReconnect, ReadFrame, ReadNeedResync, FetchSucceeds, FetchFails, Finish,
           FetchRateLimited, Shutdown
  <2> QED BY <2>1, FiredLate
<1> QED BY <1>1, SessionInvariant, PTL DEF Spec, RateLimitPausesAll
-----------------------------------------------------------------------------
(* Starvation *)

Connected == phase \in {"session", "fetching"}

\* The targets that come after i now, and the one being requested if i was
\* ready when it was chosen.
Served(i) ==
  {j \in Targets : due[j] > due[i]}
    \cup (IF phase = "fetching" /\ due[i] <= lastFetch THEN {fetching} ELSE {})

\* What was requested while i was ready now comes after i: each at most once.
FairTurns ==
  Connected =>
    /\ due \in [Targets -> Nat]
    /\ \A i \in Targets : passed[i] > 0 => due[i] <= lastFetch
    /\ \A i \in Targets : passed[i] <= Cardinality(Served(i))

\* An answer takes time, and whoever is being requested was passed by nobody.
TurnTaken ==
  /\ phase = "session" => lastFetch < now
  /\ phase = "fetching" =>
       /\ lastFetch \in Nat /\ lastFetch <= now
       /\ fetching \in Targets /\ passed[fetching] = 0

FairInv == passed \in [Targets -> Nat] /\ NoStarvation /\ FairTurns /\ TurnTaken

\* Any set of other targets has at most N - 1 of them.
LEMMA Others ==
  ASSUME NEW i \in Targets, NEW S \in SUBSET (Targets \ {i})
  PROVE  Cardinality(S) \in Nat /\ Cardinality(S) <= N - 1
<1>1. IsFiniteSet(Targets) /\ Cardinality(Targets) = N
  <2>1. N \in Nat /\ i \in Nat /\ 1 <= i /\ i <= N
    BY Positive DEF Targets
  <2> QED BY <2>1, FS_Interval DEF Targets
<1>2. IsFiniteSet(Targets \ {i}) /\ Cardinality(Targets \ {i}) = N - 1
  BY <1>1, FS_RemoveElement
<1> QED BY <1>2, FS_Subset, FS_CardinalityType

LEMMA Grown ==
  ASSUME NEW T \in SUBSET Targets, NEW S \in SUBSET T
  PROVE  /\ Cardinality(S) \in Nat /\ Cardinality(T) \in Nat
         /\ Cardinality(S) <= Cardinality(T)
<1>1. IsFiniteSet(Targets)
  BY Positive, FS_Interval DEF Targets
<1>2. IsFiniteSet(T) /\ IsFiniteSet(S)
  BY <1>1, FS_Subset
<1> QED BY <1>2, FS_Subset, FS_CardinalityType

\* A step after which some were passed by nobody, and the others by no more,
\* with those that came after them still after them.
LEMMA TurnsKept ==
  ASSUME FairInv, TurnTaken', Connected => due' \in [Targets -> Nat], Connected,
         passed' \in [Targets -> Nat], lastFetch' = lastFetch,
         \A i \in Targets :
           \/ passed'[i] = 0
           \/ /\ passed'[i] = passed[i] /\ due'[i] = due[i]
              /\ Connected' => Served(i) \subseteq Served(i)'
  PROVE  FairInv'
<1>1. NoStarvation'
  <2>1. \A i \in Targets : N - 1 \in Nat
    BY Positive DEF Targets
  <2> QED BY <2>1 DEF FairInv, NoStarvation
<1>2. FairTurns'
  <2>1. ASSUME Connected', NEW i \in Targets
        PROVE  /\ passed'[i] > 0 => due'[i] <= lastFetch'
               /\ passed'[i] <= Cardinality(Served(i)')
    <3> Served(i)' \subseteq Targets
      BY <2>1 DEF Served, TurnTaken
    <3>1. CASE passed'[i] = 0
      <4>2. Cardinality(Served(i)') \in Nat
        BY Grown
      <4> QED BY <3>1, <4>2
    <3>2. CASE passed'[i] # 0
      <4>1. /\ passed'[i] = passed[i] /\ due'[i] = due[i]
            /\ Served(i) \subseteq Served(i)'
        BY <2>1, <3>2
      <4>2. Cardinality(Served(i)) <= Cardinality(Served(i)')
            /\ Cardinality(Served(i)) \in Nat /\ Cardinality(Served(i)') \in Nat
        BY <4>1, Grown
      <4>3. passed[i] <= Cardinality(Served(i)) /\ (passed[i] > 0 => due[i] <= lastFetch)
            /\ passed[i] \in Nat
        BY DEF FairInv, FairTurns
      <4> QED BY <4>1, <4>2, <4>3
    <3> QED BY <3>1, <3>2
  <2> QED BY <2>1 DEF FairTurns
<1> QED BY <1>1, <1>2 DEF FairInv
\* A step outside a session, or out of it, changes nothing of this.
LEMMA Disconnected ==
  ASSUME FairInv, ~Connected', passed' = passed
  PROVE  FairInv'
BY DEF FairInv, NoStarvation, FairTurns, TurnTaken, Connected

LEMMA FairInitInv == Init => FairInv
<1> SUFFICES ASSUME Init PROVE FairInv
  OBVIOUS
<1>1. \A i \in Targets : N - 1 \in Nat
  BY Positive DEF Targets
<1> QED BY <1>1 DEF Init, FairInv, NoStarvation, FairTurns, TurnTaken, Connected

LEMMA FairConnect ==
  ASSUME SessionInv, FairInv, ConnectSucceeds
  PROVE  FairInv'
<1>1. NewDue \in [Targets -> Nat]
  BY NewDueType DEF SessionInv, TimesOK
<1>2. /\ phase' = "session" /\ due' = NewDue /\ lastFetch' = Never /\ now' = now
      /\ passed' = [i \in Targets |-> 0]
  BY DEF ConnectSucceeds
<1> HIDE DEF NewDue
<1>3. \A i \in Targets : Cardinality(Served(i)') \in Nat
  <2> TAKE i \in Targets
  <2>1. Served(i)' \subseteq Targets
    BY <1>2 DEF Served
  <2> QED BY <2>1, Grown
<1>4. \A i \in Targets : N - 1 \in Nat
  BY Positive DEF Targets
<1> QED
  BY <1>1, <1>2, <1>3, <1>4
     DEF FairInv, NoStarvation, FairTurns, TurnTaken, SessionInv, TimesOK, Never

\* Time, frames and the rest of a session: no deadline is set.
LEMMA FairWait ==
  ASSUME SessionInv, FairInv, now' \in Nat, now' >= now,
         UNCHANGED <<phase, due, lastFetch, fetching, passed>>
  PROVE  FairInv'
<1>1. TurnTaken'
  BY DEF FairInv, TurnTaken, SessionInv, TimesOK, Deadlines, Never
<1>2. \A i : Served(i)' = Served(i)
  BY DEF Served
<1> QED BY <1>1, <1>2 DEF FairInv, NoStarvation, FairTurns, Connected

\* A resync puts its target at the end of those that are ready.
LEMMA FairResync ==
  ASSUME SessionInv, FairInv, NEW k \in Targets, ReadNeedResync(k)
  PROVE  FairInv'
<1>1. /\ phase = "session" /\ due' = [due EXCEPT ![k] = now]
      /\ passed' = [passed EXCEPT ![k] = 0]
      /\ UNCHANGED <<now, phase, lastFetch, fetching>>
  BY DEF ReadNeedResync
<1>2. /\ due \in [Targets -> Nat] /\ now \in Nat /\ passed \in [Targets -> Nat]
      /\ lastFetch < now
      /\ \A i \in Targets : passed[i] > 0 => due[i] <= lastFetch
      /\ lastFetch \in Int
  BY <1>1 DEF FairInv, FairTurns, TurnTaken, Connected, SessionInv, TimesOK, Deadlines, Never
<1>3. due' \in [Targets -> Nat] /\ passed' \in [Targets -> Nat] /\ TurnTaken'
  BY <1>1, <1>2 DEF TurnTaken
<1>4. ASSUME NEW i \in Targets, passed'[i] # 0
      PROVE  /\ passed'[i] = passed[i] /\ due'[i] = due[i] /\ Served(i) \subseteq Served(i)'
  <2>1. i # k /\ passed'[i] = passed[i] /\ due'[i] = due[i] /\ passed[i] > 0
    BY <1>1, <1>2, <1>4
  <2>2. due[i] < now
    BY <1>2, <2>1
  <2>3. \A j \in Targets : due[j] > due[i] => due'[j] > due[i]
    BY <1>1, <1>2, <2>2
  <2> QED BY <1>1, <2>1, <2>3 DEF Served
<1> QED BY <1>1, <1>3, <1>4, TurnsKept DEF Connected

\* A request: those that were ready and not chosen have one more after them.
LEMMA FairStart ==
  ASSUME SessionInv, FairInv, NEW k \in Targets, StartFetch(k)
  PROVE  FairInv'
<1>1. /\ phase = "session" /\ phase' = "fetching" /\ fetching' = k /\ lastFetch' = now
      /\ passed' = [j \in Targets |->
           IF j = k THEN 0 ELSE IF due[j] # Never /\ due[j] <= now
                                THEN passed[j] + 1 ELSE passed[j]]
      /\ UNCHANGED <<now, due>>
  BY DEF StartFetch
<1>2. /\ due \in [Targets -> Nat] /\ now \in Nat /\ passed \in [Targets -> Nat]
      /\ lastFetch < now /\ lastFetch \in Int
      /\ \A i \in Targets : passed[i] > 0 => due[i] <= lastFetch
      /\ \A i \in Targets : passed[i] <= Cardinality(Served(i))
  BY <1>1 DEF FairInv, FairTurns, TurnTaken, Connected, SessionInv, TimesOK, Deadlines, Never
<1>3. \A i \in Targets : due[k] <= due[i]
  BY <1>2 DEF StartFetch, Earliest, Scheduled, Never
<1>4. passed' \in [Targets -> Nat] /\ TurnTaken'
  BY <1>1, <1>2 DEF TurnTaken
<1>5. ASSUME NEW i \in Targets
      PROVE  /\ passed'[i] > 0 => due'[i] <= lastFetch'
             /\ passed'[i] <= Cardinality(Served(i)')
             /\ passed'[i] <= N - 1
  <2>1. Served(i) \subseteq Targets \ {i} /\ Served(i)' \subseteq Targets
    BY <1>1, <1>2 DEF Served
  <2>2. Cardinality(Served(i)') \in Nat /\ N - 1 \in Nat
    BY <2>1, Grown, Positive DEF Targets
  <2>3. CASE i = k
    BY <1>1, <2>2, <2>3
  <2>4. CASE i # k /\ due[i] <= now
    <3>1. passed'[i] = passed[i] + 1
      BY <1>1, <1>2, <2>4 DEF Never
    <3>2. Served(i)' = Served(i) \cup {k} /\ k \notin Served(i)
      BY <1>1, <1>2, <1>3, <2>4 DEF Served
    <3>3. IsFiniteSet(Served(i))
      <4>1. IsFiniteSet(Targets)
        BY Positive, FS_Interval DEF Targets
      <4> QED BY <2>1, <4>1, FS_Subset
    <3>4. Cardinality(Served(i)') = Cardinality(Served(i)) + 1
      BY <3>2, <3>3, FS_AddElement
    <3>5. Cardinality(Served(i)') <= N - 1
      <4>1. Served(i)' \in SUBSET (Targets \ {i})
        BY <2>1, <2>4, <3>2
      <4> QED BY <4>1, Others
    <3>6. Cardinality(Served(i)) \in Nat /\ passed[i] \in Nat /\ passed[i] <= Cardinality(Served(i))
      BY <1>2, <2>1, Grown
    <3> QED BY <1>1, <2>2, <2>4, <3>1, <3>4, <3>5, <3>6
  <2>5. CASE i # k /\ due[i] > now
    <3>1. passed'[i] = passed[i]
      BY <1>1, <1>2, <2>5
    <3>2. passed[i] = 0
      BY <1>2, <2>5
    <3> QED BY <2>2, <3>1, <3>2
  <2> QED BY <1>2, <2>3, <2>4, <2>5
<1> QED BY <1>1, <1>2, <1>4, <1>5 DEF FairInv, NoStarvation, FairTurns, Connected

\* An answer: its target comes after those that were ready.
LEMMA FairFinish ==
  ASSUME SessionInv, FairInv, Finish, due' \in [Targets -> Nat], passed' \in [Targets -> Nat],
         due'[fetching] > lastFetch, UNCHANGED <<now, lastFetch>>,
         \A i \in Targets \ {fetching} :
           \/ passed'[i] = 0
           \/ passed'[i] = passed[i] /\ due'[i] = due[i],
         \A i \in Targets : due'[i] >= due[i] \/ due'[i] > lastFetch,
         passed'[fetching] = passed[fetching] \/ passed'[fetching] = 0
  PROVE  FairInv'
<1>1. /\ phase = "fetching" /\ phase' = "session" /\ now > lastFetch
      /\ fetching \in Targets /\ passed[fetching] = 0 /\ lastFetch \in Nat
      /\ due \in [Targets -> Nat] /\ passed \in [Targets -> Nat]
      /\ \A i \in Targets : passed[i] > 0 => due[i] <= lastFetch
  BY DEF Finish, FairInv, FairTurns, TurnTaken, Connected
<1>2. TurnTaken'
  BY <1>1 DEF TurnTaken, SessionInv, TimesOK
<1>3. ASSUME NEW i \in Targets, passed'[i] # 0
      PROVE  /\ passed'[i] = passed[i] /\ due'[i] = due[i] /\ Served(i) \subseteq Served(i)'
  <2>1. i # fetching /\ passed'[i] = passed[i] /\ due'[i] = due[i]
    BY <1>1, <1>3
  <2>2. due[i] <= lastFetch
    BY <1>1, <1>3, <2>1
  <2>3. \A j \in Targets : due[j] > due[i] => due'[j] > due[i]
    BY <1>1, <2>2
  <2>4. due'[fetching] > due[i]
    BY <1>1, <2>2
  <2> QED BY <1>1, <2>1, <2>3, <2>4 DEF Served
<1> QED BY <1>1, <1>2, <1>3, TurnsKept DEF Connected
LEMMA FairAnswer ==
  ASSUME SessionInv, FairInv,
         FetchSucceeds \/ FetchFails \/ \E d \in RetryAfters : FetchRateLimited(d)
  PROVE  FairInv'
<1>1. Finish /\ UNCHANGED <<now, lastFetch>>
  BY DEF FetchSucceeds, FetchFails, FetchRateLimited
<1>2. /\ fetching \in Targets /\ lastFetch \in Nat /\ now \in Nat /\ now > lastFetch
      /\ due \in [Targets -> Nat] /\ passed \in [Targets -> Nat]
  BY <1>1 DEF Finish, FairInv, FairTurns, TurnTaken, Connected, SessionInv, TimesOK
<1>3. CASE FetchSucceeds \/ FetchFails
  <2>1. PICK d \in Nat : due' = [due EXCEPT ![fetching] = now + d]
    <3>1. CASE FetchSucceeds
      BY <3>1, Positive DEF FetchSucceeds
    <3>2. CASE FetchFails
      <4> PICK d \in NextBackoff(attempts[fetching], RestFloor, RestCap) :
               due' = [due EXCEPT ![fetching] = now + d]
        BY <3>2 DEF FetchFails
      <4> QED BY Positive, BackoffIsFloored
    <3> QED BY <1>3, <3>1, <3>2
  <2>2. passed' = passed
    BY <1>3 DEF FetchSucceeds, FetchFails, history
  <2>3. /\ due' \in [Targets -> Nat] /\ due'[fetching] > lastFetch
        /\ \A i \in Targets \ {fetching} : due'[i] = due[i]
    BY <1>2, <2>1
  <2>4. \A i \in Targets : due'[i] >= due[i] \/ due'[i] > lastFetch
    BY <1>2, <2>3
  <2> QED BY <1>1, <1>2, <2>2, <2>3, <2>4, FairFinish
<1>4. ASSUME NEW d \in RetryAfters, FetchRateLimited(d) PROVE FairInv'
  <2> DEFINE until == now + d
  <2>1. /\ due' = RateLimitedDue(fetching, until)
        /\ passed' = [j \in Targets |-> IF due'[j] # due[j] THEN 0 ELSE passed[j]]
    BY <1>4 DEF FetchRateLimited
  <2>2. until \in Nat /\ until > lastFetch
    BY <1>2, Positive
  <2> HIDE DEF until
  <2>3. /\ \A i \in Targets : due'[i] \in Nat
        /\ due'[fetching] > lastFetch
        /\ \A i \in Targets : due'[i] >= due[i] \/ due'[i] > lastFetch
    BY <1>2, <2>1, <2>2 DEF RateLimitedDue, Greater, Never
  <2>4. due' \in [Targets -> Nat]
    BY <2>1, <2>3 DEF RateLimitedDue
  <2>5. passed' \in [Targets -> Nat]
    BY <1>2, <2>1
  <2>6. ASSUME NEW i \in Targets
        PROVE  passed'[i] = 0 \/ (passed'[i] = passed[i] /\ due'[i] = due[i])
    <3>1. passed'[i] = IF due'[i] # due[i] THEN 0 ELSE passed[i]
      BY <2>1
    <3> QED BY <3>1
  <2> QED BY <1>1, <1>2, <2>3, <2>4, <2>5, <2>6, FairFinish
<1> QED BY <1>3, <1>4

LEMMA FairNext == SessionInv /\ FairInv /\ [Next]_vars => FairInv'
<1> SUFFICES ASSUME SessionInv, FairInv, [Next]_vars PROVE FairInv'
  OBVIOUS
<1>1. CASE ConnectFails \/ Wake \/ SocketEnds \/ IdleEnds \/ ReadReconnect \/ Shutdown
  <2>1. ~Connected' /\ passed' = passed
    BY <1>1 DEF ConnectFails, Wake, SocketEnds, IdleEnds, EndSession, ReadReconnect, Shutdown,
                Connected, history
  <2> QED BY <2>1, Disconnected
<1>2. CASE Tick \/ (\E ok \in BOOLEAN : ReadFrame(ok)) \/ UNCHANGED vars
  <2>1. /\ now' \in Nat /\ now' >= now
        /\ UNCHANGED <<phase, due, lastFetch, fetching, passed>>
    BY <1>2 DEF Tick, ReadFrame, vars, sched, history, SessionInv, TimesOK
  <2> QED BY <2>1, FairWait
<1> QED BY <1>1, <1>2, FairConnect, FairResync, FairStart, FairAnswer DEF Next

\* RestSched::next serves the earliest deadline: each target is passed at most
\* once by every other between the setting of its deadline and its request.
THEOREM NoStarvationTheorem == Spec => []NoStarvation
<1>1. FairInv => NoStarvation
  BY DEF FairInv
<1> QED BY <1>1, SessionInvariant, FairInitInv, FairNext, PTL DEF Spec

-----------------------------------------------------------------------------
(* Frames: induction over the naturals, by a least element. *)

\* A set of naturals has a least element.
LEMMA LeastElement ==
  ASSUME NEW T, T \subseteq Nat, T # {}
  PROVE  \E m \in T : \A k \in T : m <= k
<1>1. PICK m \in T : \A k \in T : ~ (<<k, m>> \in OpToRel(<, Nat))
  BY WFMin, NatLessThanWellFounded, Zenon
<1>2. \A k \in T : ~ (k < m)
  BY <1>1, Zenon DEF OpToRel
<1>3. \A k \in T : m <= k
  BY <1>2
<1> QED BY <1>3

\* A set that holds zero and every successor holds every natural.
LEMMA Induction ==
  ASSUME NEW S, 0 \in S, \A n \in Nat : n \in S => n + 1 \in S
  PROVE  \A n \in Nat : n \in S
<1> SUFFICES ASSUME NEW x \in Nat, x \notin S PROVE FALSE
  OBVIOUS
<1> DEFINE T == {n \in Nat : n \notin S}
<1>1. T \subseteq Nat /\ T # {}
  OBVIOUS
<1>2. PICK m \in T : \A k \in T : m <= k
  BY <1>1, LeastElement
<1>3. m # 0 /\ m \in Nat
  BY <1>2
<1>4. m - 1 \in Nat /\ m - 1 \notin T
  BY <1>2, <1>3
<1> QED BY <1>2, <1>3, <1>4

-----------------------------------------------------------------------------
(* The steps of a parser. *)

\* f goes through the states of the first n steps.
Runs(f, frame, path, id, from, s, steps, n) ==
  /\ f = [k \in 0 .. n |-> f[k]]
  /\ f[0] = s
  /\ \A k \in 1 .. n : f[k] = Step(frame, path, id, from, f[k - 1], steps[k])

\* There is such a function, whatever the steps.
LEMMA RunsExist ==
  ASSUME NEW frame, NEW path, NEW id, NEW from, NEW s, NEW steps, NEW n \in Nat
  PROVE  \E f : Runs(f, frame, path, id, from, s, steps, n)
<1> DEFINE R(f, k) == Runs(f, frame, path, id, from, s, steps, k)
           T == {k \in Nat : \E f : R(f, k)}
<1>1. 0 \in T
  <2> DEFINE f == [k \in 0 .. 0 |-> s]
  <2>1. R(f, 0)
    BY DEF Runs
  <2> QED BY <2>1
<1>2. ASSUME NEW k \in Nat, k \in T PROVE k + 1 \in T
  <2>1. PICK f : R(f, k)
    BY <1>2
  <2> DEFINE x == Step(frame, path, id, from, f[k], steps[k + 1])
             g == [i \in 0 .. k + 1 |-> IF i = k + 1 THEN x ELSE f[i]]
  <2>2. /\ \A i \in 0 .. k : g[i] = f[i]
        /\ g[k + 1] = x
        /\ g = [i \in 0 .. k + 1 |-> g[i]]
    OBVIOUS
  <2>3. f[0] = s /\ \A i \in 1 .. k : f[i] = Step(frame, path, id, from, f[i - 1], steps[i])
    BY <2>1 DEF Runs
  <2>4. g[0] = s
    BY <2>2, <2>3
  <2>5. ASSUME NEW i \in 1 .. k + 1
        PROVE  g[i] = Step(frame, path, id, from, g[i - 1], steps[i])
    <3>1. g[i - 1] = f[i - 1]
      BY <2>2
    <3>2. CASE i = k + 1
      BY <2>2, <3>1, <3>2
    <3>3. CASE i # k + 1
      BY <2>2, <2>3, <3>1, <3>3
    <3> QED BY <3>2, <3>3
  <2> HIDE DEF g
  <2>6. R(g, k + 1)
    BY <2>2, <2>4, <2>5 DEF Runs
  <2> QED BY <2>6
<1> HIDE DEF T
<1>3. n \in T
  BY <1>1, <1>2, Induction
<1> QED BY <1>3 DEF T

\* Two that begin alike agree as far as the shorter goes.
LEMMA RunsAgree ==
  ASSUME NEW frame, NEW path, NEW id, NEW from, NEW s, NEW f, NEW a, NEW m \in Nat,
         NEW g, NEW b, NEW n \in Nat, m <= n,
         Runs(f, frame, path, id, from, s, a, m), Runs(g, frame, path, id, from, s, b, n),
         \A k \in 1 .. m : a[k] = b[k]
  PROVE  f[m] = g[m]
<1> DEFINE T == {k \in Nat : k <= m => f[k] = g[k]}
<1>1. 0 \in T
  BY DEF Runs
<1>2. ASSUME NEW k \in Nat, k \in T PROVE k + 1 \in T
  <2> SUFFICES ASSUME k + 1 <= m PROVE f[k + 1] = g[k + 1]
    OBVIOUS
  <2>1. k + 1 \in 1 .. m /\ k + 1 \in 1 .. n /\ (k + 1) - 1 = k
    OBVIOUS
  <2>2. f[k] = g[k] /\ a[k + 1] = b[k + 1]
    BY <1>2, <2>1
  <2>3. f[k + 1] = Step(frame, path, id, from, f[(k + 1) - 1], a[k + 1])
    BY <2>1 DEF Runs
  <2>4. g[k + 1] = Step(frame, path, id, from, g[(k + 1) - 1], b[k + 1])
    BY <2>1 DEF Runs
  <2> QED BY <2>1, <2>2, <2>3, <2>4
<1> HIDE DEF T
<1>3. m \in T
  BY <1>1, <1>2, Induction
<1> QED BY <1>3 DEF T

\* RunSteps is the end of one.
LEMMA RunStepsIs ==
  ASSUME NEW frame, NEW path, NEW id, NEW from, NEW s, NEW steps, Len(steps) \in Nat
  PROVE  \E f : /\ Runs(f, frame, path, id, from, s, steps, Len(steps))
                /\ RunSteps(frame, path, id, from, s, steps) = f[Len(steps)]
<1> DEFINE n == Len(steps)
           IsRun(f) == f = [k \in 0 .. n |->
                              IF k = 0 THEN s
                              ELSE Step(frame, path, id, from, f[k - 1], steps[k])]
<1>1. \E f : IsRun(f)
  <2>1. PICK f : Runs(f, frame, path, id, from, s, steps, n)
    BY RunsExist
  <2>2. \A k \in 0 .. n : f[k] = IF k = 0 THEN s
                                 ELSE Step(frame, path, id, from, f[k - 1], steps[k])
    BY <2>1 DEF Runs
  <2>3. f = [k \in 0 .. n |-> f[k]]
    BY <2>1 DEF Runs
  <2> QED BY <2>2, <2>3
<1> DEFINE h == CHOOSE f : IsRun(f)
<1>2. IsRun(h)
  BY <1>1
<1>3. RunSteps(frame, path, id, from, s, steps) = h[n]
  BY DEF RunSteps
<1> HIDE DEF h
<1>4. Runs(h, frame, path, id, from, s, steps, n)
  <2>1. \A k \in 0 .. n : h[k] = IF k = 0 THEN s
                                 ELSE Step(frame, path, id, from, h[k - 1], steps[k])
    BY <1>2
  <2>2. h = [k \in 0 .. n |-> h[k]]
    BY <1>2
  <2>3. h[0] = s
    BY <2>1
  <2>4. \A k \in 1 .. n : h[k] = Step(frame, path, id, from, h[k - 1], steps[k])
    BY <2>1
  <2> QED BY <2>2, <2>3, <2>4 DEF Runs
<1> QED BY <1>3, <1>4

\* The steps a parser may take.
FieldNames ==
  {"time", "type", "data", "product_id", "symbol", "side", "size", "price", "qty", "sequence",
   "trade_id", "last_trade_id", "id", "timestamp", "checksum", "changes", "bids", "asks",
   "level1", "level2"}
EventKinds ==
  {"Clear", "SnapBegin", "SnapLevel", "SnapEnd", "Set", "Checksum", "Trade", "Heartbeat", "Gap"}
Operations == {"match", "trade", "heartbeat", "depth"}
Steps == [do : Operations \cup {"read", "push"}, what : FieldNames \cup EventKinds]

\* A parser without steps.
LEMMA RunNone ==
  ASSUME NEW frame, NEW path, NEW id, NEW from, NEW s
  PROVE  RunSteps(frame, path, id, from, s, <<>>) = s
<1>1. Len(<<>>) = 0
  OBVIOUS
<1>2. PICK f : /\ Runs(f, frame, path, id, from, s, <<>>, Len(<<>>))
               /\ RunSteps(frame, path, id, from, s, <<>>) = f[Len(<<>>)]
  BY <1>1, RunStepsIs
<1> QED BY <1>1, <1>2 DEF Runs

\* A parser with one step more.
LEMMA RunAppend ==
  ASSUME NEW frame, NEW path, NEW id, NEW from, NEW s, NEW a \in Seq(Steps), NEW x \in Steps
  PROVE  RunSteps(frame, path, id, from, s, Append(a, x))
           = Step(frame, path, id, from, RunSteps(frame, path, id, from, s, a), x)
<1> DEFINE b == Append(a, x)
           n == Len(a)
<1>1. Len(b) = n + 1 /\ n \in Nat /\ Len(b) \in Nat /\ b[n + 1] = x /\ \A k \in 1 .. n : a[k] = b[k]
  OBVIOUS
<1> HIDE DEF b
<1>2. PICK f : /\ Runs(f, frame, path, id, from, s, a, n)
               /\ RunSteps(frame, path, id, from, s, a) = f[n]
  BY <1>1, RunStepsIs
<1>3. PICK g : /\ Runs(g, frame, path, id, from, s, b, n + 1)
               /\ RunSteps(frame, path, id, from, s, b) = g[n + 1]
  BY <1>1, RunStepsIs
<1>4. f[n] = g[n]
  BY <1>1, <1>2, <1>3, RunsAgree
<1>5. g[n + 1] = Step(frame, path, id, from, g[(n + 1) - 1], b[n + 1])
  BY <1>1, <1>3 DEF Runs
<1>6. (n + 1) - 1 = n
  BY <1>1
<1> QED BY <1>1, <1>2, <1>3, <1>4, <1>5, <1>6 DEF b

\* The steps of two parts of a parser, one after the other.
LEMMA RunConcat ==
  ASSUME NEW frame, NEW path, NEW id, NEW from, NEW s, NEW a \in Seq(Steps), NEW b \in Seq(Steps)
  PROVE  RunSteps(frame, path, id, from, s, a \o b)
           = RunSteps(frame, path, id, from, RunSteps(frame, path, id, from, s, a), b)
<1> DEFINE Run(t, steps) == RunSteps(frame, path, id, from, t, steps)
           Joined(c) == Run(s, a \o c) = Run(Run(s, a), c)
           T == {n \in Nat : \A c \in Seq(Steps) : Len(c) = n => Joined(c)}
<1>1. 0 \in T
  <2> SUFFICES ASSUME NEW c \in Seq(Steps), Len(c) = 0 PROVE Joined(c)
    OBVIOUS
  <2>1. c = <<>> /\ a \o c = a
    OBVIOUS
  <2> QED BY <2>1, RunNone
<1>2. ASSUME NEW n \in Nat, n \in T PROVE n + 1 \in T
  <2> SUFFICES ASSUME NEW c \in Seq(Steps), Len(c) = n + 1 PROVE Joined(c)
    OBVIOUS
  <2> DEFINE d == SubSeq(c, 1, n)
             x == c[n + 1]
  <2>1. d \in Seq(Steps) /\ Len(d) = n /\ x \in Steps /\ c = Append(d, x)
    OBVIOUS
  <2>2. Joined(d)
    BY <1>2, <2>1
  <2> HIDE DEF d, x
  <2>3. a \o d \in Seq(Steps) /\ a \o c = Append(a \o d, x)
    BY <2>1
  <2>4. Run(s, a \o c) = Step(frame, path, id, from, Run(s, a \o d), x)
    <3>1. Run(s, Append(a \o d, x)) = Step(frame, path, id, from, Run(s, a \o d), x)
      <4> DEFINE e == a \o d
      <4>1. e \in Seq(Steps)
        BY <2>3
      <4> HIDE DEF e
      <4>2. Run(s, Append(e, x)) = Step(frame, path, id, from, Run(s, e), x)
        BY <2>1, <4>1, RunAppend
      <4> QED BY <4>2 DEF e
    <3> QED BY <2>3, <3>1
  <2>5. Run(Run(s, a), c) = Step(frame, path, id, from, Run(Run(s, a), d), x)
    BY <2>1, RunAppend
  <2> QED BY <2>2, <2>4, <2>5
<1> HIDE DEF T
<1>3. Len(b) \in T
  BY <1>1, <1>2, Induction
<1> QED BY <1>3 DEF T

-----------------------------------------------------------------------------
(* What reading fields and pushing events comes to. *)

ErrorNames == {"none", "Structure", "Number", "UnknownInstrument"}

CodecStates == [trade : Int, depth : Int, synced : BOOLEAN, out : Seq(EventKinds), err : ErrorNames]

\* The errors of some fields on a path.
Errors(frame, path, fields) == {ErrorOf(path, frame.form[x]) : x \in fields} \ {"none"}

\* From s, reading `fields` and pushing `kinds` among them leaves r: these
\* kinds, or an error of one of the fields and some kinds.
Leaves(frame, path, fields, kinds, s, r) ==
  IF s.err # "none" THEN r = s
  ELSE IF Errors(frame, path, fields) = {} THEN r = [s EXCEPT !.out = s.out \o kinds]
  ELSE \E e \in Errors(frame, path, fields), p \in Seq(EventKinds) :
         r = [s EXCEPT !.err = e, !.out = s.out \o p]

\* These steps do so, whatever the frame and the codec.
Effect(steps, fields, kinds) ==
  /\ steps \in Seq(Steps) /\ kinds \in Seq(EventKinds)
  /\ \A frame, path, id, from : \A s \in CodecStates :
       Leaves(frame, path, fields, kinds, s, RunSteps(frame, path, id, from, s, steps))

LEMMA ErrorOfType ==
  ASSUME NEW path, NEW form
  PROVE  ErrorOf(path, form) \in ErrorNames
BY DEF ErrorOf, ErrorNames

LEMMA ErrorsAreErrors ==
  ASSUME NEW frame, NEW path, NEW fields
  PROVE  Errors(frame, path, fields) \subseteq ErrorNames \ {"none"}
BY ErrorOfType DEF Errors

\* The errors of the fields of two parts.
LEMMA ErrorsOfBoth ==
  ASSUME NEW frame, NEW path, NEW F, NEW G
  PROVE  Errors(frame, path, F \cup G) = Errors(frame, path, F) \cup Errors(frame, path, G)
BY DEF Errors

LEMMA OutAssociates ==
  ASSUME NEW a \in Seq(EventKinds), NEW b \in Seq(EventKinds), NEW c \in Seq(EventKinds)
  PROVE  (a \o b) \o c = a \o (b \o c) /\ b \o c \in Seq(EventKinds)
OBVIOUS

\* Two parts of a parser, one after the other, read the fields and push the
\* events of both; the second has no effect after an error of the first.
LEMMA EffectConcat ==
  ASSUME NEW a, NEW b, NEW F, NEW G, NEW K, NEW L, Effect(a, F, K), Effect(b, G, L)
  PROVE  Effect(a \o b, F \cup G, K \o L)
<1>1. /\ a \in Seq(Steps) /\ b \in Seq(Steps) /\ K \in Seq(EventKinds) /\ L \in Seq(EventKinds)
      /\ a \o b \in Seq(Steps) /\ K \o L \in Seq(EventKinds)
  BY DEF Effect
<1>2. ASSUME NEW frame, NEW path, NEW id, NEW from, NEW s \in CodecStates
      PROVE  Leaves(frame, path, F \cup G, K \o L, s,
                    RunSteps(frame, path, id, from, s, a \o b))
  <2> DEFINE t == RunSteps(frame, path, id, from, s, a)
             r == RunSteps(frame, path, id, from, t, b)
             EF == Errors(frame, path, F)
             EG == Errors(frame, path, G)
             EFG == Errors(frame, path, F \cup G)
  <2>1. RunSteps(frame, path, id, from, s, a \o b) = r
    BY <1>1, RunConcat
  <2>2. Leaves(frame, path, F, K, s, t)
    BY DEF Effect
  <2>3. t \in CodecStates => Leaves(frame, path, G, L, t, r)
    BY DEF Effect
  <2>4. EFG = EF \cup EG /\ EF \subseteq ErrorNames /\ EG \subseteq ErrorNames /\ "none" \notin EF
    BY ErrorsOfBoth, ErrorsAreErrors
  <2> HIDE DEF t, r
  <2>5. CASE s.err # "none"
    <3>1. t = s
      BY <2>2, <2>5 DEF Leaves
    <3>2. r = s
      BY <2>3, <2>5, <3>1 DEF Leaves
    <3> QED BY <2>1, <2>5, <3>2 DEF Leaves
  <2>6. CASE s.err = "none" /\ EF # {}
    <3>1. PICK e \in EF, p \in Seq(EventKinds) : t = [s EXCEPT !.err = e, !.out = s.out \o p]
      BY <2>2, <2>6 DEF Leaves
    <3>2. e \in ErrorNames /\ e # "none"
      BY <2>4
    <3>3. t \in CodecStates /\ t.err # "none"
      <4>1. s.out \o p \in Seq(EventKinds)
        BY DEF CodecStates
      <4> QED BY <3>1, <3>2, <4>1 DEF CodecStates
    <3>4. r = t
      BY <2>3, <3>3 DEF Leaves
    <3>5. e \in EFG /\ EFG # {}
      BY <2>4
    <3>6. \E x \in EFG, q \in Seq(EventKinds) : r = [s EXCEPT !.err = x, !.out = s.out \o q]
      BY <3>1, <3>4, <3>5
    <3> QED BY <2>1, <2>6, <3>5, <3>6 DEF Leaves
  <2>7. CASE s.err = "none" /\ EF = {}
    <3>1. t = [s EXCEPT !.out = s.out \o K]
      BY <2>2, <2>7 DEF Leaves
    <3>2. t \in CodecStates /\ t.err = "none" /\ t.out = s.out \o K /\ s.out \in Seq(EventKinds)
      <4>1. s.out \in Seq(EventKinds)
        BY DEF CodecStates
      <4> DEFINE o == s.out \o K
      <4>2. o \in Seq(EventKinds)
        BY <1>1, <4>1
      <4> HIDE DEF o
      <4>3. t = [s EXCEPT !.out = o]
        BY <3>1 DEF o
      <4>4. t \in CodecStates /\ t.err = "none" /\ t.out = o
        BY <2>7, <4>2, <4>3 DEF CodecStates
      <4> QED BY <4>1, <4>4 DEF o
    <3>3. CASE EG = {}
      <4>1. r = [t EXCEPT !.out = t.out \o L]
        BY <2>3, <3>2, <3>3 DEF Leaves
      <4>2. t.out \o L = s.out \o (K \o L)
        <5>1. s.out \in Seq(EventKinds) /\ K \in Seq(EventKinds) /\ L \in Seq(EventKinds)
          BY <1>1, <3>2
        <5>2. (s.out \o K) \o L = s.out \o (K \o L)
          BY <5>1, OutAssociates, Zenon
        <5>3. t.out = s.out \o K
          BY <3>2, Zenon
        <5> QED BY <5>2, <5>3, Zenon
      <4>3. r = [s EXCEPT !.out = s.out \o (K \o L)]
        BY <3>1, <4>1, <4>2 DEF CodecStates
      <4>4. EFG = {}
        BY <2>4, <2>7, <3>3
      <4> QED BY <2>1, <2>7, <4>3, <4>4 DEF Leaves
    <3>4. CASE EG # {}
      <4>1. PICK e \in EG, p \in Seq(EventKinds) : r = [t EXCEPT !.err = e, !.out = t.out \o p]
        BY <2>3, <3>2, <3>4 DEF Leaves
      <4>2. t.out \o p = s.out \o (K \o p) /\ K \o p \in Seq(EventKinds)
        <5>1. s.out \in Seq(EventKinds) /\ K \in Seq(EventKinds) /\ p \in Seq(EventKinds)
          BY <1>1, <3>2
        <5>2. (s.out \o K) \o p = s.out \o (K \o p) /\ K \o p \in Seq(EventKinds)
          BY <5>1, OutAssociates, Zenon
        <5>3. t.out = s.out \o K
          BY <3>2, Zenon
        <5> QED BY <5>2, <5>3, Zenon
      <4>3. r = [s EXCEPT !.err = e, !.out = s.out \o (K \o p)]
        BY <3>1, <4>1, <4>2 DEF CodecStates
      <4>4. e \in EFG /\ EFG # {}
        BY <2>4
      <4>5. \E x \in EFG, q \in Seq(EventKinds) : r = [s EXCEPT !.err = x, !.out = s.out \o q]
        BY <4>2, <4>3, <4>4
      <4> QED BY <2>1, <2>7, <4>4, <4>5 DEF Leaves
    <3> QED BY <3>3, <3>4
  <2> QED BY <2>5, <2>6, <2>7
<1> QED BY <1>1, <1>2 DEF Effect

\* One step as a parser.
LEMMA EffectOne ==
  ASSUME NEW x \in Steps, NEW F, NEW K \in Seq(EventKinds),
         \A frame, path, id, from : \A s \in CodecStates :
           Leaves(frame, path, F, K, s, Step(frame, path, id, from, s, x))
  PROVE  Effect(<<x>>, F, K)
<1> DEFINE none == <<>>
<1>1. <<x>> = Append(none, x) /\ none \in Seq(Steps) /\ <<x>> \in Seq(Steps)
  OBVIOUS
<1>2. ASSUME NEW frame, NEW path, NEW id, NEW from, NEW s \in CodecStates
      PROVE  RunSteps(frame, path, id, from, s, <<x>>) = Step(frame, path, id, from, s, x)
  <2>1. RunSteps(frame, path, id, from, s, none) = s
    BY RunNone
  <2> HIDE DEF none
  <2>2. RunSteps(frame, path, id, from, s, Append(none, x))
          = Step(frame, path, id, from, RunSteps(frame, path, id, from, s, none), x)
    BY <1>1, RunAppend
  <2> QED BY <1>1, <2>1, <2>2
<1> QED BY <1>1, <1>2 DEF Effect

LEMMA EffectNone == Effect(<<>>, {}, <<>>)
<1>1. <<>> \in Seq(Steps) /\ <<>> \in Seq(EventKinds)
  OBVIOUS
<1>2. ASSUME NEW frame, NEW path, NEW id, NEW from, NEW s \in CodecStates
      PROVE  Leaves(frame, path, {}, <<>>, s, RunSteps(frame, path, id, from, s, <<>>))
  <2>1. s.out \o <<>> = s.out /\ s = [s EXCEPT !.out = s.out]
    BY DEF CodecStates
  <2>2. Errors(frame, path, {}) = {}
    BY DEF Errors
  <2> QED BY <2>1, <2>2, RunNone DEF Leaves
<1> QED BY <1>1, <1>2 DEF Effect

\* Reading one field.
LEMMA EffectReadOne ==
  ASSUME NEW x \in FieldNames
  PROVE  Effect(<<[do |-> "read", what |-> x]>>, {x}, <<>>)
<1> DEFINE step == [do |-> "read", what |-> x]
<1>1. step \in Steps /\ <<>> \in Seq(EventKinds)
  BY DEF Steps, Operations
<1>2. ASSUME NEW frame, NEW path, NEW id, NEW from, NEW s \in CodecStates
      PROVE  Leaves(frame, path, {x}, <<>>, s, Step(frame, path, id, from, s, step))
  <2> DEFINE e == ErrorOf(path, frame.form[x])
  <2>1. CASE s.err # "none"
    BY <2>1 DEF Leaves, Step
  <2>2. CASE s.err = "none"
    <3>1. Step(frame, path, id, from, s, step) = [s EXCEPT !.err = e]
      BY <2>2 DEF Step
    <3>2. s.out \o <<>> = s.out /\ s = [s EXCEPT !.out = s.out] /\ s.out \in Seq(EventKinds)
      BY DEF CodecStates
    <3>3. Errors(frame, path, {x}) = {e} \ {"none"}
      BY DEF Errors
    <3> HIDE DEF e
    <3>4. CASE e = "none"
      <4>1. [s EXCEPT !.err = e] = [s EXCEPT !.out = s.out \o <<>>]
        BY <2>2, <3>2, <3>4 DEF CodecStates
      <4> QED BY <2>2, <3>1, <3>3, <3>4, <4>1 DEF Leaves
    <3>5. CASE e # "none"
      <4>1. [s EXCEPT !.err = e] = [s EXCEPT !.err = e, !.out = s.out \o <<>>]
        BY <3>2 DEF CodecStates
      <4>2. e \in Errors(frame, path, {x}) /\ Errors(frame, path, {x}) # {}
        BY <3>3, <3>5
      <4> QED BY <1>1, <2>2, <3>1, <4>1, <4>2 DEF Leaves
    <3> QED BY <3>4, <3>5
  <2> QED BY <2>1, <2>2
<1> HIDE DEF step
<1>3. Effect(<<step>>, {x}, <<>>)
  BY <1>1, <1>2, EffectOne
<1> QED BY <1>3 DEF step

\* Pushing one event.
LEMMA EffectPush ==
  ASSUME NEW k \in EventKinds
  PROVE  Effect(Push(k), {}, <<k>>)
<1> DEFINE step == [do |-> "push", what |-> k]
<1>1. step \in Steps /\ <<k>> \in Seq(EventKinds)
  BY DEF Steps, Operations
<1>2. ASSUME NEW frame, NEW path, NEW id, NEW from, NEW s \in CodecStates
      PROVE  Leaves(frame, path, {}, <<k>>, s, Step(frame, path, id, from, s, step))
  <2>1. Errors(frame, path, {}) = {}
    BY DEF Errors
  <2>2. CASE s.err # "none"
    BY <2>2 DEF Leaves, Step
  <2>3. CASE s.err = "none"
    <3>1. Step(frame, path, id, from, s, step) = [s EXCEPT !.out = Append(s.out, k)]
      BY <2>3 DEF Step, CodecStates
    <3>2. Append(s.out, k) = s.out \o <<k>>
      BY DEF CodecStates
    <3> QED BY <2>1, <2>3, <3>1, <3>2 DEF Leaves
  <2> QED BY <2>2, <2>3
<1> HIDE DEF step
<1>3. Effect(<<step>>, {}, <<k>>)
  BY <1>1, <1>2, EffectOne
<1> QED BY <1>3 DEF step, Push

FieldSet(fields) == {fields[i] : i \in DOMAIN fields}

\* Reading any fields.
LEMMA EffectRead ==
  ASSUME NEW fields \in Seq(FieldNames)
  PROVE  Effect(Read(fields), FieldSet(fields), <<>>)
<1> DEFINE Reads(f) == Effect(Read(f), FieldSet(f), <<>>)
           T == {n \in Nat : \A f \in Seq(FieldNames) : Len(f) = n => Reads(f)}
<1>1. 0 \in T
  <2> SUFFICES ASSUME NEW f \in Seq(FieldNames), Len(f) = 0 PROVE Reads(f)
    OBVIOUS
  <2>1. Read(f) = <<>> /\ FieldSet(f) = {}
    BY DEF Read, FieldSet
  <2> QED BY <2>1, EffectNone
<1>2. ASSUME NEW n \in Nat, n \in T PROVE n + 1 \in T
  <2> SUFFICES ASSUME NEW f \in Seq(FieldNames), Len(f) = n + 1 PROVE Reads(f)
    OBVIOUS
  <2> DEFINE g == SubSeq(f, 1, n)
             x == f[n + 1]
             step == [do |-> "read", what |-> x]
  <2>1. /\ g \in Seq(FieldNames) /\ Len(g) = n /\ x \in FieldNames /\ DOMAIN f = 1 .. n + 1
        /\ DOMAIN g = 1 .. n /\ \A i \in 1 .. n : g[i] = f[i]
    OBVIOUS
  <2>2. Reads(g) /\ Effect(<<step>>, {x}, <<>>)
    BY <1>2, <2>1, EffectReadOne
  <2>3. FieldSet(f) = FieldSet(g) \cup {x}
    <3> HIDE DEF g
    <3> QED BY <2>1 DEF FieldSet
  <2>4. Read(f) = Read(g) \o <<step>>
    <3>1. step \in Steps
      BY <2>1 DEF Steps, Operations
    <3>2. Read(g) \in Seq(Steps) /\ Len(Read(g)) = n
          /\ \A i \in 1 .. n : Read(g)[i] = [do |-> "read", what |-> g[i]]
      <4> HIDE DEF g
      <4>1. Read(g) = [i \in 1 .. n |-> [do |-> "read", what |-> g[i]]]
        BY <2>1 DEF Read
      <4>2. \A i \in 1 .. n : [do |-> "read", what |-> g[i]] \in Steps
        BY <2>1 DEF Steps, Operations
      <4> QED BY <4>1, <4>2
    <3>3. Read(f) = [i \in 1 .. n + 1 |-> [do |-> "read", what |-> f[i]]]
      BY <2>1 DEF Read
    <3> DEFINE j == Read(g) \o <<step>>
    <3>4. j \in Seq(Steps) /\ Len(j) = n + 1 /\ DOMAIN j = 1 .. n + 1
      BY <3>1, <3>2
    <3>5. \A i \in 1 .. n + 1 : j[i] = IF i <= n THEN Read(g)[i] ELSE step
      BY <3>1, <3>2
    <3>6. \A i \in 1 .. n + 1 : j[i] = [do |-> "read", what |-> f[i]]
      <4> HIDE DEF g, j
      <4> QED BY <2>1, <3>2, <3>5
    <3>7. j = [i \in 1 .. n + 1 |-> j[i]]
      BY <3>4
    <3> HIDE DEF j
    <3>8. Read(f) = j
      BY <3>3, <3>6, <3>7
    <3> QED BY <3>8 DEF j
  <2> HIDE DEF g, x, step
  <2>5. Effect(Read(g) \o <<step>>, FieldSet(g) \cup {x}, <<>> \o <<>>)
    BY <2>2, EffectConcat
  <2>6. <<>> \o <<>> = <<>>
    OBVIOUS
  <2> QED BY <2>3, <2>4, <2>5, <2>6
<1> HIDE DEF T
<1>3. Len(fields) \in T
  BY <1>1, <1>2, Induction
<1> QED BY <1>3 DEF T

-----------------------------------------------------------------------------
(* What a parser does at its end. *)

Settle(op, frame, id, from, s) ==
  CASE op = "match" -> EmitMatch(s, id, frame.type = "match")
    [] op = "trade" -> FinishTrade(s, id)
    [] op = "heartbeat" -> EmitHeartbeat(s, id)
    [] op = "depth" -> FinishDepth(s, id, from)
    [] OTHER -> s

\* The steps read `fields`, push `kinds` among them, and then do `op`.
ParserIs(steps, fields, kinds, op) ==
  \E plain : /\ Effect(plain, fields, kinds)
             /\ steps = IF op \in Operations THEN plain \o Change(op) ELSE plain

\* Cutting a buffer back takes away what was appended.
LEMMA OutKeptByTruncation ==
  ASSUME NEW a \in Seq(EventKinds), NEW b \in Seq(EventKinds)
  PROVE  /\ SubSeq(a \o b, 1, Len(a)) = a /\ a \o b \in Seq(EventKinds)
         /\ Len(a) \in Nat /\ Len(a) <= Len(a \o b)
OBVIOUS

LEMMA KindsAreOut ==
  /\ <<"Trade">> \in Seq(EventKinds) /\ <<"Gap">> \in Seq(EventKinds)
  /\ <<"Heartbeat">> \in Seq(EventKinds) /\ <<>> \in Seq(EventKinds)
BY DEF EventKinds

\* The same state with events before those it has.
Behind(a, s) == [s EXCEPT !.out = a \o s.out]

\* r is a codec's state with these fields.
Is(r, trade, depth, synced, out, err) ==
  /\ r \in CodecStates
  /\ r.trade = trade /\ r.depth = depth /\ r.synced = synced /\ r.out = out /\ r.err = err

LEMMA IsItself ==
  ASSUME NEW s \in CodecStates
  PROVE  /\ Is(s, s.trade, s.depth, s.synced, s.out, s.err)
         /\ s.trade \in Int /\ s.depth \in Int /\ s.synced \in BOOLEAN /\ s.out \in Seq(EventKinds)
         /\ s.err \in ErrorNames
BY DEF CodecStates, Is

\* Two states with the same fields are one.
LEMMA IsOne ==
  ASSUME NEW x, NEW d, NEW y, NEW o, NEW e, NEW r, NEW t, Is(r, x, d, y, o, e), Is(t, x, d, y, o, e)
  PROVE  r = t
BY DEF Is, CodecStates

LEMMA IsOut ==
  ASSUME NEW x, NEW d, NEW y, NEW o, NEW e, NEW s, Is(s, x, d, y, o, e),
         NEW q \in Seq(EventKinds), NEW r, r = [s EXCEPT !.out = q]
  PROVE  Is(r, x, d, y, q, e)
BY DEF Is, CodecStates

LEMMA IsDepth ==
  ASSUME NEW x, NEW d, NEW y, NEW o, NEW e, NEW s, Is(s, x, d, y, o, e),
         NEW z \in Int, NEW r, r = [s EXCEPT !.depth = z]
  PROVE  Is(r, x, z, y, o, e)
BY DEF Is, CodecStates

\* Events before those of a state change its events only.
LEMMA IsBehind ==
  ASSUME NEW a \in Seq(EventKinds), NEW x, NEW d, NEW y, NEW o \in Seq(EventKinds), NEW e, NEW s,
         Is(s, x, d, y, o, e)
  PROVE  Is(Behind(a, s), x, d, y, a \o o, e) /\ a \o o \in Seq(EventKinds)
<1> DEFINE q == a \o o
           r == Behind(a, s)
<1>1. q \in Seq(EventKinds)
  BY OutAssociates
<1>2. s.out = o
  BY DEF Is
<1>3. r = [s EXCEPT !.out = a \o s.out]
  BY DEF Behind
<1>4. r = [s EXCEPT !.out = q]
  BY <1>2, <1>3
<1> HIDE DEF q, r
<1>5. Is(r, x, d, y, q, e)
  BY <1>1, <1>4, IsOut
<1> QED BY <1>1, <1>5 DEF q, r

LEMMA Associates ==
  ASSUME NEW a \in Seq(EventKinds), NEW b \in Seq(EventKinds), NEW c \in Seq(EventKinds),
         NEW d \in Seq(EventKinds), NEW q, q = a \o b
  PROVE  (q \o c) \o d = a \o ((b \o c) \o d) /\ (b \o c) \o d \in Seq(EventKinds)
         /\ (q \o c) \o d \in Seq(EventKinds)
BY SMTT(60)

TradeGap(checked, trade, id) ==
  IF checked /\ trade # NoId /\ id > trade + 1 THEN <<"Gap">> ELSE <<>>
QuietGap(trade, id) == IF trade # NoId /\ id > trade THEN <<"Gap">> ELSE <<>>

\* The state `op` leaves, and the events it adds, do not depend on what events
\* were there before the parser's own.
LEMMA SettleShifts ==
  ASSUME NEW op, NEW frame, NEW id \in Int, NEW s \in CodecStates, s.err = "none",
         NEW a \in Seq(EventKinds)
  PROVE  /\ Settle(op, frame, id, Len(a), Behind(a, s)) = Behind(a, Settle(op, frame, id, 0, s))
         /\ Settle(op, frame, id, 0, s) \in CodecStates
         /\ Settle(op, frame, id, 0, s).err = "none"
<1> DEFINE x == s.trade
           d == s.depth
           y == s.synced
           o == s.out
           q == a \o o
           w == Behind(a, s)
           T == Settle(op, frame, id, 0, s)
           U == Settle(op, frame, id, Len(a), w)
<1>1. SUFFICES U = Behind(a, T) /\ T \in CodecStates /\ T.err = "none"
  OBVIOUS
<1>2. /\ x \in Int /\ d \in Int /\ y \in BOOLEAN /\ o \in Seq(EventKinds)
      /\ Is(s, x, d, y, o, "none")
  BY IsItself
<1>3. Is(w, x, d, y, q, "none") /\ q \in Seq(EventKinds)
  BY <1>2, IsBehind
<1>4. /\ s.trade = x /\ s.depth = d /\ s.synced = y /\ s.out = o
      /\ w.trade = x /\ w.depth = d /\ w.synced = y /\ w.out = q
  BY <1>3 DEF Is
<1>5. ASSUME NEW z, NEW e, NEW v, NEW r \in Seq(EventKinds), NEW l, l = a \o r,
             Is(T, z, e, v, r, "none"), Is(U, z, e, v, l, "none")
      PROVE  U = Behind(a, T) /\ T \in CodecStates /\ T.err = "none"
  <2> HIDE DEF T, U
  <2>1. Is(Behind(a, T), z, e, v, l, "none")
    BY <1>5, IsBehind
  <2>2. U = Behind(a, T)
    BY <1>5, <2>1, IsOne
  <2> QED BY <1>5, <2>2 DEF Is
<1> HIDE DEF T, U, w, x, d, y, o
<1>6. ASSUME NEW g \in Seq(EventKinds), NEW h \in Seq(EventKinds)
      PROVE  /\ (q \o g) \o h = a \o ((o \o g) \o h) /\ (o \o g) \o h \in Seq(EventKinds)
             /\ (q \o g) \o h \in Seq(EventKinds)
  <2> HIDE DEF q
  <2>1. q = a \o o
    BY DEF q
  <2> QED BY <1>2, <1>6, <2>1, Associates, SMTT(100)
<1> HIDE DEF q
<1>7. CASE op = "match"
  <2> DEFINE g == TradeGap(frame.type = "match", x, id)
             z == IF id > x THEN id ELSE x
             h == <<"Trade">>
             l == (q \o g) \o h
             r == (o \o g) \o h
  <2>1. g \in Seq(EventKinds) /\ h \in Seq(EventKinds) /\ z \in Int
    BY <1>2, KindsAreOut DEF TradeGap
  <2>2. T = [s EXCEPT !.trade = z, !.out = r]
    BY <1>4, <1>7 DEF T, Settle, EmitMatch, TradeGap
  <2>3. U = [w EXCEPT !.trade = z, !.out = l]
    BY <1>4, <1>7 DEF U, Settle, EmitMatch, TradeGap
  <2> HIDE DEF g, z, h
  <2>4. l = a \o r /\ r \in Seq(EventKinds) /\ l \in Seq(EventKinds)
    BY <1>6, <2>1
  <2> HIDE DEF l, r
  <2>5. Is(T, z, d, y, r, "none")
    BY <1>2, <2>1, <2>2, <2>4 DEF Is, CodecStates
  <2>6. Is(U, z, d, y, l, "none")
    BY <1>2, <1>3, <2>1, <2>3, <2>4 DEF Is, CodecStates
  <2> QED BY <1>5, <2>4, <2>5, <2>6
<1>8. CASE op = "trade"
  <2> DEFINE g == TradeGap(TRUE, x, id)
             h == <<"Trade">>
             l == (q \o g) \o h
             r == (o \o g) \o h
  <2>1. g \in Seq(EventKinds) /\ h \in Seq(EventKinds)
    BY <1>2, KindsAreOut DEF TradeGap
  <2>2. T = [s EXCEPT !.trade = id, !.out = r]
    BY <1>4, <1>8 DEF T, Settle, FinishTrade, TradeGap
  <2>3. U = [w EXCEPT !.trade = id, !.out = l]
    BY <1>4, <1>8 DEF U, Settle, FinishTrade, TradeGap
  <2> HIDE DEF g, h
  <2>4. l = a \o r /\ r \in Seq(EventKinds) /\ l \in Seq(EventKinds)
    BY <1>6, <2>1
  <2> HIDE DEF l, r
  <2>5. Is(T, id, d, y, r, "none")
    BY <1>2, <2>1, <2>2, <2>4 DEF Is, CodecStates
  <2>6. Is(U, id, d, y, l, "none")
    BY <1>2, <1>3, <2>1, <2>3, <2>4 DEF Is, CodecStates
  <2> QED BY <1>5, <2>4, <2>5, <2>6
<1>9. CASE op = "heartbeat"
  <2> DEFINE g == <<"Heartbeat">>
             z == IF x # NoId /\ id > x THEN id ELSE x
             h == QuietGap(x, id)
             l == (q \o g) \o h
             r == (o \o g) \o h
  <2>1. g \in Seq(EventKinds) /\ h \in Seq(EventKinds) /\ z \in Int
    BY <1>2, KindsAreOut DEF QuietGap
  <2>2. T = [s EXCEPT !.trade = z, !.out = r]
    BY <1>4, <1>9 DEF T, Settle, EmitHeartbeat, QuietGap
  <2>3. U = [w EXCEPT !.trade = z, !.out = l]
    BY <1>4, <1>9 DEF U, Settle, EmitHeartbeat, QuietGap
  <2> HIDE DEF g, z, h
  <2>4. l = a \o r /\ r \in Seq(EventKinds) /\ l \in Seq(EventKinds)
    BY <1>6, <2>1
  <2> HIDE DEF l, r
  <2>5. Is(T, z, d, y, r, "none")
    BY <1>2, <2>1, <2>2, <2>4 DEF Is, CodecStates
  <2>6. Is(U, z, d, y, l, "none")
    BY <1>2, <1>3, <2>1, <2>3, <2>4 DEF Is, CodecStates
  <2> QED BY <1>5, <2>4, <2>5, <2>6
<1>10. CASE op = "depth"
  <2> DEFINE z == IF id > d THEN id ELSE d
             none == <<>>
             gone == <<"Gap">>
             agone == a \o gone
  <2>1. SubSeq(o, 1, 0) = none /\ SubSeq(q, 1, Len(a)) = a
    BY <1>2, OutKeptByTruncation DEF q
  <2>2. Append(none, "Gap") = gone /\ Append(a, "Gap") = agone /\ a = a \o none
        /\ gone \in Seq(EventKinds) /\ none \in Seq(EventKinds) /\ agone \in Seq(EventKinds)
    BY KindsAreOut
  <2>3. z \in Int
    BY <1>2
  <2>4. T = FinishDepth(s, id, 0) /\ U = FinishDepth(w, id, Len(a))
    BY <1>10 DEF T, U, Settle
  <2> HIDE DEF none, gone, agone
  <2>5. CASE ~y
    <3>1. T = [s EXCEPT !.out = none, !.depth = z]
      BY <1>4, <2>1, <2>4, <2>5 DEF FinishDepth
    <3>2. U = [w EXCEPT !.out = a, !.depth = z]
      BY <1>4, <2>1, <2>4, <2>5 DEF FinishDepth
    <3> HIDE DEF z
    <3>3. Is(T, x, z, y, none, "none")
      BY <1>2, <2>2, <2>3, <3>1 DEF Is, CodecStates
    <3>4. Is(U, x, z, y, a, "none")
      BY <1>2, <1>3, <2>2, <2>3, <3>2 DEF Is, CodecStates
    <3> QED BY <1>5, <2>2, <3>3, <3>4
  <2>6. CASE y /\ id <= d
    <3> y /\ id <= d /\ id # d + 1
      BY <1>2, <2>6
    <3>1. T = [s EXCEPT !.out = none]
      BY <1>4, <2>1, <2>4 DEF FinishDepth
    <3>2. U = [w EXCEPT !.out = a]
      BY <1>4, <2>1, <2>4 DEF FinishDepth
    <3>3. Is(T, x, d, y, none, "none")
      BY <1>2, <2>2, <3>1 DEF Is, CodecStates
    <3>4. Is(U, x, d, y, a, "none")
      BY <1>2, <1>3, <2>2, <3>2 DEF Is, CodecStates
    <3> QED BY <1>5, <2>2, <3>3, <3>4
  <2>7. CASE y /\ ~ (id <= d) /\ id = d + 1
    <3>1. T = [s EXCEPT !.depth = id]
      BY <1>4, <2>4, <2>7 DEF FinishDepth
    <3>2. U = [w EXCEPT !.depth = id]
      BY <1>4, <2>4, <2>7 DEF FinishDepth
    <3>3. Is(T, x, id, y, o, "none") /\ Is(U, x, id, y, q, "none")
      BY <1>2, <1>3, <3>1, <3>2, IsDepth
    <3>4. q = a \o o
      BY DEF q
    <3> QED BY <1>2, <1>5, <3>3, <3>4
  <2>8. CASE y /\ ~ (id <= d) /\ id # d + 1
    <3>1. T = [s EXCEPT !.out = gone, !.depth = id, !.synced = FALSE]
      BY <1>4, <2>1, <2>2, <2>4, <2>8 DEF FinishDepth
    <3>2. U = [w EXCEPT !.out = agone, !.depth = id, !.synced = FALSE]
      BY <1>4, <2>1, <2>2, <2>4, <2>8 DEF FinishDepth
    <3>3. Is(T, x, id, FALSE, gone, "none")
      BY <1>2, <2>2, <3>1 DEF Is, CodecStates
    <3>4. Is(U, x, id, FALSE, agone, "none")
      BY <1>2, <1>3, <2>2, <3>2 DEF Is, CodecStates
    <3>5. agone = a \o gone
      BY DEF agone
    <3> QED BY <1>5, <2>2, <3>3, <3>4, <3>5
  <2> QED BY <1>2, <2>5, <2>6, <2>7, <2>8
<1>11. CASE op \notin Operations
  <2>1. T = s /\ U = w
    BY <1>11 DEF T, U, Settle, Operations
  <2>2. q = a \o o
    BY DEF q
  <2> QED BY <1>2, <1>3, <1>5, <2>1, <2>2
<1> QED BY <1>7, <1>8, <1>9, <1>10, <1>11 DEF Operations

-----------------------------------------------------------------------------
(* What each parser does. *)

TypeNames ==
  {"l2update", "match", "last_match", "heartbeat", "snapshot", "bookSnapshot", "bookUpdate",
   "tradeKraken", "depth", "tradeBinance"}

\* The types of the three venues.
LEMMA TypesAreNames ==
  ASSUME NEW v \in DOMAIN Types, NEW type \in Types[v]
  PROVE  type \in TypeNames
BY DEF Types, TypeNames

\* What came before, and then fields or an event.
LEMMA EffectThenRead ==
  ASSUME NEW a, NEW F, NEW K, Effect(a, F, K), NEW fields \in Seq(FieldNames)
  PROVE  Effect(a \o Read(fields), F \cup FieldSet(fields), K)
<1>1. Effect(a \o Read(fields), F \cup FieldSet(fields), K \o <<>>)
  BY EffectRead, EffectConcat, Zenon
<1>2. K \o <<>> = K
  BY DEF Effect
<1> QED BY <1>1, <1>2, Zenon

LEMMA EffectThenPush ==
  ASSUME NEW a, NEW F, NEW K, Effect(a, F, K), NEW k \in EventKinds
  PROVE  Effect(a \o Push(k), F, Append(K, k))
<1>1. Effect(a \o Push(k), F \cup {}, K \o <<k>>)
  BY EffectPush, EffectConcat, Zenon
<1>2. K \o <<k>> = Append(K, k) /\ F \cup {} = F
  BY DEF Effect
<1> QED BY <1>1, <1>2, Zenon

\* Two levels.
LEMMA EffectLevels ==
  ASSUME NEW k \in EventKinds
  PROVE  Effect(PushLevels(k), {"level1", "level2"}, Append(Append(<<>>, k), k))
<1> DEFINE one == <<"level1">>
           two == <<"level2">>
           f == FieldSet(one)
           g == FieldSet(two)
           none == <<>>
<1>1. one \in Seq(FieldNames) /\ two \in Seq(FieldNames)
  BY DEF FieldNames
<1>2. f \cup g = {"level1", "level2"}
  BY DEF FieldSet
<1>3. Effect(Read(one), f, none)
  BY <1>1, EffectRead
<1> HIDE DEF one, two, f, g
<1>5. Effect(Read(one) \o Push(k), f, Append(none, k))
  BY <1>3, EffectThenPush, Zenon
<1>6. Effect((Read(one) \o Push(k)) \o Read(two), f \cup g, Append(none, k))
  BY <1>1, <1>5, EffectThenRead, Zenon DEF g
<1>7. Effect(((Read(one) \o Push(k)) \o Read(two)) \o Push(k), f \cup g,
             Append(Append(none, k), k))
  BY <1>6, EffectThenPush, Zenon
<1>8. PushLevels(k) = ((Read(one) \o Push(k)) \o Read(two)) \o Push(k)
  BY Zenon DEF PushLevels, one, two
<1> QED BY <1>2, <1>7, <1>8, Zenon

LEMMA AppendAfter ==
  ASSUME NEW K \in Seq(EventKinds), NEW M \in Seq(EventKinds), NEW k \in EventKinds
  PROVE  K \o Append(M, k) = Append(K \o M, k) /\ Append(M, k) \in Seq(EventKinds)
OBVIOUS

\* The levels of a side after what came before.
LEMMA EffectThenLevels ==
  ASSUME NEW a, NEW F, NEW K, Effect(a, F, K), NEW k \in EventKinds
  PROVE  Effect(a \o PushLevels(k), F \cup {"level1", "level2"}, Append(Append(K, k), k))
<1> DEFINE none == <<>>
<1>1. Effect(a \o PushLevels(k), F \cup {"level1", "level2"}, K \o Append(Append(none, k), k))
  BY EffectLevels, EffectConcat, Zenon
<1>2. K \in Seq(EventKinds) /\ none \in Seq(EventKinds) /\ K \o none = K
  BY DEF Effect
<1> HIDE DEF none
<1>3. K \o Append(none, k) = Append(K \o none, k) /\ Append(none, k) \in Seq(EventKinds)
  BY <1>2, AppendAfter, Zenon
<1>4. K \o Append(Append(none, k), k) = Append(K \o Append(none, k), k)
  BY <1>2, <1>3, AppendAfter, Zenon
<1>5. K \o Append(none, k) = Append(K, k)
  BY <1>2, <1>3, Zenon
<1> QED BY <1>1, <1>4, <1>5, Zenon

\* The events of a snapshot after those of K.
Bracket(K) == Append(Append(Append(Append(K, "SnapBegin"), "SnapLevel"), "SnapLevel"), "SnapEnd")

\* The bracket of a snapshot.
LEMMA EffectEmitLevels ==
  Effect(EmitLevels, {"level1", "level2"}, Bracket(Append(<<>>, "Clear")))
<1> DEFINE c == <<"Clear">>
           levels == {"level1", "level2"}
<1>1. Effect(Push("Clear"), {}, c)
  BY EffectPush DEF EventKinds
<1>2. c = Append(<<>>, "Clear") /\ {} \cup levels = levels
  OBVIOUS
<1>3. "SnapBegin" \in EventKinds /\ "SnapLevel" \in EventKinds /\ "SnapEnd" \in EventKinds
  BY DEF EventKinds
<1> HIDE DEF c
<1>4. Effect(Push("Clear") \o Push("SnapBegin"), {}, Append(c, "SnapBegin"))
  BY <1>1, <1>3, EffectThenPush, Zenon
<1>5. Effect((Push("Clear") \o Push("SnapBegin")) \o PushLevels("SnapLevel"), {} \cup levels,
             Append(Append(Append(c, "SnapBegin"), "SnapLevel"), "SnapLevel"))
  BY <1>3, <1>4, EffectThenLevels, Zenon
<1>6. Effect(((Push("Clear") \o Push("SnapBegin")) \o PushLevels("SnapLevel")) \o Push("SnapEnd"),
             {} \cup levels,
             Append(Append(Append(Append(c, "SnapBegin"), "SnapLevel"), "SnapLevel"), "SnapEnd"))
  BY <1>3, <1>5, EffectThenPush, Zenon
<1> QED BY <1>2, <1>6, Zenon DEF EmitLevels, Bracket

\* A parser that ends in an operation, and one that does not.
LEMMA ParserThenChange ==
  ASSUME NEW a, NEW F, NEW K, Effect(a, F, K), NEW op \in Operations
  PROVE  ParserIs(a \o Change(op), F, K, op)
BY Zenon DEF ParserIs

LEMMA ParserOnly ==
  ASSUME NEW a, NEW F, NEW K, Effect(a, F, K)
  PROVE  ParserIs(a, F, K, "none")
<1>1. "none" \notin Operations
  BY DEF Operations
<1> QED BY <1>1, Zenon DEF ParserIs

\* Both parsers of a type read the same fields, push the same events and end in
\* the same operation.
Alike(type, F, K, op) ==
  /\ ParserIs(Parsers[type].fast, F, K, op)
  /\ ParserIs(Parsers[type].slow, F, K, op)

\* Each type in turn.
LEMMA L2updateAlike ==
  ASSUME NEW type, type = "l2update"
  PROVE  \E F, K, op : Alike(type, F, K, op)
<1> DEFINE fields == <<"time", "product_id", "changes">>
<1>1. fields \in Seq(FieldNames)
  BY DEF FieldNames
<1>2. Parsers[type].fast = FastL2update /\ Parsers[type].slow = SlowL2update
  BY DEF Parsers
<1>3. "Set" \in EventKinds
  BY DEF EventKinds
<1> HIDE DEF fields
<1>4. PICK F, K : Effect(Read(fields) \o PushLevels("Set"), F, K)
  BY <1>1, <1>3, EffectRead, EffectThenLevels, Zenon
<1>5. ParserIs(Read(fields) \o PushLevels("Set"), F, K, "none")
  BY <1>4, ParserOnly, Zenon
<1>6. /\ FastL2update = Read(fields) \o PushLevels("Set")
      /\ SlowL2update = Read(fields) \o PushLevels("Set")
  BY Zenon DEF fields, FastL2update, SlowL2update
<1> QED BY <1>2, <1>5, <1>6, Zenon DEF Alike

LEMMA MatchAlike ==
  ASSUME NEW type, type = "match" \/ type = "last_match"
  PROVE  \E F, K, op : Alike(type, F, K, op)
<1> DEFINE fields == <<"time", "trade_id", "side", "size", "price", "product_id", "sequence">>
<1>1. fields \in Seq(FieldNames)
  BY DEF FieldNames
<1>2. Parsers[type].fast = FastMatch /\ Parsers[type].slow = SlowMatch
  BY DEF Parsers
<1>3. "match" \in Operations
  BY DEF Operations
<1> HIDE DEF fields
<1>4. ParserIs(Read(fields) \o Change("match"), FieldSet(fields), <<>>, "match")
  BY <1>1, <1>3, EffectRead, ParserThenChange, Zenon
<1>5. /\ FastMatch = Read(fields) \o Change("match")
      /\ SlowMatch = Read(fields) \o Change("match")
  BY Zenon DEF fields, FastMatch, SlowMatch
<1> QED BY <1>2, <1>4, <1>5, Zenon DEF Alike

LEMMA HeartbeatAlike ==
  ASSUME NEW type, type = "heartbeat"
  PROVE  \E F, K, op : Alike(type, F, K, op)
<1> DEFINE fields == <<"time", "last_trade_id", "product_id", "sequence">>
<1>1. fields \in Seq(FieldNames)
  BY DEF FieldNames
<1>2. Parsers[type].fast = FastHeartbeat /\ Parsers[type].slow = SlowHeartbeat
  BY DEF Parsers
<1>3. "heartbeat" \in Operations
  BY DEF Operations
<1> HIDE DEF fields
<1>4. ParserIs(Read(fields) \o Change("heartbeat"), FieldSet(fields), <<>>, "heartbeat")
  BY <1>1, <1>3, EffectRead, ParserThenChange, Zenon
<1>5. /\ FastHeartbeat = Read(fields) \o Change("heartbeat")
      /\ SlowHeartbeat = Read(fields) \o Change("heartbeat")
  BY Zenon DEF fields, FastHeartbeat, SlowHeartbeat
<1> QED BY <1>2, <1>4, <1>5, Zenon DEF Alike

LEMMA SnapshotAlike ==
  ASSUME NEW type, type = "snapshot"
  PROVE  \E F, K, op : Alike(type, F, K, op)
<1> DEFINE fields == <<"time", "product_id", "bids", "asks">>
<1>1. fields \in Seq(FieldNames)
  BY DEF FieldNames
<1>2. Parsers[type].fast = FastSnapshot /\ Parsers[type].slow = SlowSnapshot
  BY DEF Parsers
<1> HIDE DEF fields
<1>3. PICK F, K : Effect(Read(fields) \o EmitLevels, F, K)
  BY <1>1, EffectRead, EffectEmitLevels, EffectConcat, Zenon
<1>4. ParserIs(Read(fields) \o EmitLevels, F, K, "none")
  BY <1>3, ParserOnly, Zenon
<1>5. FastSnapshot = Read(fields) \o EmitLevels /\ SlowSnapshot = Read(fields) \o EmitLevels
  BY Zenon DEF fields, FastSnapshot, SlowSnapshot
<1> QED BY <1>2, <1>4, <1>5, Zenon DEF Alike

LEMMA DepthAlike ==
  ASSUME NEW type, type = "depth"
  PROVE  \E F, K, op : Alike(type, F, K, op)
<1> DEFINE fields == <<"data", "time", "symbol", "id">>
<1>1. fields \in Seq(FieldNames)
  BY DEF FieldNames
<1>2. Parsers[type].fast = FastDepth /\ Parsers[type].slow = SlowDepth
  BY DEF Parsers
<1>3. "Set" \in EventKinds /\ "depth" \in Operations
  BY DEF EventKinds, Operations
<1> HIDE DEF fields
<1>4. PICK F, K : Effect(Read(fields) \o PushLevels("Set"), F, K)
  BY <1>1, <1>3, EffectRead, EffectThenLevels, Zenon
<1>5. ParserIs((Read(fields) \o PushLevels("Set")) \o Change("depth"), F, K, "depth")
  BY <1>3, <1>4, ParserThenChange, Zenon
<1>6. /\ FastDepth = (Read(fields) \o PushLevels("Set")) \o Change("depth")
      /\ SlowDepth = (Read(fields) \o PushLevels("Set")) \o Change("depth")
  BY Zenon DEF fields, FastDepth, SlowDepth
<1> QED BY <1>2, <1>5, <1>6, Zenon DEF Alike

LEMMA TradeBinanceAlike ==
  ASSUME NEW type, type = "tradeBinance"
  PROVE  \E F, K, op : Alike(type, F, K, op)
<1> DEFINE fields == <<"data", "symbol", "trade_id", "time", "side", "price", "qty">>
<1>1. fields \in Seq(FieldNames)
  BY DEF FieldNames
<1>2. Parsers[type].fast = FastTradeBinance /\ Parsers[type].slow = SlowTradeBinance
  BY DEF Parsers
<1>3. "trade" \in Operations
  BY DEF Operations
<1> HIDE DEF fields
<1>4. ParserIs(Read(fields) \o Change("trade"), FieldSet(fields), <<>>, "trade")
  BY <1>1, <1>3, EffectRead, ParserThenChange, Zenon
<1>5. /\ FastTradeBinance = Read(fields) \o Change("trade")
      /\ SlowTradeBinance = Read(fields) \o Change("trade")
  BY Zenon DEF fields, FastTradeBinance, SlowTradeBinance
<1> QED BY <1>2, <1>4, <1>5, Zenon DEF Alike

\* Kraken reads its fields in two orders.
LEMMA BookSnapshotAlike == \E F, K, op : Alike("bookSnapshot", F, K, op)
<1> DEFINE f == <<"type", "data", "symbol">>
           c == <<"checksum">>
           g == <<"type", "data", "checksum", "symbol">>
           levels == {"level1", "level2"}
           none == <<>>
           K == Bracket(Append(none, "Clear"))
           F == FieldSet(g) \cup levels
<1>1. f \in Seq(FieldNames) /\ c \in Seq(FieldNames) /\ g \in Seq(FieldNames)
  BY DEF FieldNames
<1>2. (FieldSet(f) \cup levels) \cup FieldSet(c) = F
  <2>1. FieldSet(f) = {"type", "data", "symbol"}
    BY DEF FieldSet
  <2>2. FieldSet(c) = {"checksum"}
    BY DEF FieldSet
  <2>3. FieldSet(g) = {"type", "data", "checksum", "symbol"}
    BY DEF FieldSet
  <2> QED BY <2>1, <2>2, <2>3
<1>3. /\ Parsers["bookSnapshot"].fast = FastBookSnapshot
      /\ Parsers["bookSnapshot"].slow = SlowBookSnapshot
  BY DEF Parsers
<1>4. /\ "Clear" \in EventKinds /\ "SnapBegin" \in EventKinds /\ "SnapLevel" \in EventKinds
      /\ "SnapEnd" \in EventKinds
  BY DEF EventKinds
<1>5. Effect(Read(f), FieldSet(f), none)
  BY <1>1, EffectRead
<1> HIDE DEF f, c, g, levels, none, F
<1> USE DEF levels
<1>6. Effect(Read(f) \o Push("Clear"), FieldSet(f), Append(none, "Clear"))
  BY <1>4, <1>5, EffectThenPush, Zenon
<1>7. Effect((Read(f) \o Push("Clear")) \o Push("SnapBegin"), FieldSet(f),
             Append(Append(none, "Clear"), "SnapBegin"))
  BY <1>4, <1>6, EffectThenPush, Zenon
<1>8. Effect(((Read(f) \o Push("Clear")) \o Push("SnapBegin")) \o PushLevels("SnapLevel"),
             FieldSet(f) \cup levels,
             Append(Append(Append(Append(none, "Clear"), "SnapBegin"), "SnapLevel"), "SnapLevel"))
  BY <1>4, <1>7, EffectThenLevels, Zenon
<1>9. Effect((((Read(f) \o Push("Clear")) \o Push("SnapBegin")) \o PushLevels("SnapLevel")) \o Read(c),
             (FieldSet(f) \cup levels) \cup FieldSet(c),
             Append(Append(Append(Append(none, "Clear"), "SnapBegin"), "SnapLevel"), "SnapLevel"))
  BY <1>1, <1>8, EffectThenRead, Zenon
<1>10. Effect(FastBookSnapshot, F, K)
  BY <1>2, <1>4, <1>9, EffectThenPush, Zenon DEF FastBookSnapshot, Bracket, f, c
<1>11. Effect(SlowBookSnapshot, F, K)
  <2>1. Effect(Read(g), FieldSet(g), none)
    BY <1>1, EffectRead DEF none
  <2>2. Effect(EmitLevels, levels, K)
    BY EffectEmitLevels DEF none
  <2>3. Effect(Read(g) \o EmitLevels, FieldSet(g) \cup levels, none \o K)
    BY <2>1, <2>2, EffectConcat, Zenon
  <2>4. K \in Seq(EventKinds)
    BY <2>2, Zenon DEF Effect
  <2> HIDE DEF K
  <2>5. none \o K = K
    BY <2>4 DEF none
  <2> QED BY <2>3, <2>5, Zenon DEF SlowBookSnapshot, g, F
<1> QED BY <1>3, <1>10, <1>11, ParserOnly, Zenon DEF Alike

LEMMA BookUpdateAlike == \E F, K, op : Alike("bookUpdate", F, K, op)
<1> DEFINE f == <<"type", "data", "symbol">>
           c == <<"checksum", "timestamp">>
           g == <<"type", "data", "checksum", "symbol", "timestamp">>
           levels == {"level1", "level2"}
           none == <<>>
           K == Append(Append(Append(none, "Set"), "Set"), "Checksum")
           F == FieldSet(g) \cup levels
<1>1. f \in Seq(FieldNames) /\ c \in Seq(FieldNames) /\ g \in Seq(FieldNames)
  BY DEF FieldNames
<1>2. (FieldSet(f) \cup levels) \cup FieldSet(c) = F
  <2>1. FieldSet(f) = {"type", "data", "symbol"}
    BY DEF FieldSet
  <2>2. FieldSet(c) = {"checksum", "timestamp"}
    BY DEF FieldSet
  <2>3. FieldSet(g) = {"type", "data", "checksum", "symbol", "timestamp"}
    BY DEF FieldSet
  <2> QED BY <2>1, <2>2, <2>3
<1>3. /\ Parsers["bookUpdate"].fast = FastBookUpdate
      /\ Parsers["bookUpdate"].slow = SlowBookUpdate
  BY DEF Parsers
<1>4. "Set" \in EventKinds /\ "Checksum" \in EventKinds
  BY DEF EventKinds
<1>5. Effect(Read(f), FieldSet(f), none) /\ Effect(Read(g), FieldSet(g), none)
  BY <1>1, EffectRead
<1> HIDE DEF f, c, g, levels, none, F
<1> USE DEF levels
<1>6. Effect(Read(f) \o PushLevels("Set"), FieldSet(f) \cup levels,
             Append(Append(none, "Set"), "Set"))
  BY <1>4, <1>5, EffectThenLevels, Zenon
<1>7. Effect((Read(f) \o PushLevels("Set")) \o Read(c), (FieldSet(f) \cup levels) \cup FieldSet(c),
             Append(Append(none, "Set"), "Set"))
  BY <1>1, <1>6, EffectThenRead, Zenon
<1>8. Effect(FastBookUpdate, F, K)
  BY <1>2, <1>4, <1>7, EffectThenPush, Zenon DEF FastBookUpdate, f, c
<1>9. Effect(Read(g) \o PushLevels("Set"), FieldSet(g) \cup levels,
             Append(Append(none, "Set"), "Set"))
  BY <1>4, <1>5, EffectThenLevels, Zenon
<1>10. Effect(SlowBookUpdate, F, K)
  BY <1>4, <1>9, EffectThenPush, Zenon DEF SlowBookUpdate, g, F
<1> QED BY <1>3, <1>8, <1>10, ParserOnly, Zenon DEF Alike

LEMMA TradeKrakenAlike == \E F, K, op : Alike("tradeKraken", F, K, op)
<1> DEFINE f == <<"type", "data", "symbol", "side", "trade_id", "timestamp", "price", "qty">>
           g == <<"type", "data", "trade_id", "symbol", "side", "timestamp", "price", "qty">>
           none == <<>>
<1>1. f \in Seq(FieldNames) /\ g \in Seq(FieldNames)
  BY DEF FieldNames
<1>2. FieldSet(f) = FieldSet(g)
  <2>1. FieldSet(f) = {"type", "data", "symbol", "side", "trade_id", "timestamp", "price", "qty"}
    BY DEF FieldSet
  <2>2. FieldSet(g) = {"type", "data", "trade_id", "symbol", "side", "timestamp", "price", "qty"}
    BY DEF FieldSet
  <2> QED BY <2>1, <2>2
<1>3. /\ Parsers["tradeKraken"].fast = FastTradeKraken
      /\ Parsers["tradeKraken"].slow = SlowTradeKraken
  BY DEF Parsers
<1>4. "Trade" \in EventKinds
  BY DEF EventKinds
<1>5. Effect(Read(f), FieldSet(f), none) /\ Effect(Read(g), FieldSet(g), none)
  BY <1>1, EffectRead
<1> HIDE DEF f, g, none
<1>6. Effect(FastTradeKraken, FieldSet(f), Append(none, "Trade"))
  BY <1>4, <1>5, EffectThenPush, Zenon DEF FastTradeKraken, f
<1>7. Effect(SlowTradeKraken, FieldSet(f), Append(none, "Trade"))
  BY <1>2, <1>4, <1>5, EffectThenPush, Zenon DEF SlowTradeKraken, g
<1> QED BY <1>3, <1>6, <1>7, ParserOnly, Zenon DEF Alike

\* All of them.
LEMMA ParsersAreAlike ==
  ASSUME NEW type \in TypeNames
  PROVE  \E F, K, op : Alike(type, F, K, op)
BY L2updateAlike, MatchAlike, HeartbeatAlike, SnapshotAlike, DepthAlike, TradeBinanceAlike,
   BookSnapshotAlike, BookUpdateAlike, TradeKrakenAlike DEF TypeNames

-----------------------------------------------------------------------------
(* One parse. *)

\* The codec with an error.
Failed(c, e) == [Unerring(c) EXCEPT !.err = e]

\* What the events and the operation come to, on a codec that starts without
\* events.
Fresh(frame, id, K, op, c) == Settle(op, frame, id, 0, [Unerring(c) EXCEPT !.out = K])

LEMMA UnerringType ==
  ASSUME NEW c \in CodecStates
  PROVE  /\ Unerring(c) \in CodecStates /\ Unerring(c).err = "none" /\ Unerring(c).out = c.out
         /\ c.out \in Seq(EventKinds) /\ Len(c.out) \in Nat
         /\ \A e \in ErrorNames : /\ Failed(c, e) \in CodecStates /\ Failed(c, e).err = e
                                  /\ Unerring(Failed(c, e)) = Unerring(c)
<1> DEFINE u == Unerring(c)
<1>1. "none" \in ErrorNames
  BY DEF ErrorNames
<1>2. u \in CodecStates /\ u.err = "none" /\ u.out = c.out
  BY <1>1 DEF Unerring, CodecStates
<1>3. c.out \in Seq(EventKinds) /\ Len(c.out) \in Nat
  BY DEF CodecStates
<1> HIDE DEF u
<1>4. ASSUME NEW e \in ErrorNames
      PROVE  /\ [u EXCEPT !.err = e] \in CodecStates
             /\ [u EXCEPT !.err = e].err = e
             /\ Unerring([u EXCEPT !.err = e]) = u
  BY <1>2 DEF Unerring, CodecStates
<1>5. ASSUME NEW e \in ErrorNames
      PROVE  Failed(c, e) \in CodecStates /\ Failed(c, e).err = e /\ Unerring(Failed(c, e)) = u
  <2>1. Failed(c, e) = [u EXCEPT !.err = e]
    BY DEF Failed, u
  <2> QED BY <1>4, <2>1
<1> QED BY <1>2, <1>3, <1>5 DEF u

\* The codec with events after those it has.
Ahead(c, K) == [Unerring(c) EXCEPT !.out = c.out \o K]

\* What a parse does after the events it found does not depend on them.
LEMMA FreshIs ==
  ASSUME NEW frame, NEW id \in Int, NEW K \in Seq(EventKinds), NEW op, NEW c \in CodecStates
  PROVE  /\ Settle(op, frame, id, Len(c.out), Ahead(c, K))
              = Behind(c.out, Fresh(frame, id, K, op, c))
         /\ Fresh(frame, id, K, op, c) \in CodecStates
         /\ Fresh(frame, id, K, op, c).err = "none"
         /\ Ahead(c, K) \in CodecStates
<1> DEFINE u == Unerring(c)
           a == c.out
           s == [u EXCEPT !.out = K]
           q == a \o K
<1>1. u \in CodecStates /\ u.err = "none" /\ a \in Seq(EventKinds)
  BY UnerringType
<1>2. q \in Seq(EventKinds)
  BY <1>1
<1> HIDE DEF u, a
<1>3. s \in CodecStates /\ s.err = "none" /\ s.out = K
  BY <1>1 DEF CodecStates
<1>4. Behind(a, s) = [u EXCEPT !.out = q]
  <2> HIDE DEF q
  <2>1. a \o s.out = q
    BY <1>3 DEF q
  <2>2. [s EXCEPT !.out = q] = [u EXCEPT !.out = q]
    BY <1>1 DEF CodecStates
  <2> QED BY <2>1, <2>2 DEF Behind
<1>5. [u EXCEPT !.out = q] \in CodecStates
  <2> HIDE DEF q
  <2> QED BY <1>1, <1>2 DEF CodecStates
<1> HIDE DEF s
<1>6. /\ Settle(op, frame, id, Len(a), Behind(a, s)) = Behind(a, Settle(op, frame, id, 0, s))
      /\ Settle(op, frame, id, 0, s) \in CodecStates
      /\ Settle(op, frame, id, 0, s).err = "none"
  BY <1>1, <1>3, SettleShifts
<1>7. Fresh(frame, id, K, op, c) = Settle(op, frame, id, 0, s)
  BY DEF Fresh, s, u
<1>8. Ahead(c, K) = [u EXCEPT !.out = q]
  BY Zenon DEF Ahead, u, a, q
<1> QED BY <1>4, <1>5, <1>6, <1>7, <1>8 DEF u, a, q

\* r is what a parse of the frame makes of c: everything, or an error.
Settles(frame, path, id, F, K, op, c, r) ==
  IF Errors(frame, path, F) = {} THEN r = Behind(c.out, Fresh(frame, id, K, op, c))
  ELSE \E e \in Errors(frame, path, F) : r = Failed(c, e)

\* The steps of a parser and the truncation settle the frame.
LEMMA RunIs ==
  ASSUME NEW frame, NEW path, NEW id \in Int, NEW c \in CodecStates,
         NEW steps, NEW F, NEW K, NEW op, ParserIs(steps, F, K, op)
  PROVE  Settles(frame, path, id, F, K, op, c,
                 Truncated(RunSteps(frame, path, id, Len(c.out), Unerring(c), steps), Len(c.out)))
<1> DEFINE u == Unerring(c)
           a == c.out
           from == Len(a)
           R(b) == RunSteps(frame, path, id, from, u, b)
           r == Truncated(R(steps), from)
           E == Errors(frame, path, F)
           v == [u EXCEPT !.out = a \o K]
<1> SUFFICES IF E = {} THEN r = Behind(a, Fresh(frame, id, K, op, c))
             ELSE \E e \in E : r = [u EXCEPT !.err = e]
  BY Zenon DEF Settles, Failed
<1>1. u \in CodecStates /\ u.err = "none" /\ u.out = a /\ a \in Seq(EventKinds) /\ from \in Nat
  BY UnerringType
<1>2. PICK plain : /\ Effect(plain, F, K)
                   /\ steps = IF op \in Operations THEN plain \o Change(op) ELSE plain
  BY DEF ParserIs
<1>3. K \in Seq(EventKinds) /\ plain \in Seq(Steps) /\ Leaves(frame, path, F, K, u, R(plain))
  BY <1>1, <1>2, Zenon DEF Effect
<1>4. /\ Settle(op, frame, id, from, v) = Behind(a, Fresh(frame, id, K, op, c))
      /\ Fresh(frame, id, K, op, c) \in CodecStates /\ Fresh(frame, id, K, op, c).err = "none"
      /\ v \in CodecStates
  <2>1. v = Ahead(c, K)
    BY Zenon DEF Ahead
  <2> HIDE DEF v
  <2>2. K \in Seq(EventKinds)
    BY <1>3, Zenon
  <2> QED BY <2>1, <2>2, FreshIs
<1>5. E \subseteq ErrorNames \ {"none"}
  BY ErrorsAreErrors
\* Its last step, which an error passes over.
<1>6. ASSUME op \in Operations
      PROVE  R(steps) = IF R(plain).err # "none" THEN R(plain)
                        ELSE Settle(op, frame, id, from, R(plain))
  <2> DEFINE step == [do |-> op, what |-> "id"]
             none == <<>>
             last == <<step>>
             t == R(plain)
  <2>1. step \in Steps /\ Change(op) = last /\ last = Append(none, step)
        /\ none \in Seq(Steps) /\ last \in Seq(Steps)
    BY <1>6 DEF Steps, Change, FieldNames
  <2> HIDE DEF step, none, last, u, a, from
  <2>2. R(plain \o last) = RunSteps(frame, path, id, from, t, last)
    <3>1. plain \in Seq(Steps) /\ last \in Seq(Steps)
      BY <1>3, <2>1, Zenon
    <3> QED BY <3>1, RunConcat
  <2>3. RunSteps(frame, path, id, from, t, none) = t
    BY RunNone DEF none
  <2>4. RunSteps(frame, path, id, from, t, Append(none, step))
          = Step(frame, path, id, from, RunSteps(frame, path, id, from, t, none), step)
    BY <2>1, RunAppend
  <2>5. R(steps) = Step(frame, path, id, from, t, step)
    BY <1>2, <1>6, <2>1, <2>2, <2>3, <2>4, Zenon
  <2> HIDE DEF t
  <2>6. Step(frame, path, id, from, t, step)
          = IF t.err # "none" THEN t ELSE Settle(op, frame, id, from, t)
    BY <1>6 DEF Step, Settle, step, Operations
  <2> QED BY <2>5, <2>6, Zenon DEF t
<1> HIDE DEF u, a, from, R, E, r
<1>7. CASE E = {}
  <2>1. R(plain) = v /\ v.err = "none"
    BY <1>1, <1>3, <1>4, <1>7 DEF Leaves, E, CodecStates
  <2>2. Settle(op, frame, id, from, v) = R(steps)
    <3>1. CASE op \in Operations
      BY <1>6, <2>1, <3>1, Zenon
    <3>2. CASE op \notin Operations
      <4>1. R(steps) = v
        BY <1>2, <2>1, <3>2, Zenon
      <4>2. Settle(op, frame, id, from, v) = v
        BY <3>2 DEF Settle, Operations
      <4> QED BY <4>1, <4>2
    <3> QED BY <3>1, <3>2
  <2>3. R(steps).err = "none"
    <3> DEFINE w == Fresh(frame, id, K, op, c)
    <3>1. w.err = "none" /\ w \in CodecStates
      BY <1>4
    <3>2. R(steps) = Behind(a, w)
      BY <1>4, <2>2, Zenon
    <3> HIDE DEF w
    <3> QED BY <3>1, <3>2 DEF Behind, CodecStates
  <2>4. r = R(steps)
    BY <2>3 DEF r, Truncated
  <2> QED BY <1>4, <1>7, <2>2, <2>4, Zenon
<1>8. CASE E # {}
  <2>1. PICK e \in E, p \in Seq(EventKinds) : R(plain) = [u EXCEPT !.err = e, !.out = u.out \o p]
    BY <1>1, <1>3, <1>8 DEF Leaves, E
  <2> DEFINE q == a \o p
  <2>2. SubSeq(q, 1, from) = a /\ q \in Seq(EventKinds) /\ e \in ErrorNames /\ e # "none"
    BY <1>1, <1>5, <2>1, OutKeptByTruncation DEF from
  <2>3. R(plain) = [u EXCEPT !.err = e, !.out = q]
    BY <1>1, <2>1, Zenon
  <2> HIDE DEF q
  <2>4. R(plain).err = e /\ R(plain).out = q
    BY <1>1, <2>2, <2>3 DEF CodecStates
  <2>5. R(steps) = R(plain)
    BY <1>2, <1>6, <2>2, <2>4, Zenon
  <2>6. r = [R(plain) EXCEPT !.out = a]
    BY <2>2, <2>4, <2>5 DEF r, Truncated
  <2>7. r = [u EXCEPT !.err = e]
    BY <1>1, <2>2, <2>3, <2>6 DEF CodecStates
  <2> QED BY <1>8, <2>1, <2>7, Zenon
<1> QED BY <1>7, <1>8

\* So does either path of a frame.
LEMMA ParseIs ==
  ASSUME NEW frame, NEW path \in {"fast", "slow"}, NEW id \in Int, NEW c \in CodecStates,
         NEW F, NEW K, NEW op, Alike(frame.type, F, K, op)
  PROVE  Settles(frame, path, id, F, K, op, c, Parse(c, frame, path, id))
<1> DEFINE steps == IF path = "fast" THEN Parsers[frame.type].fast ELSE Parsers[frame.type].slow
<1>1. ParserIs(steps, F, K, op)
  <2>1. CASE path = "fast"
    BY <2>1, Zenon DEF Alike
  <2>2. CASE path = "slow"
    BY <2>2 DEF Alike
  <2> QED BY <2>1, <2>2
<1>2. Parse(c, frame, path, id)
        = Truncated(RunSteps(frame, path, id, Len(c.out), Unerring(c), steps), Len(c.out))
  BY Zenon DEF Parse, Unerring
<1> HIDE DEF steps
<1>3. Settles(frame, path, id, F, K, op, c,
              Truncated(RunSteps(frame, path, id, Len(c.out), Unerring(c), steps), Len(c.out)))
  BY <1>1, RunIs
<1> QED BY <1>2, <1>3, Zenon

\* A form that is odd is an error of the fast path only.
LEMMA PathsDiffer ==
  ASSUME NEW frame, NEW F
  PROVE  /\ Errors(frame, "slow", F) \subseteq Errors(frame, "fast", F)
         /\ Errors(frame, "fast", F) \subseteq Errors(frame, "slow", F) \cup {"Structure"}
<1>1. \A form : ErrorOf("slow", form) \in {"none", ErrorOf("fast", form)}
  BY DEF ErrorOf
<1>2. \A form : ErrorOf("fast", form) \in {"Structure", ErrorOf("slow", form)}
  BY DEF ErrorOf
<1> QED BY <1>1, <1>2 DEF Errors

\* What a frame does to a codec, once: what the slow path does.
Effected(frame, id, F, K, op, c) ==
  IF Errors(frame, "slow", F) = {} THEN Behind(c.out, Fresh(frame, id, K, op, c)) ELSE Unerring(c)

\* An error that the codec remembers makes no difference.
LEMMA EffectedOfUnerring ==
  ASSUME NEW frame, NEW id, NEW F, NEW K, NEW op, NEW c \in CodecStates, NEW d \in CodecStates,
         Unerring(c) = Unerring(d)
  PROVE  Effected(frame, id, F, K, op, c) = Effected(frame, id, F, K, op, d)
<1>1. c.out = d.out
  BY UnerringType
<1> QED BY <1>1 DEF Effected, Fresh

LEMMA BehindOfType ==
  ASSUME NEW a \in Seq(EventKinds), NEW w \in CodecStates, w.err = "none"
  PROVE  /\ Behind(a, w) \in CodecStates /\ Behind(a, w).err = "none"
         /\ Unerring(Behind(a, w)) = Behind(a, w)
<1> DEFINE q == a \o w.out
           b == Behind(a, w)
<1>1. q \in Seq(EventKinds)
  BY DEF CodecStates
<1>2. b = [w EXCEPT !.out = q]
  BY Zenon DEF Behind
<1> HIDE DEF q, b
<1>3. b \in CodecStates /\ b.err = "none"
  BY <1>1, <1>2 DEF CodecStates
<1>4. Unerring(b) = b
  BY <1>3 DEF Unerring, CodecStates
<1> QED BY <1>3, <1>4 DEF b

\* What `Settles` says, path by path.
LEMMA SettlesIs ==
  ASSUME NEW frame, NEW path, NEW id \in Int, NEW c \in CodecStates,
         NEW F, NEW K \in Seq(EventKinds), NEW op, NEW r, Settles(frame, path, id, F, K, op, c, r)
  PROVE  /\ r \in CodecStates
         /\ Errors(frame, path, F) = {} =>
              /\ r.err = "none" /\ Unerring(r) = r
              /\ r = Behind(c.out, Fresh(frame, id, K, op, c))
         /\ Errors(frame, path, F) # {} =>
              /\ r.err \in Errors(frame, path, F) /\ r.err # "none"
              /\ Unerring(r) = Unerring(c) /\ r.out = c.out
<1>1. c.out \in Seq(EventKinds)
  BY UnerringType
<1>2. CASE Errors(frame, path, F) = {}
  <2> DEFINE w == Fresh(frame, id, K, op, c)
  <2>1. w \in CodecStates /\ w.err = "none"
    BY FreshIs
  <2>2. r = Behind(c.out, w)
    BY <1>2, Zenon DEF Settles
  <2> HIDE DEF w
  <2>3. r \in CodecStates /\ r.err = "none" /\ Unerring(r) = r
    BY <1>1, <2>1, <2>2, BehindOfType
  <2> QED BY <1>2, <2>2, <2>3 DEF w
<1>3. CASE Errors(frame, path, F) # {}
  <2>1. PICK e \in Errors(frame, path, F) : r = Failed(c, e)
    BY <1>3, Zenon DEF Settles
  <2>2. e \in ErrorNames /\ e # "none"
    BY ErrorsAreErrors
  <2>3. r \in CodecStates /\ r.err = e /\ Unerring(r) = Unerring(c)
    BY <2>1, <2>2, UnerringType
  <2>4. r.out = c.out
    BY <2>3, UnerringType
  <2> QED BY <1>3, <2>2, <2>3, <2>4
<1> QED BY <1>2, <1>3

\* The slow path alone, the two paths of process_payload, and those of replay
\* all have the effect of the frame.
LEMMA SlowIs ==
  ASSUME NEW frame, NEW id \in Int, NEW c \in CodecStates,
         NEW F, NEW K \in Seq(EventKinds), NEW op, Alike(frame.type, F, K, op)
  PROVE  /\ Parse(c, frame, "slow", id) \in CodecStates
         /\ Unerring(Parse(c, frame, "slow", id)) = Effected(frame, id, F, K, op, c)
<1> DEFINE r == Parse(c, frame, "slow", id)
<1>1. Settles(frame, "slow", id, F, K, op, c, r)
  BY ParseIs
<1> HIDE DEF r
<1>2. CASE Errors(frame, "slow", F) = {}
  <2>1. /\ r \in CodecStates /\ Unerring(r) = r
        /\ r = Behind(c.out, Fresh(frame, id, K, op, c))
    BY <1>1, <1>2, SettlesIs
  <2> QED BY <1>2, <2>1 DEF Effected, r
<1>3. CASE Errors(frame, "slow", F) # {}
  <2>1. r \in CodecStates /\ Unerring(r) = Unerring(c)
    BY <1>1, <1>3, SettlesIs
  <2> QED BY <1>3, <2>1 DEF Effected, r
<1> QED BY <1>2, <1>3

LEMMA ProcessIs ==
  ASSUME NEW frame, NEW id \in Int, NEW c \in CodecStates,
         NEW F, NEW K \in Seq(EventKinds), NEW op, Alike(frame.type, F, K, op)
  PROVE  /\ ProcessPayload(c, frame, id) \in CodecStates
         /\ Unerring(ProcessPayload(c, frame, id)) = Effected(frame, id, F, K, op, c)
<1> DEFINE fast == Parse(c, frame, "fast", id)
           slow == Parse(fast, frame, "slow", id)
           p == ProcessPayload(c, frame, id)
           X == Effected(frame, id, F, K, op, c)
           fastErrors == Errors(frame, "fast", F)
           slowErrors == Errors(frame, "slow", F)
<1>1. Settles(frame, "fast", id, F, K, op, c, fast)
  BY ParseIs
<1>2. p = IF fast.err = "Structure" THEN slow ELSE fast
  BY Zenon DEF ProcessPayload
<1>3. slowErrors \subseteq fastErrors /\ fastErrors \subseteq slowErrors \cup {"Structure"}
  BY PathsDiffer
<1> HIDE DEF fast, p
<1>4. fast \in CodecStates
  BY <1>1, SettlesIs
<1>5. slow \in CodecStates /\ Unerring(slow) = Effected(frame, id, F, K, op, fast)
  BY <1>4, SlowIs
<1> HIDE DEF slow
<1>6. CASE fastErrors = {}
  <2>1. /\ fast.err = "none" /\ Unerring(fast) = fast
        /\ fast = Behind(c.out, Fresh(frame, id, K, op, c))
    BY <1>1, <1>6, SettlesIs
  <2>2. X = Behind(c.out, Fresh(frame, id, K, op, c))
    BY <1>3, <1>6 DEF Effected
  <2>3. p = fast
    BY <1>2, <2>1
  <2> QED BY <1>4, <2>1, <2>2, <2>3 DEF p
<1>7. CASE fastErrors # {}
  <2>1. fast.err \in fastErrors /\ Unerring(fast) = Unerring(c)
    BY <1>1, <1>7, SettlesIs
  <2>2. CASE fast.err = "Structure"
    <3>1. Effected(frame, id, F, K, op, fast) = X
      BY <1>4, <2>1, EffectedOfUnerring
    <3> QED BY <1>2, <1>5, <2>2, <3>1 DEF p
  <2>3. CASE fast.err # "Structure"
    <3>1. slowErrors # {}
      BY <1>3, <2>1, <2>3
    <3>2. X = Unerring(c)
      BY <3>1 DEF Effected
    <3> QED BY <1>2, <1>4, <2>1, <2>3, <3>2 DEF p
  <2> QED BY <2>2, <2>3
<1> QED BY <1>6, <1>7

\* The codec with its buffer emptied, and with its buffer given back.
Emptied(c) == [c EXCEPT !.out = <<>>]
Given(f, c) == [f EXCEPT !.out = c.out]

LEMMA EmptiedIs ==
  ASSUME NEW c \in CodecStates
  PROVE  Emptied(c) \in CodecStates /\ Emptied(c).out = <<>>
<1> DEFINE none == <<>>
<1>1. none \in Seq(EventKinds)
  BY KindsAreOut
<1>2. Emptied(c) = [c EXCEPT !.out = none]
  BY DEF Emptied
<1> HIDE DEF none
<1>3. Emptied(c) \in CodecStates /\ Emptied(c).out = none
  BY <1>1, <1>2 DEF CodecStates
<1> QED BY <1>3 DEF none

LEMMA EmptiedAgain ==
  ASSUME NEW f \in CodecStates, f.out = <<>>
  PROVE  Emptied(f) = f
<1> DEFINE none == <<>>
<1>1. Emptied(f) = [f EXCEPT !.out = none] /\ f.out = none
  BY DEF Emptied
<1> HIDE DEF none
<1> QED BY <1>1 DEF CodecStates

\* Neither do the events of the buffer.
LEMMA FreshOfEmptied ==
  ASSUME NEW frame, NEW id, NEW K \in Seq(EventKinds), NEW op, NEW c \in CodecStates,
         NEW f \in CodecStates, Unerring(f) = Unerring(Emptied(c))
  PROVE  Fresh(frame, id, K, op, f) = Fresh(frame, id, K, op, c)
<1> DEFINE none == <<>>
<1>1. Emptied(c) = [c EXCEPT !.out = none]
  BY DEF Emptied
<1> HIDE DEF none
<1>2. [Unerring(Emptied(c)) EXCEPT !.out = K] = [Unerring(c) EXCEPT !.out = K]
  BY <1>1 DEF Unerring, CodecStates
<1> QED BY <1>2 DEF Fresh

\* A codec that failed on an emptied buffer is the same once it is given back.
LEMMA GivenIs ==
  ASSUME NEW c \in CodecStates, NEW f \in CodecStates, Unerring(f) = Unerring(Emptied(c))
  PROVE  Given(f, c) \in CodecStates /\ Unerring(Given(f, c)) = Unerring(c)
<1> DEFINE none == <<>>
           g == Given(f, c)
           m == Emptied(c)
<1>1. m = [c EXCEPT !.out = none] /\ g = [f EXCEPT !.out = c.out]
  BY DEF Emptied, Given
<1> HIDE DEF none, g, m
<1>2. g \in CodecStates
  BY <1>1 DEF CodecStates
<1>3. f.trade = c.trade /\ f.depth = c.depth /\ f.synced = c.synced
  <2>1. /\ Unerring(f).trade = f.trade /\ Unerring(f).depth = f.depth
        /\ Unerring(f).synced = f.synced
    BY DEF Unerring, CodecStates
  <2>2. Unerring(m).trade = c.trade /\ Unerring(m).depth = c.depth /\ Unerring(m).synced = c.synced
    BY <1>1 DEF Unerring, CodecStates
  <2>3. Unerring(f) = Unerring(m)
    BY DEF m
  <2> QED BY <2>1, <2>2, <2>3
<1>4. Unerring(g) = Unerring(c)
  BY <1>1, <1>3 DEF Unerring, CodecStates
<1> QED BY <1>2, <1>4 DEF g

LEMMA ReplayIs ==
  ASSUME NEW frame, NEW id \in Int, NEW c \in CodecStates,
         NEW F, NEW K \in Seq(EventKinds), NEW op, Alike(frame.type, F, K, op)
  PROVE  /\ ReplayPayload(c, frame, id) \in CodecStates
         /\ Unerring(ReplayPayload(c, frame, id)) = Effected(frame, id, F, K, op, c)
<1> DEFINE m == Emptied(c)
           fast == Parse(m, frame, "fast", id)
           slow == Parse(Emptied(fast), frame, "slow", id)
           last == IF fast.err = "Structure" THEN slow ELSE fast
           r == ReplayPayload(c, frame, id)
           X == Effected(frame, id, F, K, op, c)
           w == Fresh(frame, id, K, op, c)
           fastErrors == Errors(frame, "fast", F)
           slowErrors == Errors(frame, "slow", F)
<1>1. r = [last EXCEPT !.out = c.out \o (IF last.err = "none" THEN last.out ELSE <<>>)]
  BY Zenon DEF ReplayPayload, Emptied
<1>2. slowErrors \subseteq fastErrors /\ fastErrors \subseteq slowErrors \cup {"Structure"}
  BY PathsDiffer
<1>3. m \in CodecStates /\ m.out = <<>> /\ w \in CodecStates /\ w.err = "none"
      /\ c.out \in Seq(EventKinds)
  BY EmptiedIs, FreshIs, UnerringType
<1>4. Settles(frame, "fast", id, F, K, op, m, fast)
  BY <1>3, ParseIs
<1> HIDE DEF r, fast, m
<1>5. fast \in CodecStates
  BY <1>3, <1>4, SettlesIs
<1>6. Behind(<<>>, w) = w
  <2> DEFINE none == <<>>
             o == w.out
  <2>1. o \in Seq(EventKinds) /\ none \o o = o
    BY <1>3 DEF CodecStates
  <2>2. Behind(none, w) = [w EXCEPT !.out = o]
    BY <2>1, Zenon DEF Behind
  <2>3. [w EXCEPT !.out = o] = w
    BY <1>3 DEF CodecStates
  <2> QED BY <2>2, <2>3
<1> HIDE DEF w
\* A parse that went well, of either path.
<1>7. ASSUME last = w, slowErrors = {}
      PROVE  r \in CodecStates /\ Unerring(r) = X
  <2>1. r = Behind(c.out, w)
    BY <1>1, <1>3, <1>7, Zenon DEF Behind
  <2>2. X = Behind(c.out, w)
    BY <1>7 DEF Effected, w
  <2> QED BY <1>3, <2>1, <2>2, BehindOfType
\* One that did not.
<1>8. ASSUME last \in CodecStates, last.err # "none", Unerring(last) = Unerring(m), slowErrors # {}
      PROVE  r \in CodecStates /\ Unerring(r) = X
  <2>1. c.out \o <<>> = c.out
    BY <1>3
  <2>2. r = Given(last, c)
    BY <1>1, <1>8, <2>1, Zenon DEF Given
  <2>3. X = Unerring(c)
    BY <1>8 DEF Effected
  <2> HIDE DEF last
  <2> QED BY <1>8, <2>2, <2>3, GivenIs DEF m
<1>9. CASE fastErrors = {}
  <2>1. fast.err = "none" /\ fast = Behind(m.out, Fresh(frame, id, K, op, m))
    BY <1>3, <1>4, <1>9, SettlesIs
  <2>2. Fresh(frame, id, K, op, m) = w
    BY <1>3, FreshOfEmptied DEF w, m
  <2>3. last = w
    BY <1>3, <1>6, <2>1, <2>2
  <2> QED BY <1>2, <1>7, <1>9, <2>3 DEF r
<1>10. CASE fastErrors # {}
  <2>1. /\ fast.err \in fastErrors /\ fast.err # "none"
        /\ Unerring(fast) = Unerring(m) /\ fast.out = m.out
    BY <1>3, <1>4, <1>10, SettlesIs
  <2>2. CASE fast.err # "Structure"
    <3>1. last = fast /\ slowErrors # {}
      BY <1>2, <2>1, <2>2
    <3> QED BY <1>5, <1>8, <2>1, <3>1 DEF r
  <2>3. CASE fast.err = "Structure"
    <3>1. Emptied(fast) = fast
      BY <1>3, <1>5, <2>1, EmptiedAgain
    <3>2. last = slow /\ slow = Parse(fast, frame, "slow", id)
      BY <2>3, <3>1
    <3>3. Settles(frame, "slow", id, F, K, op, fast, slow)
      BY <1>5, <3>2, ParseIs
    <3> HIDE DEF slow, last
    <3>4. CASE slowErrors = {}
      <4>1. slow = Behind(fast.out, Fresh(frame, id, K, op, fast))
        BY <1>5, <3>3, <3>4, SettlesIs
      <4>2. Fresh(frame, id, K, op, fast) = w
        BY <1>5, <2>1, FreshOfEmptied DEF w, m
      <4>3. last = w
        BY <1>3, <1>6, <2>1, <3>2, <4>1, <4>2
      <4> QED BY <1>7, <3>4, <4>3 DEF r
    <3>5. CASE slowErrors # {}
      <4>1. slow \in CodecStates /\ slow.err # "none" /\ Unerring(slow) = Unerring(fast)
        BY <1>5, <3>3, <3>5, SettlesIs
      <4> QED BY <1>8, <2>1, <3>2, <3>5, <4>1 DEF r
    <3> QED BY <3>4, <3>5
  <2> QED BY <2>2, <2>3
<1> QED BY <1>9, <1>10

-----------------------------------------------------------------------------
(* The three codecs. *)

\* The inductive invariant: whatever error each remembers, the three codecs are
\* in one state and have emitted the same events.
PayloadInv ==
  /\ venue \in DOMAIN Types /\ payloads \in Nat
  /\ live \in CodecStates /\ replayed \in CodecStates /\ slowOnly \in CodecStates
  /\ OneEffect /\ ReplayIsLive

\* They start together.
LEMMA PayloadInitially == ASSUME PayloadInit PROVE PayloadInv
<1> DEFINE none == <<>>
<1>1. none \in Seq(EventKinds)
  BY KindsAreOut
<1>2. live \in [trade : {NoId}, depth : {0}, synced : BOOLEAN, out : {none}, err : {"none"}]
  BY DEF PayloadInit
<1> HIDE DEF none
<1>3. live \in CodecStates
  BY <1>1, <1>2 DEF CodecStates, ErrorNames, NoId
<1> QED BY <1>3 DEF PayloadInit, PayloadInv, OneEffect, ReplayIsLive

LEMMA FrameOfType ==
  ASSUME NEW type, NEW frame \in Frames(type)
  PROVE  frame.type = type /\ frame.jump \in 0 .. 2
BY DEF Frames

\* Every frame keeps the three together.
LEMMA ReceiveKeeps ==
  ASSUME PayloadInv, NEW type \in Types[venue], NEW frame \in Frames(type), Receive(frame)
  PROVE  PayloadInv'
<1> DEFINE id == payloads + frame.jump
<1>1. frame.type = type /\ id \in Int /\ payloads + 1 \in Nat
  BY FrameOfType DEF PayloadInv
<1>2. type \in TypeNames
  BY TypesAreNames DEF PayloadInv
<1>3. PICK F, K, op : Alike(type, F, K, op)
  BY <1>2, ParsersAreAlike
<1>4. K \in Seq(EventKinds)
  BY <1>3, Zenon DEF Alike, ParserIs, Effect
<1>5. /\ live' = ProcessPayload(live, frame, id)
      /\ replayed' = ReplayPayload(replayed, frame, id)
      /\ slowOnly' = Parse(slowOnly, frame, "slow", id)
      /\ payloads' = payloads + 1 /\ venue' = venue
  BY DEF Receive
<1> HIDE DEF id
<1>6. live' \in CodecStates /\ Unerring(live') = Effected(frame, id, F, K, op, live)
  BY <1>1, <1>3, <1>4, <1>5, ProcessIs DEF PayloadInv
<1>7. replayed' \in CodecStates /\ Unerring(replayed') = Effected(frame, id, F, K, op, replayed)
  BY <1>1, <1>3, <1>4, <1>5, ReplayIs DEF PayloadInv
<1>8. slowOnly' \in CodecStates /\ Unerring(slowOnly') = Effected(frame, id, F, K, op, slowOnly)
  BY <1>1, <1>3, <1>4, <1>5, SlowIs DEF PayloadInv
<1>9. /\ Effected(frame, id, F, K, op, live) = Effected(frame, id, F, K, op, slowOnly)
      /\ Effected(frame, id, F, K, op, replayed) = Effected(frame, id, F, K, op, live)
  BY EffectedOfUnerring DEF PayloadInv, OneEffect, ReplayIsLive
<1> QED BY <1>1, <1>5, <1>6, <1>7, <1>8, <1>9 DEF PayloadInv, OneEffect, ReplayIsLive

\* The three codecs of Payload stay together.
THEOREM PayloadInvariant == PayloadSpec => []PayloadInv
<1>1. PayloadInit => PayloadInv
  BY PayloadInitially
<1>2. ASSUME PayloadInv, [PayloadNext]_payloadVars PROVE PayloadInv'
  <2>1. CASE PayloadNext
    BY <1>2, <2>1, ReceiveKeeps DEF PayloadNext
  <2>2. CASE UNCHANGED payloadVars
    BY <1>2, <2>2 DEF payloadVars, PayloadInv, OneEffect, ReplayIsLive
  <2> QED BY <1>2, <2>1, <2>2
<1> QED BY <1>1, <1>2, PTL DEF PayloadSpec

\* A frame has its effect once or not at all: an abandoned first parse leaves
\* neither an event nor an id behind, for any number of frames.
THEOREM OneEffectTheorem == PayloadSpec => []OneEffect
<1>1. PayloadInv => OneEffect
  BY DEF PayloadInv
<1> QED BY <1>1, PayloadInvariant, PTL

\* Replay, which empties its buffer for every record, emits what capture did
\* and reaches its codec state.
THEOREM ReplayIsLiveTheorem == PayloadSpec => []ReplayIsLive
<1>1. PayloadInv => ReplayIsLive
  BY DEF PayloadInv
<1> QED BY <1>1, PayloadInvariant, PTL
=============================================================================
