---------------------------- MODULE CaptureReplay ---------------------------
(***************************************************************************)
(* The raw log from capture to replay: the rotating per-venue segment      *)
(* files of crates/feed/src/sink.rs and crates/proto/src/rawlog.rs, what a *)
(* crash and the background compressor leave of them, and the discovery,   *)
(* salvage and merge of crates/replay/src/source.rs that reads them back.  *)
(*                                                                         *)
(* A record is known by its session and its place in it; record 0 of a     *)
(* session is the NOTE of its connection, on which replay builds a fresh   *)
(* codec as capture did.  Segment start times are those of creation, in    *)
(* order.                                                                  *)
(***************************************************************************)
EXTENDS Integers, FiniteSets, Sequences, SequencesExt, FiniteSetsExt

CONSTANTS
  Venues,       \* venue ids
  MaxRecords, MaxRuns, MaxClock,    \* bounds; MaxClock: of the clock
  MaxFiles      \* bound: segments per venue

ASSUME CaptureAssumption ==
  Venues \subseteq Nat /\ Venues # {} /\ {MaxRecords, MaxRuns, MaxClock, MaxFiles} \subseteq Nat

VARIABLES
  phase,        \* "capture", "down", "replaying", "replayed"
  mono,         \* the monotonic clock of the running process
  files,        \* per venue, its segment files; the last one is open
  live,         \* per venue, the session and the records it has so far
  runs,         \* capture processes started
  durable,      \* history: the records an fsync covered
  cursors,      \* replay: per venue, how far its segments are read
  out,          \* replay: the merged records
  refused       \* replay: did a segment fail to open?

captureVars == <<mono, files, live, runs, durable>>
replayVars == <<cursors, out, refused>>
vars == <<phase, captureVars, replayVars>>

\* `synced`: records an fsync covered, NoHeader if not even the header.
\* `zst`: the compressed twin: none, partial, or done (and the plain file
\* removed).
NoHeader == -1
NewFile == [records |-> <<>>, synced |-> NoHeader, zst |-> "none"]
NoSession == [session |-> 0, next |-> 0]

\* VenueCursor: the segment to open next, and what is yet to be merged of the
\* open one, its head being the venue's lookahead.
Unopened == [next |-> 1, rest |-> <<>>, ok |-> TRUE]

AllRecords == UNION {ToSet(f.records) : f \in UNION {ToSet(files[v]) : v \in Venues}}
SyncedOf(f) == {f.records[i] : i \in 1 .. f.synced}

Init ==
  /\ phase = "capture"
  /\ mono = 0
  /\ files = [v \in Venues |-> <<NewFile>>]
  /\ live = [v \in Venues |-> NoSession]
  /\ runs = 1
  /\ durable = {}
  /\ cursors = [v \in Venues |-> Unopened]
  /\ out = <<>>
  /\ refused = FALSE

-----------------------------------------------------------------------------
(* RotatingRawLog *)

SyncedFile(f) == [f EXCEPT !.synced = Len(f.records)]

\* Mutant: the closed segment is not synced.
RotatedUnsynced(segments, zst) ==
  Append([segments EXCEPT ![Len(segments)].zst = zst], NewFile)

\* maybe_rotate over budget: the segment is synced and closed, a compressor
\* may be started on it, and a new one is opened.
Rotated(segments, zst) ==
  LET closed == [SyncedFile(Last(segments)) EXCEPT !.zst = zst]
  IN  Front(segments) \o <<closed, NewFile>>

\* The files of v after maybe_rotate, over budget or not.
MaybeRotate(v) ==
  {files[v]} \cup
    IF Len(files[v]) < MaxFiles
    THEN {Rotated(files[v], zst) : zst \in {"none", "partial"}} ELSE {}

\* append: rotate first if over budget, then frame and buffer the record.
AppendRecord(v, record) ==
  /\ Cardinality(AllRecords) < MaxRecords
  /\ mono' = record.mono
  /\ \E segments \in MaybeRotate(v) :
       /\ files' = [files EXCEPT ![v] =
            [segments EXCEPT ![Len(segments)].records = Append(@, record)]]
       /\ durable' = IF segments = files[v] THEN durable
                     ELSE durable \cup ToSet(Last(files[v]).records)

\* The time of the next record.
Ticks == {mono, mono + 1} \cap 0 .. MaxClock

\* The connect NOTE: a session with a fresh codec.
Connect(v) ==
  /\ phase = "capture"
  /\ LET session == 1 + Max({0} \cup {r.session : r \in AllRecords})
     IN  /\ \E t \in Ticks :
              AppendRecord(v, [venue |-> v, session |-> session, index |-> 0, mono |-> t])
         /\ live' = [live EXCEPT ![v] = [session |-> session, next |-> 1]]
  /\ UNCHANGED <<phase, runs, replayVars>>

\* Any other record of the session, a frame, a snapshot or a note.
Capture(v) ==
  /\ phase = "capture" /\ live[v] # NoSession
  /\ \E t \in Ticks :
       AppendRecord(v, [venue |-> v, session |-> live[v].session,
                        index |-> live[v].next, mono |-> t])
  /\ live' = [live EXCEPT ![v].next = @ + 1]
  /\ UNCHANGED <<phase, runs, replayVars>>

\* The 5 s tick: sync, then rotate if over budget.
SyncTick(v) ==
  /\ phase = "capture"
  /\ LET synced == [files[v] EXCEPT ![Len(files[v])] = SyncedFile(@)]
     IN  /\ files' \in {[files EXCEPT ![v] = synced]} \cup
            (IF Len(files[v]) < MaxFiles
             THEN {[files EXCEPT ![v] = Rotated(synced, zst)] : zst \in {"none", "partial"}}
             ELSE {})
         /\ durable' = durable \cup SyncedOf(Last(synced))
  /\ UNCHANGED <<phase, mono, live, runs, replayVars>>

\* The compressor is done: only then does it remove the plain file.  It may
\* be at any time; nothing before the replay can tell.
CompressDone(v, i) ==
  /\ phase = "down"
  /\ i \in DOMAIN files[v] /\ files[v][i].zst = "partial"
  /\ files' = [files EXCEPT ![v][i].zst = "done"]
  /\ UNCHANGED <<phase, mono, live, runs, durable, replayVars>>

\* The capture process dies.
Crash ==
  /\ phase = "capture"
  /\ phase' = "down"
  /\ UNCHANGED <<captureVars, replayVars>>

\* A clean shutdown syncs every open segment and leaves it uncompressed.
Finish ==
  /\ phase = "capture"
  /\ phase' = "down"
  /\ files' = [v \in Venues |-> Front(files[v]) \o <<SyncedFile(Last(files[v]))>>]
  /\ durable' = durable \cup UNION {ToSet(Last(files[v]).records) : v \in Venues}
  /\ UNCHANGED <<mono, live, runs, replayVars>>

\* A new process: a clock of its own, and a new segment per venue.
Restart ==
  /\ phase = "down" /\ runs < MaxRuns
  /\ \A v \in Venues : Len(files[v]) < MaxFiles
  /\ phase' = "capture"
  /\ mono' = 0
  /\ files' = [v \in Venues |-> Append(files[v], NewFile)]
  /\ live' = [v \in Venues |-> NoSession]
  /\ runs' = runs + 1
  /\ UNCHANGED <<durable, replayVars>>

-----------------------------------------------------------------------------
(* Replay: MergedStream *)

\* What the bytes of a segment amount to.  A record on a page that did not
\* reach the disk fails its CRC.
LogHeader == [header |-> TRUE]
TornRecord == [torn |-> TRUE]
Contents(f) == <<LogHeader>> \o f.records

\* The first n of them, some torn.
Cut(f, n, torn) == [i \in 1 .. n |-> IF i \in torn THEN TornRecord ELSE Contents(f)[i]]

\* What may be left of a segment: of a plain file what was synced and a prefix
\* of the rest, torn anywhere; of a partial twin, which discover prefers to
\* the plain file, any prefix.
Left(f) ==
  LET size == Len(Contents(f))
      fsynced == f.synced + 1
  IN  CASE f.zst = "none" ->
             UNION {{Cut(f, n, torn) : torn \in SUBSET (fsynced + 1 .. n)} : n \in fsynced .. size}
        [] f.zst = "partial" -> {Cut(f, n, {}) : n \in 0 .. size}
        [] f.zst = "done" -> {Contents(f)}

\* from_reader: a segment without its header is an error.
OpensLog(left) == left # <<>> /\ left[1] = LogHeader

\* read_next until the end or a torn tail.
ReadLog(left) ==
  LET torn == {i \in DOMAIN left : left[i] = TornRecord}
  IN  SubSeq(left, 2, Min(torn \cup {Len(left) + 1}) - 1)

\* What may come of reading a segment: its records, or an error.
SegmentError == [records |-> <<>>, ok |-> FALSE]
NoRecords == [records |-> <<>>, ok |-> TRUE]
Reads(f) ==
  {IF OpensLog(left) THEN [records |-> ReadLog(left), ok |-> TRUE] ELSE SegmentError :
     left \in Left(f)}

\* Mutant: a torn tail ends the venue's stream.
OpenedToTorn(v, i, read) ==
  [next |-> IF read.records = files[v][i].records THEN i + 1 ELSE Len(files[v]) + 1,
   rest |-> read.records, ok |-> read.ok]

\* Segment i is open: an error ends all, a torn tail only the segment.
Opened(v, i, read) == [next |-> i + 1, rest |-> read.records, ok |-> read.ok]

\* next_record: the cursor with a record at its head, over any segments that
\* yield none; or at the end; or with an error.
NextRecord(v, cursor) ==
  LET ahead == cursor.next .. Len(files[v])
      reached == {i \in ahead : \A j \in ahead : j < i => NoRecords \in Reads(files[v][j])}
      atEnd == [cursor EXCEPT !.next = Len(files[v]) + 1]
  IN  IF cursor.rest # <<>> THEN {cursor}
      ELSE (UNION {{Opened(v, i, read) : read \in Reads(files[v][i]) \ {NoRecords}} : i \in reached})
           \cup {c \in {atEnd} : \A j \in ahead : NoRecords \in Reads(files[v][j])}

Heads == {v \in Venues : cursors[v].rest # <<>>}

\* Mutant: the venue alone decides.
FirstByVenue == CHOOSE v \in Heads : \A w \in Heads : v <= w

\* The venue whose head has the least (recv_mono_ns, venue).
First ==
  LET time(v) == Head(cursors[v].rest).mono
  IN  CHOOSE v \in Heads :
        \A w \in Heads : time(v) < time(w) \/ (time(v) = time(w) /\ v <= w)

\* An error, a segment whose header is incomplete, is one of the whole replay.
Refuse == phase' = "replayed" /\ refused' = TRUE /\ UNCHANGED <<out, cursors>>

\* MergedStream::new: every venue's first record.
OpenStream ==
  /\ phase = "down"
  /\ \E opened \in [Venues -> UNION {NextRecord(v, Unopened) : v \in Venues}] :
       /\ \A v \in Venues : opened[v] \in NextRecord(v, Unopened)
       /\ \/ /\ \A v \in Venues : opened[v].ok
             /\ phase' = "replaying"
             /\ cursors' = opened
             /\ UNCHANGED <<out, refused>>
          \/ (\E v \in Venues : ~opened[v].ok) /\ Refuse
  /\ UNCHANGED captureVars

\* MergedStream::next: the first of the heads, and its venue's next record in
\* its place; should that be an error, the record is lost with it.
NextMerged ==
  /\ phase = "replaying" /\ Heads # {}
  /\ LET v == First
     IN  \E cursor \in NextRecord(v, [cursors[v] EXCEPT !.rest = Tail(@)]) :
           \/ /\ cursor.ok
              /\ out' = Append(out, Head(cursors[v].rest))
              /\ cursors' = [cursors EXCEPT ![v] = cursor]
              /\ UNCHANGED <<phase, refused>>
           \/ ~cursor.ok /\ Refuse
  /\ UNCHANGED captureVars

\* No head is left.
EndStream ==
  /\ phase = "replaying" /\ Heads = {}
  /\ phase' = "replayed"
  /\ UNCHANGED <<captureVars, replayVars>>

-----------------------------------------------------------------------------
(* ingest *)

\* The store takes no record whose time is before the last one's.
Ascends == \A n \in 2 .. Len(out) : out[n - 1].mono <= out[n].mono

\* run of ingest.rs: the records that get into a store.  If one is rejected,
\* the replay runs on but nothing is sealed.
Ingested == IF Ascends THEN out ELSE <<>>

Next ==
  \/ \E v \in Venues :
       \/ Connect(v) \/ Capture(v) \/ SyncTick(v)
       \/ \E i \in 1 .. MaxFiles : CompressDone(v, i)
  \/ Crash \/ Finish \/ Restart
  \/ OpenStream \/ NextMerged \/ EndStream

Spec == Init /\ [][Next]_vars

-----------------------------------------------------------------------------
(* Properties *)

\* No segment of the venue was caught while it was being compressed.
Settled(v) == \A i \in DOMAIN files[v] : files[v][i].zst # "partial"
Replayed == phase = "replayed" /\ ~refused

\* Replay gives the codec of a session the records capture's codec saw, from
\* the connect NOTE on and without a hole, whatever a crash cut off and
\* wherever segments were rotated: the two codecs are in the same state.
SessionsReplayedWhole ==
  \A n \in DOMAIN out :
    Settled(out[n].venue) /\ out[n].index > 0 =>
      \E m \in 1 .. n - 1 : /\ out[m].session = out[n].session
                            /\ out[m].index = out[n].index - 1

\* Every record an fsync covered is replayed, over crashes and restarts, if
\* the compressor got to its end; those of one process are ingested too.
DurableIsReplayed ==
  Replayed =>
    \A r \in durable : Settled(r.venue) =>
      r \in ToSet(out) /\ (runs = 1 => r \in ToSet(Ingested))

\* The records of one capture process come out in ascending order of time,
\* ties in order of the venue, each venue's in the order captured.
MergeAscends ==
  runs = 1 =>
    \A m, n \in DOMAIN out : m < n =>
      \/ out[m].mono < out[n].mono
      \/ out[m].mono = out[n].mono /\ out[m].venue < out[n].venue
      \/ /\ out[m].mono = out[n].mono /\ out[m].venue = out[n].venue
         /\ \/ out[m].session < out[n].session
            \/ out[m].session = out[n].session /\ out[m].index < out[n].index

\* "everything already on disk stays readable": no crash makes replay refuse
\* records an fsync covered, the compressor at rest.
ReplayOpens ==
  refused /\ (\A v \in Venues : Settled(v)) => durable = {}

\* The compressed twin "is complete if present": preferring it loses nothing
\* an fsync covered.
TwinIsComplete == Replayed => durable \subseteq ToSet(out)
=============================================================================
