# flashbook in TLA+

Specifications, model-checking configurations and machine-checked proofs for
flashbook: a market-data pipeline in Rust that connects to crypto venues over
WebSocket and REST, records every frame in a raw log, decodes frames into
fixed-size `Event`s, broadcasts those over a lock-free ring, keeps order books
from them, stores them in columnar segments and replays raw logs
deterministically. Paths below are relative to `src/crates/` unless they start
with `src/`.

Contents

1. The system: components, state, operations, interactions
2. What is hard about it
3. The modules
4. The runs: what each asks, its bounds, what it shows
5. Fairness
6. The proofs
7. Where code and documentation disagree
8. What is not modelled
9. Plan

## 1. The system

| component | state it keeps | operations | what makes it correct |
|---|---|---|---|
| broadcast bus (`bus/src/ring.rs`) | slots of (version, words), `head`; per consumer a cursor `next` | `publish`, `subscribe`, `try_next` | a consumer gets whole events in order, or is told exactly how many it lost; the producer never waits |
| order books (`lob/src/{book,btree,ladder}.rs`) | sync state, levels per side | `apply` of one event | the fast book shows what the reference book shows; diffs only touch a synced book; truncation never shows a level that is not there |
| Binance codec (`feed/src/binance.rs`) | per instrument: Unsynced(high mark) or Synced(last id), last trade id | `on_frame`, `on_rest` | book events applied in order give the venue's book; a gap is announced, never papered over |
| Coinbase codec (`feed/src/coinbase.rs`) | the last trade id seen | `on_frame`, `on_rest` | book messages carry no number: a hole in the trade ids is reported once and followed by a fetch, and what is lost in silence is mended by the periodic one |
| Kraken codec (`feed/src/kraken.rs`, `proto/src/kraken_crc.rs`) | none | `on_frame` | the book is the venue's at the subscribed depth; a checksum mismatch means a loss |
| both parsers of a codec (`feed/src/codec.rs`, `scan.rs`, `process_payload` of `conn.rs`) | the events pushed so far, the codec's state | fast path, slow path | a frame has its effect once or not at all, and the same in replay |
| venue connection (`feed/src/conn.rs`) | backoff attempt, session start, REST deadlines and attempts per target, last fetch, last frame | `run_venue`, `run_session`, `fetch_rest` | always reconnects, never hammers; every resync request is served; a rate limit is respected |
| rotating raw log (`feed/src/sink.rs`, `proto/src/rawlog.rs`) | current segment, its buffer, bytes, age | `append`, rotation, `sync`, background compression | what an fsync covered survives; a torn tail is detected and bounded |
| replay source (`replay/src/source.rs`) | per-venue cursor over segments, one head per venue | `discover`, `next` | one deterministic order; a torn tail costs only itself |
| replay engine (`replay/src/run.rs`) | one codec per venue, books, scores | drive codecs with the merged records | replay decodes exactly what capture decoded |
| store segment (`store/src/segment.rs`) | pending events, block directory, file | `append`, `checkpoint`, `seal`, `open`, `scan`, `scan_mono_range`, `verify`, `recover_truncate` | durable events survive a crash, nothing is made up, a range scan is a filtered scan |
| block encoding (`store/src/block.rs`, `varint.rs`) | previous values of each column | encode, decode, decode some columns | what is read is what was written, or an error |
| point-in-time index (`store/src/pit.rs`), export (`replay/src/bin/export-dashboard.rs`) | snapshot brackets; a sidecar file | `build`, `save`, `load`, `latest_at`, `pit_scan`; sampling | the book at time t is the fold of the events up to t |
| capture process (`feed/src/bin/capture.rs`, `stats.rs`) | task handles, the shutdown flag, failures, the statistics task | start, supervise, join, exit | it stops when told, fails when a task fails, and a clean exit leaves everything on the disk |
| event types (`proto/src/event.rs`, `clock.rs`, `fixed.rs`, `instrument.rs`) | none; a per-process clock | parse, format | width and rounding |
| store ingest (`replay/src/bin/ingest.rs`), verify, dashboard, benchmarks, ops scripts | counters | orchestration, reporting | times ascend in a segment |

How they interact. `capture` spawns one `run_venue` task per venue. That task
owns its codec, its raw log and its REST schedule; a frame or REST body is
appended to the raw log *before* it is decoded, and the connection is recorded
as a NOTE, so that replay can rebuild the codec where capture did. The codec
answers a frame with events and with a signal (`Ok`, `NeedResync`, `Reconnect`,
...), which the session loop turns into a REST deadline or a reconnect. Replay
merges the raw logs of all venues by `(recv_mono_ns, venue)`, feeds fresh codecs
and applies the events to ladder books; ingest appends them to store segments.
The bus broadcasts events from one producer to many consumers on other threads.
Tasks share nothing but the file system and the bus.

## 2. What is hard about it

* **Shared memory without locks.** Producer and consumers interleave at single
  loads and stores, with relaxed accesses between fences.
* **Three clocks of progress in one protocol.** Diffs, REST snapshots (slow, and
  possibly older than the diffs) and the session's own life cycle meet in any
  order; codec and book each keep a sync state, driven by different messages.
* **Timers.** Reconnect backoff, REST backoff, rate-limit pauses, periodic
  refresh and the idle watchdog share one `select!`, and a fetch blocks the rest.
* **Crashes.** Buffered writers, fsync points, rotation, a background compressor
  and recovery in place; unsynced data is lost in any pattern.
* **Two implementations of one book**, one with a bisected and truncated vector.
* **Two parsers of one frame.** The fast one emits events and moves the codec's
  state while it reads; when it gives up, the slow one starts over.
* **Losses without a trace.** Coinbase and Kraken book messages carry no sequence
  number, so a lost one is inferred from trade ids, from a checksum, or not at all.
* **Shutdown.** Each task waits in several `select!`s, and the watch channel wakes
  a receiver once; a request in flight may outlast the supervisor's patience.

`PROJECT.json` lists these as hazards, each at its line, with the properties that
would catch it going wrong, and says why where no property does yet.

## 3. The modules

Composition: `BusRing` instantiates `BroadcastLog` (refinement); `LadderBook`
instantiates `BTreeBook` (refinement); `DepthSync`, `FeedChannel`, `PitIndex`,
`LadderBook` and `BTreeBook` extend `Book`; `FeedSync` is `CoinbaseSync` and
`KrakenSync`, which extend `FeedChannel`. `MCx` modules only give constants to
TLC, except the two sums: `MCLive` (`CaptureProcess`, `Payload`, `LadderBook`) and
`MCAtRest` (`CaptureReplay`, `StoreSegment`, `BlockCodec`, `PitIndex`). A behaviour
of a sum is a behaviour of one of its machines, and `part` says of which. The
machines share no variable, so a sum says nothing about an interplay; it is how
several small state spaces are searched in one run.

**BroadcastLog** is the abstract specification of the bus: events are appended, a
poll delivers, reports that there is nothing, or reports an exact loss of events
that are no longer among the `Cap` newest.

**BusRing** is `ring.rs`, one action per atomic access. `ppc` is the producer's
place in `publish` (`BeginWrite` = odd version and release fence, `StoreWord`,
`EndWrite` = even version, `Announce` = head); `cpc[c]` the place of consumer `c`
in `try_next` (`PollEmpty`/`PollReady`/`PollLapped` on the first version load,
`LoadWord`, `Accept`/`Discard` on the second, `Jump` for a loss). Words between
the fences are accessed in any order. The value of a word is the sequence it was
written for, so a mixture is visible. `published`, of the refinement, is the
number of events complete in their slots, not `head`, because `try_next` decides
by the version alone and may deliver an event before `head` counts it.

**BusRingWeak** drops sequential consistency: locations are histories of stores
with the views they release, and a load may return any store that its thread's
view does not exclude, in the manner of the C++20 (and Rust) memory model's
release/acquire fragment with fences. It is where the fences earn their place:
`BeginWriteUnfenced` or a relaxed head store break it.

**Book, BTreeBook, LadderBook.** `ApplyCommon` is the sync state machine all books
share. `BTreeBook` is a partial function from prices to quantities per side;
`LadderBook` is the sorted vector with the best level last, `Find` a bisection by
the code's comparison (the recursion is a function of a pair, so that it can be
proved about), truncation at the front. `full` and `beyond` are history
variables for what truncation may lose.

**DepthSync** puts together the codec's depth machine (`finish_depth`,
`snapshot_inner`, `finish_trade`), the part of the session loop that acts on its
signals (`due`, `rest`, `Connect`, `Disconnect`), the book, and a venue that
numbers its updates, sends frames over ranges of them, leaves frames out, and
answers REST requests with old snapshots, or not at all. `due` abstracts a REST
deadline to *none*, *at the periodic refresh* or *soon*. Parsing is abstracted to
the fields `first`, `final` and the levels.

**FeedChannel, CoinbaseSync, KrakenSync, FeedSync** are the two feeds without
sequence numbers. `FeedChannel` holds what they share: a venue whose updates are
numbered for the model only, the WebSocket, the book at its depth, the loss of a
frame on the way (`VenueOmit`) or in the codec (`DropFrame`, a frame no parser
reads). `View` is what a subscriber of a depth-limited feed is shown: a level
pushed out by a better one is not announced, one that moves back in is. The body of a
frame lists the changes of each update it covers; how a venue would compress
several changes of one price is not modelled.
`CoinbaseSync` adds matches that overtake each other, heartbeats, the baseline of
trade ids, the Gap and its fetch. `KrakenSync` adds the checksum comparison of
replay. `FeedSync` chooses the venue once and for all.

**Payload** is one frame through `process_payload` and again through replay. A
parser is the list of its steps in the order of the code: reading a field,
pushing an event, changing the codec's state. Each field of a frame has a form,
plain, odd (valid, but not in the shape the fast path expects), wrong (missing or
of another type), too large, or of an unknown symbol; both paths stop where the code does. `slowOnly` is
a codec that has the slow path only.

**CaptureProcess** is the supervisor of `capture.rs` with its venue tasks, each
reduced to the place it waits in, the watch channel (`noticed` are the receivers
that have consumed the change), the failure channel, the statistics task, the
joining in order with its time limit, and the exit code.

**VenueSession** is one venue's task in discrete time: `run_venue`'s backoff,
`RestSched`, rate limits, the idle watchdog, with the codec reduced to the signal
it gave. A timer may fire at its deadline or later and in any order with what is
ready then. While `fetching`, no frame is read; the HTTP client's timeout bounds
the fetch.

**StoreSegment** is a segment file as a sequence of pieces (file header; header
and body of each block; directory and trailer). `CrashStore` keeps the synced prefix,
any prefix of what was written after it, and turns any unsynced piece into junk.
The reader (`HasFooter`, `Blocks`, `Torn`, `Scan`, `ScanMonoRange`, `Verified`) and
`Recover` are operators over what is on disk.

**BlockCodec** is a block byte by byte, at a word of any size: varints, zig-zag,
deltas and deltas of deltas that wrap, the columns one after the other, the length
table of version 2 and the decoder that skips columns by it. A byte of a varint
carries one of `Group` values and a word has `2 * Group^(LongestVarint - 1)`, which is
2^64 for the code's 128 and ten bytes. The loops over a stream and over the columns
are recursive functions of one step each (`TakeValue`, `TakeColumn`). `StrikeHeader`
damages the header, which no CRC covers.

**PitIndex** is `SnapshotIndex::build` as its bracket machine over the store's
blocks, the sidecar (missing, torn, or of a store since replaced), `latest_at`,
`pit_scan`, and the series that the export samples from them.

**CaptureReplay** is the raw log from writer to merged replay: two venues'
segments with written and synced lengths, rotation (sync, close, compress in the
background), the sync tick, crash, restart, then the merge, record by record:
`OpenStream` gives each venue its first record, `NextMerged` yields the first of the
heads and reads that venue's next one, `EndStream` comes when no head is left. A
cursor has the segment to open next and the records ahead in the open one. A crash leaves of a segment what was
synced and any prefix of the rest, any record of which may be torn; the reader (`OpensLog`, `ReadLog`,
`Reads`) stops at a torn record and prefers a twin, `NextRecord` goes on with the next segment, and an
error passes through to the replay (`refused`). What is left of a segment is chosen
when it is opened, which is the same as at the crash, since each is opened once. A segment whose header was still
in its buffer has `synced = NoHeader`. `Ingested` is what the store takes of the
merged records.

**BusRingProofs, BusRingWeakProofs, BookProofs, DepthSyncProofs,
FeedSyncProofs, ConnectionProofs, CaptureReplayProofs, DurabilityProofs** hold
the theorems (section 6). ConnectionProofs is about two components, the session and the
frames of Payload, BookProofs about two, the ladder and the index, and DurabilityProofs about
three, the capture process, the store segment and the block.

## 4. The runs

| run | question | bounds | distinct states |
|---|---|---|---|
| ring | torn reads, exact losses, refinement of the log, every complete event received or reported lost | 1 consumer, 2 words, 2 slots, 7 publishes | 14 thousand |
| ring_weak | the same under weak memory | 1 consumer, 2 slots, 2 words, 7 publishes | 23 thousand |
| depth_sync | book = venue's book; no resync lost; sync regained | 2 levels, 3 updates, trade ids to 3, 2 sessions, 1 failure, 2 frames in flight | 1.4 million |
| feeds | a book kept without sequence numbers; gaps reported once and mended; no false alarm of the checksum | Coinbase: 2 prices, 2 updates, trade ids to 3; Kraken: 3 prices at depth 2, checksum over 1 level, 4 updates, trade ids to 2; 2 sessions, 1 failure, 1 frame in flight besides the greeting | 1.0 million |
| venue_session | spacing, backoff, rate limit, starvation | 2 targets, time 0..8 | 2.8 million |
| live | shutdown and failure; one effect per frame, the same in replay; ladder = map | 2 venues with 1 frame and 1 request each; 2 frames per codec with at most 2 fields that are not plain; 3 prices, quantities 0..2, depth 2 | 72 thousand |
| at_rest | crash safety and order of the raw log; crash safety of a segment; columns; the index and the export | logs: 2 venues, 3 records, clock 0..1, 2 processes, 2 segments per venue; segment: blocks of 2, times 0..2, 5 events; block: words of 5 bits in varints of 2 bits a byte, 2 events; index: 2 instruments, blocks of 3, times 0..1, 3 frames, 2 stores | 1.3 million |

The other five runs are violations, in section 7; they use the same instances.
Two properties that were once checked by a run, `CopyDetectsOverwrite` and
`LapIsReal`, and the type invariants of the ring and of `DepthSync` are proved
instead.

Why these bounds are enough for the cases that matter:

* *Ring.* With two slots, seven publishes lap a slow consumer three times, so a
  version is seen at its own lap, one behind and two ahead; a copy can be overtaken
  between its two words, a jump can land on a slot being written. One consumer is
  enough because consumers write nothing that is shared; the proof removes the
  bound altogether. Versions are `u64` and would need 2^63 laps to wrap, so they
  are unbounded naturals here.
* *Weak memory.* Seven publishes give every location at least three stores for a
  load to choose from, and the two words can be loaded from different laps. The
  proof removes the bounds.
* *DepthSync.* Three updates over two levels give a frame that covers several
  updates, an omitted frame between two sent ones, a snapshot before, between and
  after them, and a level removed again. The second session meets what the first
  left in the book. One failed fetch is enough to lose a deadline if it can be
  lost. The proof removes these bounds for the safety properties.
* *Feeds.* Coinbase: two updates with a fetch under way give an answer newer than
  frames still to be read; trade 1 was before the session, so ids 2 and 3 can be
  lost, overtake each other, or be told by a heartbeat first. Kraken: three prices
  at a depth of two are the least with which a level leaves the view and comes
  back; a checksum over one level leaves one it does not see. The greeting holds
  two frames whatever the bound. The proof removes the bounds for the two
  properties about gaps.
* *VenueSession.* The parameters keep the order of the code's defaults (spacing
  less than refresh, floor less than cap, idle timeout longer than the health
  minimum) at a scale where two targets, a 429 pause, a backoff and an idle
  timeout all fit in eight ticks. The proofs remove the bounds.
* *Ladder.* Three prices with a depth of two is the smallest instance where a
  level is truncated, its better ones removed, and the book is short of it. The
  state space is all event sequences, of any length; the proof removes the bounds.
* *StoreSegment.* Blocks of two and five events: two full blocks, a partial one at
  a checkpoint, equal times on both sides of a block edge. The proof removes the
  bounds.
* *CaptureReplay.* Two segments per venue and two processes: a cut segment
  followed by a whole one, a session that spans segments, a crash before the first
  sync, a compressor cut off. Three records are enough for a torn segment before a
  synced one; a clock of two values has ties and a step. The proof removes the bounds.
* *BlockCodec.* With four values a byte and three bytes, a word has five bits, and one
  is left for the last byte of the longest varint, as 64 in groups of seven leave one;
  the inputs are the ends of the signed and the unsigned range, so that deltas
  overflow both ways. The proof removes the bounds.
* *PitIndex.* A snapshot is four events, so blocks of three make it straddle an
  edge and a torn tail cut it; two stores at one path are enough for a stale
  sidecar.
* *Payload.* Two fields that are not plain are enough for the first parser to fail
  at one and the second at the other; the second frame meets what the first left
  in the codec.
* *CaptureProcess.* Two venues: one that fails or hangs while the other is joined.
  A change is consumed at most once, so longer sessions add nothing; the proof
  removes the bound for `CleanMeansDurable`.

What the properties say is in the comment above each definition. The ones worth
reading first: `Refinement` and `VersionsTell` (BusRing), `BookIsVenueBook` and
`ResyncIsPending` (DepthSync), `InStep` and `GapReportedOnce` (FeedSync), `MapSpec`
and `TruncatedIsTrue` (LadderBook), `OneEffect` (Payload), `DurableSurvives` and
`NothingInvented` (StoreSegment), `SessionsReplayedWhole` (CaptureReplay),
`PitIsTheBook` (PitIndex), `StopsWhenTold` (CaptureProcess).

Definitions marked *Mutant* beside the one they alter are plausible mistakes (a
dropped fence, an off-by-one in the bridging test, a swapped sort order).
Replacing the definition by its mutant makes the property named in `PROJECT.json`
fail: each property depends on the code's getting that line right.

`CHECK_DEADLOCK FALSE` is used where the system may really stop: the capture is
over, the segment sealed, the bounded venue silent, the process shut down. The
ring is checked for deadlock; consumers can always poll.

No run uses symmetry.

## 5. Fairness

* `BusRing`: weak fairness of every consumer's `try_next`, and *none* of the
  producer: a consumer thread polls in a loop and `try_next` never waits, while
  the producer may stop for ever in the middle of a publish. That is why
  `EveryEventAccountedFor` speaks of events complete in their slots.
* `DepthSync`: weak fairness of `Connect` (`run_venue` loops for ever), of reading
  frames and of finishing a fetch (the loop is never idle when one is ready), and
  strong fairness of `FetchRest`: the arm is enabled again and again between
  frames, and `select!` chooses at random among the ready arms, so it is taken in
  the end. Of the environment it assumes that every request is answered (the HTTP
  client has a timeout) and, if requests keep being made, that again and again
  one is answered with the venue's present book. Without that assumption the
  property is false and should be: a venue that only ever sends old snapshots
  cannot be followed. `EventuallySynced` further assumes that the connection stays
  up in the end, and so does `EventuallyRepaired` below.
* `FeedSync`: for Coinbase, weak fairness of connecting, reading and the answer to a
  request, strong fairness of making one, for the reasons above; the bound on
  failures says that not every request fails. The answer is the venue's book at a
  moment of the request. Nothing is assumed of Kraken, which has no repair to wait
  for, and nothing of the venue: it need not trade, send or beat.
* `CaptureProcess`: weak fairness of every step that a timeout or a bounded wait
  guarantees (a handshake, a backoff, a request, the final sync, the statistics
  task, the supervisor's own steps) and strong fairness of a session seeing the
  shutdown: `select!` polls its arms in random order, so the arm is chosen at last.
  No venue has to send, and nobody has to stop the process.
* `VenueSession` states starvation as a bound (`passed`), not as liveness, so it
  needs no fairness.

## 6. The proofs

All are checked by TLAPS, for all values of the constants that satisfy the
assumptions named in the modules.

**BusRingProofs** assumes `CapAssumption` (capacity at least two, which `ring()`
ensures by rounding up to a power of two) and `MaxPublishAssumption`.

1. Arithmetic: `DivisionWithRemainder`, `NextLap`, `SharedSlot`: two sequences in
   one slot are at least a lap apart and their expected versions at least two.
2. `VersionsTell` is preserved by each producer step. It is what makes the
   algorithm tick: the version of a slot tells, of any sequence, whether it is not
   yet written, ready and intact, or lapped, and for ever.
3. `RingInv` adds, per consumer, that the cursor is not ahead of the log, that any
   word of a copy that is foreign comes with a version that has moved on, and that
   a consumer about to report a loss was lapped. `NoTornRead` alone is not
   inductive: whether `Accept` hands out a whole event depends on words loaded
   earlier, so the invariant must speak of copies in progress. `RingInvByConsumer`
   splits it, `IdleConsumer` shows that others' steps keep a consumer's part, and
   `ConsumerStep` treats its own.
4. From it: `NoTornReadTheorem`, `LapIsRealTheorem`, `NoFalseLossTheorem` (an action
   property) and `RingImplementsLog`: the ring implements the broadcast log.

**BusRingWeakProofs** proves the same protocol under the memory orderings the code
asks for, for any number of words and slots and histories of any length; it assumes
`Cap` of at least two and at least one word. Here a load may return an old store, so
that an invariant on values is not enough. `WeakInv` speaks of views:

1. `Histories` dates every store: the n-th store to a version has the value n, the
   t-th store to a word belongs to lap t.
2. `Releases` is what the two fences are for. The even version of a sequence carries
   a view that has its words, so that a consumer that reads it can load none older;
   a word carries a view that has the odd version stored before it, so that a
   consumer that loads a newer word and passes the acquire fence finds the version
   moved on (`ConsumerInv`).
3. `StoreViewsSound` says that no view holds the head without the versions of all
   sequences below it, which is `HeadCoversSlots` once a consumer reads such a view.

`NoTornReadWeak` is inside `ConsumerInv` but not inductive: what `Accept` hands out
depends on what was loaded, from which lap, before the fence.

**BookProofs, the ladder,** assumes `LadderAssumption` only (prices are integers, quantities
and `max_depth` naturals).

1. `FindIsPlace`: in a sorted vector the bisection comes down to the place that parts
   the worse prices from the others. That its recursion defines a function at all
   (`BisectionExists`) is shown with the function it must be; that it is that one, by
   the least length of a range that would be answered wrongly.
2. `UpdatedIs` and `TruncatedIs`: setting a level changes this level and leaves the
   vector sorted; truncation leaves its end. `LadderInv` carries the sortedness, which
   neither of the two properties states and both need.
3. `TruncatedIsTrueEver`: a level that truncation takes away has `MaxDepth` levels
   above it, in the untruncated book no fewer (`DeepStaysDeep`, by an injection), so
   that the history `beyond` has seen it.
4. `LadderImplementsMap`: `AsMap` of an updated and truncated vector is what
   `set_level` makes of the map (`SetMapIs`, `TruncateMapIs`; `BetterCount` counts the
   better prices by a bijection with the indices), and the last level is the best of
   the map (`BestIsTop`), so that `top_changed` agrees. Every step of `LadderBook` is a
   step of `BTreeBook` or a stutter.

**BookProofs, the index,** assumes `PitAssumption` only: any instruments, any size of a
block, stores of any length and any times. `PitIsTheBook` and `ExportIsTrue` say nothing
of how a store came about but that its times ascend, so the invariant `PitInv` is
small, and the work is in what the folds compute.

1. `FoldExists`: a fold over the places of the store is a function, step by step;
   `FoldBookIs`, `SamplerRuns` and `BuildIs` are its three uses, `FoldsAgree` and
   `FoldStands` compare two of them.
2. `FromSnapshot`: a SnapBegin makes the book anew whatever it was, so that the fold
   from there is the fold of everything before. `PassFollowsBook` relates the
   bracket machine to the book: while the book is filling a bracket is open at its
   SnapBegin, and once it is synced there is an entry of the latest one.
3. `PitScanIs`: a block that starts later than t holds nothing up to t, and the last
   place up to t parts the store (`CutExists`), so the scan reads what is due.
4. `SortByKeyIs`: the ranks of the entries are a bijection, so that sorting loses none
   and ascends; `LatestAtFinds` has the partition point find the latest entry.
5. `SampledIs`: the sampler has a point for every step up to the last event, each with
   the book of its time, also where events share a time.
6. `PitInv` knows of a sidecar that is not fresh only that it holds entries. What it
   says of this store is not invariant and need not be: `Matches` compares an entry with
   the event it points at, so that one that is believed is the SnapBegin of the instrument
   at that time and `FromSnapshot` holds for it as well (`SeriesIs`).

**DepthSyncProofs** needs no assumption beyond those of the module and holds for
any set of levels and any bounds. `TypeOK` is not inductive: that a diff yields
quantities needs `WireKnown` (frames on the wire cover updates the venue has made).
`BookIsVenueBook` further needs `codec.last <= Made` and `Untouched` (a level that
no update of a range touched is equal at its ends), from which `DiffBridges`: a
diff (U, u) with U <= last_u + 1 takes the venue's book at `last_u` to its book at
`u`. `DepthInv` is their conjunction with `GapUnsyncsBook` and `ResyncIsPending`;
`VenueSync` and `ClientSync` go through the actions. `AnchorCoversDroppedTheorem`
is an action property: of all steps only `SnapshotAnchors` ends an unsynced period.

**FeedSyncProofs, the codec of Coinbase,** holds for any prices,
depth and bounds. `GapReportedOnce` says how often each trade id was counted, in
terms of the baseline and of the id that set it (`seed`). It is not inductive: the
`last_match` of the greeting moves the baseline without counting, which is right
only if no baseline is there yet. `LastMatchFirst` says that this is so: no match
is ahead of it on the wire, and a heartbeat is a no-op before the first match.
`SeedBelowBase` orders the two ids, `WireNumbered` says that messages about trades
carry a number, and `FeedInv` is their conjunction with `GapResyncPending`.
`CountedStep` is the arithmetic that matches and heartbeats share; `TakenWireOK` and
`SentWireOK` say what taking and sending a message does to the wire. Kraken's steps
move the wire and the venue, and leave the rest alone.

**FeedSyncProofs, the books of both feeds,** assumes `ChannelAssumption` (prices and
depth are positive) and `KrakenAssumption` (the checksum covers no more than the
depth: 10 levels of at least 10). It holds for any of these, and any number of updates,
sessions, fetches and frames on the way. `InStep` speaks of what the frames would
make of the book if all were read, and is not inductive: it says nothing of an
unsynced book, of one that lost a frame, or of one without a session, all of which the
next snapshot changes. The proof goes up in four layers.

1. One update (`ChangesLead`): setting or removing a price in the venue's book moves at
   most one other price into or out of the best `Cap`, and the one or two changes a frame
   lists take a book cut to the depth from one view to the next. `TopAdded`,
   `TopRemoved` and their like say how the best n of a set of prices change, by
   cardinalities.
2. Many updates (`FramesLead`, `BodyJoin`): a frame over a range is a frame over its first
   part, then its second. `FetchedLeads` is the case REST makes: a whole book fetched at
   update n that first reads again the updates since an earlier p, and is set back by them,
   is the venue's in the end, since every price ends at the last update of it.
3. The frames on the way: `WireInv` says that a snapshot is ahead of every update
   (`OrderOK`), that each frame carries what the venue did (`FramesOK`), and that beyond the
   last loss nothing awaited is missing (`Whole`). `AtPos(n, p)` says that the frames behind the
   n-th are about all that follows update p and nothing else; `BookAgrees`, that a
   synced book whose losses are made good is at such a p and `Agrees` with it. Reading a
   frame moves p to its end (`PosStep`), a snapshot sets it (`SnapPos`), and at the end of
   the wire it is the last update sent (`WireLeads`), so that `InStep` follows.
4. The steps (`SyncInv`): of a fetch under way, `RestCovers` says that every update sent
   since it was asked for is on the way or lost, so that its answer is never older than what
   was read. That is what makes it right to compare it with nothing. A book kept over a
   reconnect is out of the account until the snapshot of the new session has come
   (`Caught`), unless nothing was sent meanwhile.

`MismatchIsLoss` follows from the same invariant: a Kraken book that lost nothing is the
view itself (`Agrees`) after each frame, and the best of the best `Depth` levels are the best of
all (`TopOfTop`, `ChecksumOfView`).

**ConnectionProofs, the session,** assumes `SessionAssumption` (delays are positive, floors do not
exceed caps) and holds for any number of targets and any delays. `SessionInv` says
that a backoff sleep ends at least the floor after the last attempt (`SleepIsLong`),
and that no deadline of a session lies within its pause (`PauseHolds`); the three
action properties follow for the one action that can change what they speak of.
`NoStarvation` needs an account of who was served: `FairTurns` says that a target
was passed by no more requests than there are targets with a later deadline (and
the one in progress). It holds because an answer takes time, so that whoever was
served while a target was ready has its next deadline strictly after it, a resync
request included.

**ConnectionProofs, the frames,** needs no assumption and holds for any number of frames
of any venue. `PayloadInv` is inductive as it stands; what has to be shown is that the
three ways to read a frame do the same to a codec, though each stops at another step.

1. `RunSteps` goes through the steps of a parser by a recursive function; `RunStepsIs`
   shows that it exists, and `RunConcat` that the steps of two parts are run one after the other.
2. `Effect(steps, fields, kinds)` is what reading fields and pushing events comes to: all
   the events if none of the fields is in error, or the error of one of them and some events.
   It composes (`EffectConcat`), so that `ParsersAreAlike` can show, parser by parser, that
   the fast and the slow one of a type read the same fields, push the same events and end in the
   same operation. Kraken's read their fields in two orders, which is why it speaks
   of sets of fields and not of the first error.
3. `SettleShifts`: the operation at the end, `finish_depth` with its truncation included, does
   the same whatever events other frames left in the buffer.
4. `ParseIs`: a parse does everything, or leaves an error and nothing else, since the
   operation comes last. `PathsDiffer`: a field that only the fast path stumbles over raises
   `Structure`, and every other error of the fast path is one of the slow path. So whether
   the slow path has its turn (`ProcessIs`) and whether the buffer is emptied before each
   (`ReplayIs`), the codec is left as by the slow path alone (`SlowIs`).

These lemmas hold for any forms of any number of fields; that `Frames` has at most two that
are not plain is a bound for TLC.

**CaptureReplayProofs** assumes `CaptureAssumption` (venue ids and bounds are naturals)
and holds for any venues, any number of records, segments, crashes and restarts. None
of the three properties is inductive: they speak of what was yielded, and the steps of
the merge say only what is yielded next. The invariant has two halves.

1. `LogInv` is about the segments, while capture, crash and compressor change them.
   Records lie in the order captured, over segments and processes (`InOrder`); none is
   without the one before it in its session (`NoHole`); a segment at which a session
   does not end is wholly synced (`Spans`), which is what the sync at rotation is
   for; and the session of a live connection is the last one of its log and may be
   continued (`Attached`). Every durable record is in the synced part of a segment, and
   in a single process the times rise. Every step either closes, extends or syncs
   segments without touching a record (`Grows`, `GrowsKeepsLog`) or appends one
   at the end (`AppendLastKeeps`).
2. `ReadsShape` is what a crash leaves to the reader: of any segment, cut anywhere and
   torn anywhere beyond what was synced, it yields a beginning, and all that was synced
   unless the compressor was cut off. `NextRecordFollows` says where the cursor then is.
3. `StreamInv` is about a merge under way: of each segment read, a beginning was taken
   (`TakesBeginning`) that has all synced records (`TakesSynced`), taken
   meaning yielded or ahead in the cursor; what a venue yielded lies before what it
   has ahead (`Yielded`, `Ahead`); and while one process is replayed the yielded records
   are in order and not after any head (`Merges`).
4. `SessionsAreReplayedWhole`: the record before one in its session exists (`NoHole`), in
   the same segment before it, and so in the beginning taken, or in an earlier one,
   which is wholly synced by `Spans`, so that it was taken as well (`EarlierTaken`); and it
   was yielded first. `WhatIsDurableIsReplayed`: at the end nothing is ahead, so that
   taken is yielded. `MergeIsAscending`: `First` is least by time and venue
   (`FirstIsLeast`), the next head of its venue is no earlier.

What the proofs leave to TLC of this component are the two disagreements
of section 7, `ReplayOpens` and `TwinIsComplete`.

**DurabilityProofs, the capture process,** assumes `CaptureAssumption` of `Order` only (each venue is
listed once). `CleanMeansDurable` is not inductive: that every task has been joined
follows from which handles are left. `CaptureInv` says that a task that ended well
has synced its log and writes no more (`DoneIsSynced`), that the handles are those
of the venues started so far (`HandlesKept`), that in the joining without a failure
each venue is yet to be joined or has ended well (`JoinedIsDone`), and what the exit
code stands for (`CodeTells`).

**DurabilityProofs, the store segment,** holds for any block size and any times. The properties speak
of what a reader makes of the pieces a crash has left; the code has no variable that
says what these were. `SegmentInv` therefore begins with "there are blocks e": the
pieces written are the file header, the blocks e, each listed as the directory lists
it (`Cut`), and nothing or the footer (`Ended`); the events appended are those of e and
then the pending ones (`Contents`), in the order of their times (`InOrder`); the synced
pieces cover the checkpoint (`Kept`), and of the pieces written each one on disk is as
written or damaged, those of the checkpoint as written (`Left`).

1. Writing: `SegmentStep` gives for each action the blocks after it, the old ones or
   these with `pending` at the end.
2. Reading: `ScannedIs` and `IndexIs` say that the recovery scan, and the directory
   where the footer is intact, find blocks of e in order from the first;
   `IntactLeads` that a footer that checks out was written after all blocks; `CutBack`
   what recovery leaves. `ReaderYields` puts them together: the scan yields the first k
   blocks of e. With `CoversIntact`, `DurableSurvivesEver` and `NothingInventedEver` follow,
   and `RecoveredReadsCleanEver` as an action property.
3. `RangeScanIsFilterEver`: since the times ascend across block edges (`BlocksInOrder`),
   the blocks passed over before the partition point and after the first block beyond the range hold no
   event of the range (`FirstBlockIs`, `WithinNone`), a block within it is yielded whole
   (`WithinAll`), and a filter of a concatenation is the concatenation of the filters
   (`WithinConcat`).

**DurabilityProofs, the block,** assumes `BlockAssumption` (a byte carries at least two
values, a varint has at least one byte) and `InputsAssumption` (the fields of an event
are words, `instrument` a narrow one, the kind a byte), so it holds for the 64 bits of
the code as for the five of the run. What the decoder reads is a sequence of bytes
that the code computes from the events; the invariant `BlockInv` says no more than
what a block is: its body is the concatenation of the streams, its header is the one
written (`IsEncoded`) or that with another count or with two entries of the table
changed by the same amount (`IsStruck`). What the properties say of it is
then a matter of the operators:

1. Words: `WrapIs`, `DifferenceIs`, `ZigzagIs` say by cases on the signs that what is
   taken modulo a word can be added back, and that zig-zag is undone.
2. Varints: `VarintIs` (only the last byte has no mark) and `VarintFits` (no word needs
   more than `LongestVarint` bytes, and the last of so many carries one bit) go from
   `v \div Group` to `v` (`DownToOneByte`); `VarintSays` that the bytes stand for the word; so
   `TakeIs`: the decoder takes from any place what was put there.
3. Columns: `NextIs` undoes each of the four encodings given the value before;
   `TakeValueIs` is the step of an induction along the stream, whose state is the
   values so far, the last delta and the length of the varints so far; `DecodeIs` is
   the result.
4. Parts of a body: `BodyHolds` says that each stream is where `col_offsets` finds it, so
   that `GoodDecodes` and `GoodSelects` give `ScanIsWrittenEver`, for version 1 by
   reading on where the last column ended (`SequentialIs`).
5. A damaged header: `DecodeExtends` says that what is decoded of a prefix of a stream
   is decoded of the stream with the same end, so a stream is filled by its values at
   one length only (`DecodeColIs`). Of two changed lengths the first belongs to a stream whose
   start is right (`ShiftedIsFound`), so it is found out; a changed count disagrees
   with the length of the byte column. This is `LengthTableIsGuardedEver`.

The last two are proofs about concatenations of any number of parts. The library's
induction theorems cannot be instantiated, so induction over the naturals is done
with sets: a set that holds zero and every successor is `Nat` (`Induction`, from the
well-foundedness of `<`). With it the recursive function inside `FlattenSeq` is shown to
exist and to concatenate, and so are the functions of BlockCodec. `Within` is written with `FlattenSeq` and not `SelectSeq`,
whose definition in the library the prover cannot unfold.

Only model-checked, not proved:

* the five liveness properties, `EveryEventAccountedFor`, `EventuallySynced`,
  `EventuallyRepaired`, `StopsWhenTold` and `FailureIsFatal`: they hold under fairness,
  and ENABLED is out of the prover's reach.

Each of the other properties that a passing run checks is a theorem.

## 7. Where code and documentation disagree

Each is a run in which TLC finds the documented property violated by a model of
what the code does.

* **depth_trade_gap / TradeGapIsAdvisory.** `binance.rs` calls the Gap emitted at a
  jump of trade ids "advisory only"; every book treats any Gap as the loss of
  sync, while the codec stays synced and asks for nothing. The book is out of
  service until the next periodic snapshot. (The same comment reports that no such
  jump was seen in practice.)
* **venue_pause / VenuePauseHonoured.** `conn.rs` means to honour Retry-After "for
  the WHOLE venue"; a resync request, or a reconnect that builds a fresh schedule,
  sends a request within the pause.
* **replay_opens / ReplayOpens.** `ATTACKS.md` says everything already on disk stays
  readable; a crash before the first flush of a new segment leaves a file without
  a header, at which replay refuses the whole capture.
* **replay_twin / TwinIsComplete.** `source.rs` takes a compressed twin to be complete
  if present; the compressor writes it under its final name, so one cut off by a
  crash is preferred to the complete plain file.
* **last_line / LastLineIsTotal.** `stats.rs` writes its last batch as soon as it sees
  the shutdown; a venue task may still count a frame before its own `select!` takes
  the same change. `ops/soak-report.md` says that "with zero restarts the last line
  IS the total".

An observation that is no run: the head of `kraken.rs` says that a checksum
mismatch is repaired by subscribing again. The live loop computes no checksum; it
is replay that does, so nothing is repaired before the next reconnect.

`ReplayOpens` and `DurableIsReplayed` set segments caught in the compressor aside,
so that each disagreement shows in one run only.

## 8. What is not modelled

* Scanning JSON byte by byte, decimal parsing, symbol tables, the instrument
  registry: pure functions, property-tested in the repository. `Payload` starts
  from the form of each field; JSON that breaks off after the last field a parser
  reads is outside it.
* zstd, and the digits of CRC32: a CRC is taken to detect every damaged piece, and
  Kraken's to tell any two tops apart. The check of Kraken's pair decimals when
  capture starts is configuration.
* In `CaptureProcess`: the command line, the pid file, and time itself. What the
  15 s limit of a join can and cannot overtake is stated at `JoinTimeout`; sending
  the subscriptions is taken as part of the handshake.
* Segment start times that go back with the wall clock; `CaptureReplay` numbers
  segments in creation order. The export's sampler takes wall time to be monotonic
  time and a constant.
* A Coinbase REST answer older than its request (from a cache of the venue). Nothing
  in the code could notice it.
* Continuing to use a `StoreWriter` after an I/O error; the callers give up. The
  ingest of several processes' records together, which `append` rejects.
* The scores of the REST cross-validation and the digests of replay, the summaries
  of the export, `replay-verify`, the dashboard: pure reports over sealed data.
* Benchmarks, supervision scripts, `wsdump`: around the system, not of it.
* `read_only` queries of the ring (`published`, `lag`, `cursor`).

## 9. Plan

Done: the bus (abstract, detailed, weak, with proofs of both), the three feeds with session and
book (with proofs), both parsers of every venue (with proofs),
session timing (with proofs), the books (with proofs), the capture process (with a
proof), segments (with proofs), the raw log, its replay and what ingest takes (with
proofs), the block encoding, the index and the export (with proofs).

Next, in this order:

1. A wall clock that steps back, as part of `CaptureReplay`'s segment names.
2. The REST cross-validation of replay: when a live snapshot may be compared with
   the replayed book, and when the comparison must be skipped.
3. Writing on after an I/O error in `StoreSegment`.
