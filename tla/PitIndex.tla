------------------------------ MODULE PitIndex ------------------------------
(***************************************************************************)
(* The point-in-time index of crates/store/src/pit.rs and its use in       *)
(* crates/replay/src/bin/export-dashboard.rs: a sidecar lists the complete *)
(* snapshots of a store, and the book of an instrument at any time is      *)
(* folded from the latest one instead of from the start.                   *)
(*                                                                         *)
(* A store is its events in blocks, in order of time; the events of one    *)
(* frame share a time and may straddle a block.  An event carries its      *)
(* number as its quantity, so that any two books of the run differ.  The   *)
(* sidecar lives by itself: it may be missing, cut short, or be that of a  *)
(* store that was replaced.                                                *)
(***************************************************************************)
EXTENDS Integers, Sequences, SequencesExt, FiniteSetsExt, Book

CONSTANTS
  Instruments,
  PitBlock,         \* events per block
  MaxTime, MaxFrames, MaxStores     \* bounds

ASSUME PitAssumption ==
  /\ Instruments \subseteq Nat /\ PitBlock \in Nat \ {0}
  /\ {MaxTime, MaxFrames, MaxStores} \subseteq Nat

VARIABLES
  store,        \* the events of the store, in file order
  frames,       \* how many frames they came in
  sidecar,      \* the .snapidx file: missing, torn, or saved, and its entries
  fresh,        \* history: was the sidecar built from this store?
  stores        \* stores written at this path so far

pitVars == <<store, frames, sidecar, fresh, stores>>

NoSidecar == [file |-> "missing", entries |-> <<>>]
TornSidecar == [file |-> "torn", entries |-> <<>>]

Event(kind, instrument, mono, qty) ==
  [kind |-> kind, instrument |-> instrument, mono |-> mono, qty |-> qty]

-----------------------------------------------------------------------------
(* The store *)

\* decode_block of every block in turn: each event with its place.
BlockOf(i) == (i - 1) \div PitBlock
PlaceInBlock(i) == (i - 1) % PitBlock
BlockStart(b) == b * PitBlock + 1
PitBlocks == 0 .. (Len(store) - 1) \div PitBlock

\* The directory's min_recv_mono of a block.
MinMono(b) == store[BlockStart(b)].mono

LastMono == Last(store).mono

-----------------------------------------------------------------------------
(* SnapshotIndex *)

\* Per instrument: SnapBegin opens or restarts a bracket, Clear discards it,
\* SnapEnd completes it.
NextPending(pending, i) ==
  LET e == store[i]
  IN  CASE e.kind = "SnapBegin" -> [pending EXCEPT ![e.instrument] = i]
        [] e.kind \in {"Clear", "SnapEnd"} -> [pending EXCEPT ![e.instrument] = 0]
        [] OTHER -> pending

EntryAt(i) ==
  [instrument |-> store[i].instrument, mono |-> store[i].mono,
   block |-> BlockOf(i), event |-> PlaceInBlock(i)]

\* sort_by_key is stable: ties of (instrument, mono) keep their file order.
Before(a, b) ==
  \/ a.instrument < b.instrument
  \/ a.instrument = b.instrument /\ a.mono < b.mono
SortByKey(entries) ==
  LET rank(k) == Cardinality({j \in DOMAIN entries :
                   Before(entries[j], entries[k])
                   \/ (~Before(entries[k], entries[j]) /\ j <= k)})
  IN  [r \in DOMAIN entries |-> entries[CHOOSE k \in DOMAIN entries : rank(k) = r]]

\* One event of build: a SnapEnd with an open bracket makes an entry of it.
Indexed(s, i) ==
  LET p == s.pending[store[i].instrument]
  IN  [pending |-> NextPending(s.pending, i),
       entries |-> IF store[i].kind = "SnapEnd" /\ p # 0
                   THEN Append(s.entries, EntryAt(p)) ELSE s.entries]

\* build: one pass over the store.
Build ==
  LET pass[k \in 0 .. Len(store)] ==
        IF k = 0 THEN [pending |-> [j \in Instruments |-> 0], entries |-> <<>>]
        ELSE Indexed(pass[k - 1], k)
  IN  SortByKey(pass[Len(store)].entries)

\* The key comparison of latest_at's partition point.
AtOrBefore(e, instrument, t) ==
  e.instrument < instrument \/ (e.instrument = instrument /\ e.mono <= t)

\* latest_at: the last entry before the partition point, if it is of the
\* instrument; a sequence of at most one entry.
LatestAt(entries, instrument, t) ==
  LET idx == Cardinality({k \in DOMAIN entries : AtOrBefore(entries[k], instrument, t)})
  IN  IF idx > 0 /\ entries[idx].instrument = instrument THEN <<entries[idx]>> ELSE <<>>

\* pit_scan refuses an entry that does not point at its SnapBegin, as that of
\* another store may not.
Matches(entry) ==
  LET i == BlockStart(entry.block) + entry.event
  IN  /\ entry.block \in PitBlocks /\ i \in DOMAIN store /\ BlockOf(i) = entry.block
      /\ store[i].kind = "SnapBegin"
      /\ store[i].instrument = entry.instrument /\ store[i].mono = entry.mono

\* Mutant: the block that begins at t is not decoded.
BlockIsPastEarly(b, t) == MinMono(b) >= t

BlockIsPast(b, t) == MinMono(b) > t

\* pit_scan: the places of the instrument's events from the entry's SnapBegin
\* to the last one at t, by blocks.
PitScan(entry, t) ==
  LET begin == BlockStart(entry.block) + entry.event
      past == {b \in PitBlocks : b > entry.block /\ BlockIsPast(b, t)}
      end == IF past = {} THEN Len(store) ELSE BlockStart(Min(past)) - 1
      late == {i \in begin .. end : store[i].mono > t}
      stop == IF late = {} THEN end ELSE Min(late) - 1
  IN  {i \in begin .. stop : store[i].instrument = entry.instrument}

-----------------------------------------------------------------------------
(* Books *)

NoBook == [sync |-> "Unsynced", levels |-> <<>>]

\* One event applied to the book; its levels are the numbers of the level
\* events that made them.
Applied(book, e) == ApplyCommon(book, e.kind, Append(book.levels, e.qty), <<>>)

\* The events at these places of the store, folded in file order.
FoldBook(places) ==
  LET book[k \in 0 .. Len(store)] ==
        IF k = 0 THEN NoBook
        ELSE IF k \in places THEN Applied(book[k - 1], store[k]) ELSE book[k - 1]
  IN  book[Len(store)]

\* The book of the whole stream at time t: what the folds should give.
TrueBook(instrument, t) ==
  FoldBook({k \in DOMAIN store : store[k].instrument = instrument /\ store[k].mono <= t})

-----------------------------------------------------------------------------
(* export-dashboard *)

\* load_or_build_index: a sidecar that does not load is built anew.
LoadOrBuild == IF sidecar.file = "saved" THEN sidecar.entries ELSE Build

\* first_entry_for: the first snapshot, when none is old enough.
FirstEntryFor(entries, instrument) ==
  LET own == {k \in DOMAIN entries : entries[k].instrument = instrument}
  IN  IF own = {} THEN <<>> ELSE <<entries[Min(own)]>>

EntryFor(entries, instrument, start) ==
  LET latest == LatestAt(entries, instrument, start)
  IN  IF latest # <<>> THEN latest ELSE FirstEntryFor(entries, instrument)

\* Mutant: an event is applied before the steps it crosses are sampled.
OnEventLate(s, e) ==
  LET book == Applied(s.book, e)
  IN  [book |-> book,
       points |-> s.points \cup {[t |-> t, book |-> book] : t \in s.next .. e.mono - 1},
       next |-> IF e.mono > s.next THEN e.mono ELSE s.next]

\* on_event: every step the event crosses is sampled before it is applied.
OnEvent(s, e) ==
  [book |-> Applied(s.book, e),
   points |-> s.points \cup {[t |-> t, book |-> s.book] : t \in s.next .. e.mono - 1},
   next |-> IF e.mono > s.next THEN e.mono ELSE s.next]

\* BookSampler over a scan, a step every unit of time, then finish; a step is
\* emitted only if the book is synced and has levels.
Sampled(places, start) ==
  LET sampler[k \in 0 .. Len(store)] ==
        IF k = 0 THEN [book |-> NoBook, points |-> {}, next |-> start]
        ELSE IF k \in places THEN OnEvent(sampler[k - 1], store[k]) ELSE sampler[k - 1]
      end == sampler[Len(store)]
      all == end.points \cup {[t |-> t, book |-> end.book] : t \in end.next .. LastMono}
  IN  {p \in all : p.book.sync = "Synced" /\ p.book.levels # <<>>}

\* The series of one instrument from `start` on: an error on a mismatch.
Series(instrument, start) ==
  LET entry == EntryFor(LoadOrBuild, instrument, start)
  IN  IF entry = <<>> THEN [ok |-> TRUE, points |-> {}]
      ELSE IF Matches(entry[1])
           THEN [ok |-> TRUE, points |-> Sampled(PitScan(entry[1], LastMono), start)]
      ELSE [ok |-> FALSE, points |-> {}]

-----------------------------------------------------------------------------
PitInit ==
  /\ store = <<>> /\ frames = 0 /\ stores = 1
  /\ sidecar = NoSidecar /\ fresh = FALSE

\* The events of the next frame: one parse emits them all or none.
SnapshotEvents(i, t) ==
  [k \in 1 .. 4 |-> Event(<<"Clear", "SnapBegin", "SnapLevel", "SnapEnd">>[k], i, t, Len(store) + k)]
UpdateEvents(i, t) == <<Event("Set", i, t, Len(store) + 1)>>
GapEvents(i, t) == <<Event("Gap", i, t, Len(store) + 1)>>

\* ingest appends the events of a frame.
WriteFrame(i, t) ==
  /\ frames < MaxFrames /\ ~fresh
  /\ IF store = <<>> THEN TRUE ELSE t >= LastMono
  /\ \E events \in {SnapshotEvents(i, t), UpdateEvents(i, t), GapEvents(i, t)} :
       store' = store \o events
  /\ frames' = frames + 1
  /\ UNCHANGED <<sidecar, fresh, stores>>

\* The tail of the store is torn off at a block, as recovery leaves it.
TearStore(b) ==
  /\ ~fresh /\ b \in PitBlocks /\ b > 0
  /\ store' = SubSeq(store, 1, BlockStart(b) - 1)
  /\ frames' = MaxFrames
  /\ UNCHANGED <<sidecar, fresh, stores>>

\* save: the entries of the store that has been sealed.
Save ==
  /\ store # <<>> /\ ~fresh
  /\ sidecar' = [file |-> "saved", entries |-> Build]
  /\ fresh' = TRUE
  /\ UNCHANGED <<store, frames, stores>>

\* A crash in save: the old sidecar was truncated when it began.
SaveCutOff ==
  /\ store # <<>> /\ ~fresh
  /\ sidecar' = TornSidecar
  /\ UNCHANGED <<store, frames, fresh, stores>>

\* The store is removed and another capture is ingested in its place.
Replace ==
  /\ stores < MaxStores
  /\ stores' = stores + 1
  /\ store' = <<>> /\ frames' = 0 /\ fresh' = FALSE
  /\ UNCHANGED sidecar

PitNext ==
  \/ \E i \in Instruments, t \in 0 .. MaxTime : WriteFrame(i, t)
  \/ \E b \in PitBlocks : TearStore(b)
  \/ Save \/ SaveCutOff \/ Replace

PitSpec == PitInit /\ [][PitNext]_pitVars

-----------------------------------------------------------------------------
(* Properties *)

Times == 0 .. LastMono

\* Folding from the latest complete snapshot gives the book that folding
\* everything gives, at every time and for every instrument, and whenever the
\* book is synced there is one to fold from: with brackets that straddle
\* blocks or that a torn tail cut, and equal times on both sides of a block
\* edge.
PitIsTheBook ==
  store # <<>> =>
    \A i \in Instruments, t \in Times :
      LET latest == LatestAt(Build, i, t)
      IN  IF latest = <<>> THEN TrueBook(i, t).sync # "Synced"
          ELSE FoldBook(PitScan(latest[1], t)) = TrueBook(i, t)

TruePoints(i, start) ==
  {p \in {[t |-> t, book |-> TrueBook(i, t)] : t \in start .. LastMono} :
     p.book.sync = "Synced" /\ p.book.levels # <<>>}

\* A published series has every point the stream has and no other, whether
\* its sidecar was fresh, torn or missing; on the sidecar of another store
\* the export fails or shows nothing false.
ExportIsTrue ==
  store # <<>> =>
    \A i \in Instruments, start \in Times :
      LET series == Series(i, start)
      IN  IF fresh \/ sidecar.file # "saved"
          THEN series = [ok |-> TRUE, points |-> TruePoints(i, start)]
          ELSE series.points \subseteq TruePoints(i, start)
=============================================================================
