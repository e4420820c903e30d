---------------------------- MODULE StoreSegment ----------------------------
(***************************************************************************)
(* A store segment file, crates/store/src/segment.rs: the writer that cuts *)
(* appended events into blocks, the points at which it syncs them, what a  *)
(* crash may leave on disk, and the reader that indexes it by its footer   *)
(* or by a recovery scan.                                                  *)
(*                                                                         *)
(* A file is a sequence of pieces: the file header, two for every block    *)
(* (its header and its body), and two for the footer (the directory, which *)
(* an empty file lacks, and the trailer).  Offsets count pieces.  A piece  *)
(* the CRCs or magics would reject is Junk.  An event is its recv_mono_ns. *)
(***************************************************************************)
EXTENDS Integers, Sequences, SequencesExt

CONSTANTS
  SegmentBlock,    \* block_events
  MaxMono,        \* bound: the latest time
  MaxEvents       \* bound: events appended

ASSUME SegmentAssumption ==
  SegmentBlock \in Nat \ {0} /\ MaxMono \in Nat /\ MaxEvents \in Nat

VARIABLES
  stage,        \* what the process is doing
  pending,      \* the writer's pending events
  last,         \* its last_mono
  dir,          \* its directory, one entry per block
  written,      \* the pieces handed to the BufWriter
  synced,       \* how many of them an fsync covered
  disk,         \* the file after a crash
  appended,     \* history: the events accepted
  checkpointed       \* history: how many of them were before the last checkpoint

writer == <<pending, last, dir, written>>
storeVars == <<stage, writer, synced, disk, appended, checkpointed>>

FileHeader == [type |-> "file"]
Junk == [type |-> "junk", events |-> <<>>]
Block(events) == <<[type |-> "head", events |-> events], [type |-> "body", events |-> events]>>
Footer(entries, start) ==
  (IF entries = <<>> THEN <<>> ELSE <<[type |-> "dir", entries |-> entries]>>)
    \o <<[type |-> "trailer", start |-> start]>>

\* The events are in order: the first is the least, the last the greatest.
Entry(offset, events) ==
  [offset |-> offset, n |-> Len(events), min |-> Head(events), max |-> Last(events)]

-----------------------------------------------------------------------------
(* StoreWriter *)

StoreInit ==
  /\ stage = "writing"
  /\ pending = <<>> /\ last = 0 /\ dir = <<>>
  /\ written = <<FileHeader>>
  /\ synced = 0
  /\ disk = <<>>
  /\ appended = <<>>
  /\ checkpointed = 0

\* flush_block, when `events` are pending.
FlushBlock(events) ==
  IF events = <<>> THEN UNCHANGED <<pending, dir, written>>
  ELSE /\ dir' = Append(dir, Entry(Len(written), events))
       /\ written' = written \o Block(events)
       /\ pending' = <<>>

\* An event older than the last is rejected and changes nothing.
AppendEvent(mono) ==
  /\ stage = "writing" /\ Len(appended) < MaxEvents
  /\ mono >= last
  /\ last' = mono
  /\ appended' = Append(appended, mono)
  /\ IF Len(pending) + 1 >= SegmentBlock THEN FlushBlock(Append(pending, mono))
     ELSE pending' = Append(pending, mono) /\ UNCHANGED <<dir, written>>
  /\ UNCHANGED <<stage, synced, disk, checkpointed>>

\* Mutant: only the blocks already cut are synced.
CheckpointFullBlocks ==
  /\ stage = "writing"
  /\ stage' = "checkpoint"
  /\ UNCHANGED <<writer, synced, disk, appended, checkpointed>>

\* checkpoint, up to the fsync.
Checkpoint ==
  /\ stage = "writing"
  /\ stage' = "checkpoint"
  /\ FlushBlock(pending)
  /\ UNCHANGED <<last, synced, disk, appended, checkpointed>>

CheckpointSynced ==
  /\ stage = "checkpoint"
  /\ stage' = "writing"
  /\ synced' = Len(written)
  /\ checkpointed' = Len(appended)
  /\ UNCHANGED <<writer, disk, appended>>

\* seal, up to the fsync: it consumes the writer.
Seal ==
  /\ stage = "writing"
  /\ stage' = "sealing"
  /\ LET blocks == IF pending = <<>> THEN <<>> ELSE Block(pending)
         entries == IF pending = <<>> THEN dir
                    ELSE Append(dir, Entry(Len(written), pending))
     IN  /\ dir' = entries
         /\ written' = written \o blocks \o Footer(entries, Len(written \o blocks))
  /\ pending' = <<>>
  /\ UNCHANGED <<last, synced, disk, appended, checkpointed>>

SealSynced ==
  /\ stage = "sealing"
  /\ stage' = "sealed"
  /\ synced' = Len(written)
  /\ checkpointed' = Len(appended)
  /\ UNCHANGED <<writer, disk, appended>>

\* The process or the machine stops, or a write fails and the caller gives
\* up.  What was synced is on disk; of the rest a prefix, in which pages that
\* did not reach the disk are junk.
CrashStore ==
  /\ stage \in {"writing", "checkpoint", "sealing", "sealed"}
  /\ stage' = "crashed"
  /\ \E n \in synced .. Len(written) : \E lost \in SUBSET (synced + 1 .. n) :
       disk' = [i \in 1 .. n |-> IF i \in lost THEN Junk ELSE written[i]]
  /\ UNCHANGED <<writer, synced, appended, checkpointed>>

-----------------------------------------------------------------------------
(* StoreReader *)

\* A file without an intact header does not open.
Opens(d) == d # <<>> /\ d[1].type = "file"

\* try_read_footer: the directory, if the trailer and it are intact.
HasFooter(d) ==
  /\ d[Len(d)].type = "trailer"
  /\ LET start == d[Len(d)].start
     IN  \/ start = Len(d) - 1 /\ start = 1
         \/ start = Len(d) - 2 /\ d[start + 1].type = "dir"
Directory(d) ==
  LET start == d[Len(d)].start IN IF start = Len(d) - 1 THEN <<>> ELSE d[start + 1].entries

\* Mutant: the body's CRC is not checked.
BlockAtUnchecked(d, offset) ==
  offset + 2 <= Len(d) /\ d[offset + 1].type = "head"

\* Is there an intact block at the offset?
BlockAt(d, offset) ==
  offset + 2 <= Len(d) /\ d[offset + 1].type = "head" /\ d[offset + 2].type = "body"

\* The recovery scan: the blocks before the first torn or corrupt one.
ScannedBlocks(d) ==
  CHOOSE k \in 0 .. Len(d) \div 2 :
    /\ \A j \in 0 .. k - 1 : BlockAt(d, 2 * j + 1)
    /\ ~BlockAt(d, 2 * k + 1)

Blocks(d) ==
  IF HasFooter(d) THEN Directory(d)
  ELSE [j \in 1 .. ScannedBlocks(d) |-> Entry(2 * j - 1, d[2 * j].events)]

\* Mutant: the header of the torn block is kept.
ValidPiecesPlusOne(d) == 2 * ScannedBlocks(d) + 2

\* Torn::valid_bytes of a file without a footer.
ValidPieces(d) == 2 * ScannedBlocks(d) + 1
Torn(d) == ~HasFooter(d) /\ Len(d) > 2 * ScannedBlocks(d) + 1

\* decode_block of every entry in turn, up to the first that fails.
Decoded(d, entries) ==
  {j \in DOMAIN entries : \A i \in 1 .. j : BlockAt(d, entries[i].offset)}
EventsOf(d, entries) ==
  FlattenSeq([j \in Decoded(d, entries) |-> d[entries[j].offset + 2].events])

\* scan: the events it visits, and whether it visits them all.
Scan(d) == EventsOf(d, Blocks(d))
ScanFails(d) == Decoded(d, Blocks(d)) # DOMAIN Blocks(d)

\* Mutant: the search starts at the first block that begins in the range.
FirstBlockByMin(entries, lo) ==
  CHOOSE k \in 1 .. Len(entries) + 1 :
    /\ \A j \in 1 .. k - 1 : entries[j].min < lo
    /\ k <= Len(entries) => entries[k].min >= lo

\* The partition point of scan_mono_range: the first block that may hold an
\* event at lo or later.
FirstBlock(entries, lo) ==
  CHOOSE k \in 1 .. Len(entries) + 1 :
    /\ \A j \in 1 .. k - 1 : entries[j].max < lo
    /\ k <= Len(entries) => entries[k].max >= lo

\* The events in the range, in order.
Within(events, lo, hi) ==
  FlattenSeq([i \in DOMAIN events |->
                IF lo <= events[i] /\ events[i] <= hi THEN <<events[i]>> ELSE <<>>])

\* The events of a block are not looked at one by one if it lies in the range.
Yielded(entry, events, lo, hi) ==
  IF entry.min >= lo /\ entry.max <= hi THEN events ELSE Within(events, lo, hi)

ScanMonoRange(d, lo, hi) ==
  LET from == FirstBlock(Blocks(d), lo)
      reached == SubSeq(Blocks(d), from, Len(Blocks(d)))
      stop == {j \in DOMAIN reached : reached[j].min > hi}
      visited == IF stop = {} THEN reached
                 ELSE SubSeq(reached, 1, (CHOOSE j \in stop : \A i \in stop : j <= i) - 1)
  IN  FlattenSeq([j \in Decoded(d, visited) |->
                    Yielded(visited[j], d[visited[j].offset + 2].events, lo, hi)])

\* Where the blocks of the index end: at the footer, or at the torn tail.
DataEnd(d) == IF HasFooter(d) THEN d[Len(d)].start ELSE ValidPieces(d)

\* verify: every block decodes, the directory says of it what its header
\* says, the blocks lie end to end up to the data end, and the times never go
\* back.  A torn tail is not an error.
Verified(d) ==
  LET entries == Blocks(d)
      events == Scan(d)
  IN  /\ ~ScanFails(d)
      /\ \A j \in DOMAIN entries :
           /\ entries[j] = Entry(entries[j].offset, d[entries[j].offset + 2].events)
           /\ entries[j].offset + 2 =
                IF j = Len(entries) THEN DataEnd(d) ELSE entries[j + 1].offset
      /\ \A i \in 2 .. Len(events) : events[i - 1] <= events[i]

\* recover_truncate: a torn tail is cut off.
Recover ==
  /\ stage = "crashed" /\ Opens(disk)
  /\ stage' = "recovered"
  /\ disk' = IF Torn(disk) THEN SubSeq(disk, 1, ValidPieces(disk)) ELSE disk
  /\ UNCHANGED <<writer, synced, appended, checkpointed>>

StoreNext ==
  \/ \E mono \in 0 .. MaxMono : AppendEvent(mono)
  \/ Checkpoint \/ CheckpointSynced \/ Seal \/ SealSynced
  \/ CrashStore \/ Recover

StoreSpec == StoreInit /\ [][StoreNext]_storeVars

-----------------------------------------------------------------------------
(* Properties *)

Down == stage \in {"crashed", "recovered"}

\* Everything appended before a checkpoint or a seal returned is read back
\* after any crash, before and after recovery, whatever the crash left of the
\* footer and of the later blocks.
DurableSurvives ==
  Down => IF Opens(disk) THEN Len(Scan(disk)) >= checkpointed ELSE checkpointed = 0

\* The reader never yields an event that was not appended, nor skips one:
\* what it yields is a prefix of what was appended, also when a later block
\* or the footer reached the disk and an earlier one did not.
NothingInvented == Down /\ Opens(disk) => IsPrefix(Scan(disk), appended)

\* A range scan yields exactly the events of the full scan in the range, with
\* equal times at block edges, after any crash that leaves the file readable.
RangeScanIsFilter ==
  Down /\ Opens(disk) /\ ~ScanFails(disk) =>
    \A lo, hi \in 0 .. MaxMono :
      lo <= hi => ScanMonoRange(disk, lo, hi) = Within(Scan(disk), lo, hi)

\* Recovery loses nothing that could be read, a recovered file without a
\* footer is not torn and passes verify, and verify finds fault with one that
\* has a footer exactly when a scan of it would fail.
RecoveredReadsClean ==
  [][stage' = "recovered" =>
       /\ Scan(disk') = Scan(disk)
       /\ Verified(disk') = ~ScanFails(disk')
       /\ ~HasFooter(disk') => ~Torn(disk') /\ Verified(disk')]_storeVars
=============================================================================
