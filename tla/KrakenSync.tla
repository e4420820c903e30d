----------------------------- MODULE KrakenSync -----------------------------
(***************************************************************************)
(* How a Kraken book is kept and checked: the stateless codec of           *)
(* crates/feed/src/kraken.rs, and the check of the venue's checksum that   *)
(* replay makes after every book message (verify_kraken_crc of             *)
(* crates/replay/src/run.rs).  There is no REST plan and the codec never   *)
(* asks for a resync.  CRC32 is taken to tell any two tops apart.          *)
(***************************************************************************)
EXTENDS FeedChannel

CONSTANT TopLevels      \* the levels the checksum covers: 10, of a depth of 100

ASSUME KrakenAssumption == TopLevels \in Nat /\ TopLevels <= Depth

VARIABLES
  lastCheck       \* the last check since the snapshot: none, ok, mismatch

krakenVars == <<lastCheck>>

KrakenInit == lastCheck = "none"

\* kraken_book_crc32 of the best levels, as what it hashes.
Checksum(levels) == [l \in Best(levels, TopLevels) |-> levels[l]]

\* Mutant: the checksum is compared before the levels are applied.
CompareEarly(b, f) ==
  IF book.sync # "Synced" THEN lastCheck
  ELSE IF Checksum(book.levels) = Checksum(VenueBook(f.final)) THEN "ok" ELSE "mismatch"

\* verify_kraken_crc of book b on the checksum of frame f; an unsynced book
\* is skipped.
Compare(b, f) ==
  IF b.sync # "Synced" THEN lastCheck
  ELSE IF Checksum(b.levels) = Checksum(VenueBook(f.final)) THEN "ok" ELSE "mismatch"

-----------------------------------------------------------------------------
TradeKraken ==
  /\ CanSend /\ traded < MaxTrades[feed]
  /\ traded' = traded + 1
  /\ wire' = Append(wire, Message("trade", traded + 1))
  /\ UNCHANGED <<feed, books, touched, sent, up, book, lostTo, mended, sessions, krakenVars>>

ConnectKraken ==
  Subscribe(<<SnapshotFrame>>) /\ UNCHANGED krakenVars

\* The bracket of the snapshot, SnapEnd with the checksum.
ReadBookSnapshot ==
  /\ Front1("snapshot")
  /\ \E b \in {ApplySnapshot(book, After(Empty, wire[1]))} :
       TakeFrame(b) /\ lastCheck' = Compare(b, wire[1])

\* The changes, then the Checksum event.
ReadBookUpdate ==
  /\ Front1("update")
  /\ \E b \in {ApplyUpdate(book, wire[1])} :
       TakeFrame(b) /\ lastCheck' = Compare(b, wire[1])

\* Trades concern neither the book nor the checksum.
ReadTrade == Front1("trade") /\ TakeFrame(book) /\ UNCHANGED krakenVars

KrakenNext ==
  \/ \E l \in Levels : VenueUpdate(l) /\ UNCHANGED krakenVars
  \/ VenueSend /\ UNCHANGED krakenVars
  \/ VenueOmit /\ UNCHANGED krakenVars
  \/ TradeKraken
  \/ ConnectKraken
  \/ Hangup /\ UNCHANGED krakenVars
  \/ ReadBookSnapshot \/ ReadBookUpdate \/ ReadTrade
  \/ DropFrame /\ UNCHANGED krakenVars

-----------------------------------------------------------------------------
(* Properties *)

\* The oracle raises no false alarm: a mismatch means that a book frame was
\* lost since the snapshot the book stands on.
MismatchIsLoss == lastCheck = "mismatch" => lostTo > mended

=============================================================================
