---------------------------- MODULE FeedChannel -----------------------------
(***************************************************************************)
(* What the Coinbase and the Kraken feed have in common: a venue whose     *)
(* book messages carry no sequence number, the WebSocket that brings them, *)
(* and the book that applies the codec's events.  One instrument, one side *)
(* of the book.                                                            *)
(*                                                                         *)
(* The venue numbers its updates 1, 2, ..., for us only; update k sets one *)
(* price to the quantity k, or removes it.  A subscription shows the best  *)
(* Cap prices; a frame first..final lists what the updates first..final    *)
(* change in that view, in order.  A price pushed out of the view by a     *)
(* better one is not listed: the client is to drop it by itself.           *)
(***************************************************************************)
EXTENDS Integers, Sequences, SequencesExt, FiniteSets, Book

CONSTANTS
  Prices,       \* prices 1..Prices, the best first
  Depth,        \* the depth of Kraken's subscription
  MaxUpdates, MaxPrice, MaxTrades, MaxSessions,     \* bounds, per feed
  MaxWire       \* bound, per feed: frames on the way

ASSUME ChannelAssumption ==
  /\ {Prices, Depth} \subseteq Nat \ {0}
  /\ {MaxUpdates, MaxPrice, MaxTrades, MaxSessions, MaxWire} \subseteq [{"coinbase", "kraken"} -> Nat]

VARIABLES
  feed,         \* the venue this run is about
  books,        \* venue: books[n + 1] is its book after update n
  touched,      \* venue: the price update n touched
  sent,         \* venue: last update this connection's frames reached
  traded,       \* venue: last trade id
  wire,         \* frames on the way, in order
  up,           \* is a session established?
  book,         \* the book that applies the events
  lostTo,       \* history: the last update in a frame that was lost
  mended,       \* history: losses up to this update a snapshot has made good
  sessions      \* counter of the bound

venueVars == <<feed, books, touched, sent, traded>>
channelVars == <<venueVars, wire, up, book, lostTo, mended, sessions>>

Levels == 1 .. Prices
Empty == [l \in Levels |-> 0]       \* 0: no quantity at the price
Made == Len(touched)
VenueBook(n) == books[n + 1]
Present(levels) == {l \in Levels : levels[l] # 0}

-----------------------------------------------------------------------------
(* Views and frames *)

\* Kraken books are kept at the subscribed depth, the others whole.
Cap == IF feed = "kraken" THEN Depth ELSE Prices

Best(levels, n) ==
  {l \in Present(levels) : Cardinality({m \in Present(levels) : m < l}) < n}

\* Mutant: the book keeps what is pushed beyond the depth.
Uncapped(levels) == levels

Capped(levels) == [l \in Levels |-> IF l \in Best(levels, Cap) THEN levels[l] ELSE 0]

\* What a subscriber is shown of the venue's book after update n.
View(n) ==
  [l \in Levels |-> IF l \in Best(VenueBook(n), Cap) THEN VenueBook(n)[l] ELSE 0]

\* What update k changes in the view: its price, then the price that moves
\* into the view in its place.
Changes(k) ==
  LET new == View(k)
      old == View(k - 1)
      l == touched[k]
      entering == Present(new) \ (Present(old) \cup {l})
      change(m) == [level |-> m, qty |-> new[m]]
  IN  (IF new[l] # old[l] THEN <<change(l)>> ELSE <<>>)
        \o [i \in 1 .. Cardinality(entering) |-> change(CHOOSE m \in entering : TRUE)]

FrameOf(type, first, final, body) ==
  [type |-> type, first |-> first, final |-> final, body |-> body]
Message(type, id) == FrameOf(type, id, id, <<>>)
\* The body is a list of changes per update; a snapshot lists all levels.
UpdateFrame(first, final) ==
  FrameOf("update", first, final, [i \in 1 .. final + 1 - first |-> Changes(first + i - 1)])
SnapshotFrame ==
  LET view == View(Made)
  IN  FrameOf("snapshot", Made, Made,
              <<SetToSeq({[level |-> l, qty |-> view[l]] : l \in Present(view)})>>)

\* set_level of one change event: the level is set or removed and the side
\* cut to its depth.
SetLevel(levels, c) == Capped([levels EXCEPT ![c.level] = c.qty])

\* The changes of one update, and of all of a frame, in order.
SetLevels(levels, changes) ==
  LET after[n \in 0 .. Len(changes)] ==
        IF n = 0 THEN levels ELSE SetLevel(after[n - 1], changes[n])
  IN  after[Len(changes)]

SetBody(levels, body) ==
  LET after[n \in 0 .. Len(body)] ==
        IF n = 0 THEN levels ELSE SetLevels(after[n - 1], body[n])
  IN  after[Len(body)]

\* The levels of a synced book after frame f.
After(levels, f) ==
  CASE f.type = "snapshot" -> SetBody(Empty, f.body)
    [] f.type = "update" -> SetBody(levels, f.body)
    [] OTHER -> levels

-----------------------------------------------------------------------------
(* The book's view of the events of a frame *)

Cleared(b) == ApplyCommon(b, "Clear", Empty, Empty)

\* Clear, SnapBegin, the levels, SnapEnd.
ApplySnapshot(b, levels) ==
  LET begun == ApplyCommon(Cleared(b), "SnapBegin", Empty, Empty)
      filled == ApplyCommon(begun, "SnapLevel", levels, Empty)
  IN  ApplyCommon(filled, "SnapEnd", Empty, Empty)

ApplyUpdate(b, f) == ApplyCommon(b, "Set", After(b.levels, f), Empty)
ApplyGap(b) == ApplyCommon(b, "Gap", Empty, Empty)

-----------------------------------------------------------------------------
(* The venue and the connection *)

ChannelInit ==
  /\ books = <<Empty>> /\ touched = <<>>
  /\ sent = 0 /\ traded = 1       \* the venue has traded before
  /\ wire = <<>> /\ up = FALSE
  /\ book = [sync |-> "Unsynced", levels |-> Empty]
  /\ lostTo = 0 /\ mended = 0
  /\ sessions = 0

VenueUpdate(l) ==
  /\ Made < MaxUpdates[feed] /\ l <= MaxPrice[feed]
  /\ \E q \in {Made + 1} \cup (IF VenueBook(Made)[l] = 0 THEN {} ELSE {0}) :
       books' = Append(books, [VenueBook(Made) EXCEPT ![l] = q])
  /\ touched' = Append(touched, l)
  /\ UNCHANGED <<feed, sent, traded, wire, up, book, lostTo, mended, sessions>>

CanSend == up /\ Len(wire) < MaxWire[feed]

\* A frame covers every update since the last one.
VenueSend ==
  /\ CanSend /\ sent < Made
  /\ wire' = Append(wire, UpdateFrame(sent + 1, Made))
  /\ sent' = Made
  /\ UNCHANGED <<feed, books, touched, traded, up, book, lostTo, mended, sessions>>

\* The venue drops the frame.
VenueOmit ==
  /\ up /\ sent < Made
  /\ sent' = Made
  /\ lostTo' = Made
  /\ UNCHANGED <<feed, books, touched, traded, wire, up, book, mended, sessions>>

\* run_venue connects and subscribes: `greeting` is what the venue sends
\* first.  The book is not told.
Subscribe(greeting) ==
  /\ ~up /\ sessions < MaxSessions[feed]
  /\ up' = TRUE
  /\ sessions' = sessions + 1
  /\ sent' = Made
  /\ wire' = greeting
  /\ UNCHANGED <<feed, books, touched, traded, book, lostTo, mended>>

\* The socket closes or goes idle.
Hangup ==
  /\ up
  /\ up' = FALSE
  /\ wire' = <<>>
  /\ UNCHANGED <<venueVars, book, lostTo, mended, sessions>>

\* The updates whose frames are no longer on the way.
Reached ==
  LET ahead == {i \in DOMAIN wire : wire[i].type = "update"}
  IN  IF ahead = {} THEN sent ELSE wire[CHOOSE i \in ahead : \A j \in ahead : i <= j].first - 1

Front1(type) == up /\ wire # <<>> /\ wire[1].type = type

\* process_payload drops a frame neither path can parse, or with a number or
\* a symbol it does not know, whole and without a signal.
DropFrame ==
  /\ up /\ wire # <<>>
  /\ wire' = Tail(wire)
  /\ lostTo' = IF wire[1].type \in {"snapshot", "update"} /\ lostTo < wire[1].final
               THEN wire[1].final ELSE lostTo
  /\ UNCHANGED <<venueVars, up, book, mended, sessions>>

\* The next frame parses and the book becomes b.
TakeFrame(b) ==
  /\ wire' = Tail(wire)
  /\ book' = b
  /\ mended' = IF wire[1].type = "snapshot" THEN wire[1].final ELSE mended
  /\ UNCHANGED <<venueVars, up, lostTo, sessions>>

-----------------------------------------------------------------------------
(* Properties *)

\* Losses that are made good once the snapshots on the way are applied.
Mended ==
  LET snapshots == {i \in DOMAIN wire : wire[i].type = "snapshot"}
  IN  IF snapshots = {} THEN mended
      ELSE wire[CHOOSE i \in snapshots : \A j \in snapshots : j <= i].final

\* The levels of a synced book after all the frames.
AfterAll(levels, frames) ==
  LET after[n \in 0 .. Len(frames)] ==
        IF n = 0 THEN levels ELSE After(after[n - 1], frames[n])
  IN  after[Len(frames)]

\* A synced book that lost no book frame since its last snapshot has all it
\* needs on the way: what is left to send and to read turns it into the view
\* of the venue, whether a snapshot was fetched among older frames, a session began
\* on the book of the last one, or levels moved in and out of the subscribed
\* depth.
InStep ==
  up /\ book.sync = "Synced" /\ lostTo <= Mended =>
    AfterAll(book.levels, Append(wire, UpdateFrame(sent + 1, Made))) = View(Made)
=============================================================================
