------------------------------ MODULE DepthSync -----------------------------
(***************************************************************************)
(* How a Binance book is kept in step with the venue: the depth state      *)
(* machine of crates/feed/src/binance.rs, the part of conn.rs that gives   *)
(* it frames and REST snapshots and acts on its signals, and the book of   *)
(* crates/lob that applies the events it emits.  One instrument.           *)
(*                                                                         *)
(* The venue numbers its updates 1, 2, ...; update k sets one level to the *)
(* quantity k, or removes it if it is there.  A depth frame (U, u)         *)
(* carries, absolutely, every level touched by the updates U..u as it      *)
(* stands at u; a REST snapshot carries the whole book at its lastUpdateId.*)
(* The frames of one connection arrive in order, but the venue may leave   *)
(* some out, and a snapshot may be older than the frames received.         *)
(*                                                                         *)
(* The level events of one message form one batch: they concern distinct   *)
(* levels.  Events reach the book at once, as replay applies them.         *)
(***************************************************************************)
EXTENDS Integers, Sequences, Book

CONSTANTS
  Levels,           \* price levels (a side and a price)
  Refresh,          \* does the plan refetch periodically (refresh_every)?
  TradesMaySkip,    \* may the venue's trade ids jump?
  MaxUpdates, MaxTrades, MaxSessions, MaxFailures, MaxWire    \* bounds

ASSUME DepthAssumption ==
  /\ Refresh \in BOOLEAN /\ TradesMaySkip \in BOOLEAN
  /\ {MaxUpdates, MaxTrades, MaxSessions, MaxFailures, MaxWire} \subseteq Nat

VARIABLES
  books,        \* venue: books[n + 1] is its book after update n
  touched,      \* venue: the level update n touched
  sent,         \* venue: last update this connection's frames reached
  traded,       \* venue: last trade id
  wire,         \* frames on the way, in order
  up,           \* is a session established?
  codec,        \* the codec's depth state and trade baseline
  anchored,     \* has this session's codec accepted a snapshot?
  book,         \* the book that applies the codec's events
  due,          \* the REST target's deadline: none, the next periodic
                \* refresh, or soon (at once or after a backoff)
  rest,         \* the fetch in progress, and the id of its answer
  sessions, failures    \* counters of the bounds

venueVars == <<books, touched, sent, traded>>
clientVars == <<codec, anchored, book, due, rest>>
vars == <<books, touched, sent, traded, wire, up, codec, anchored, book, due,
          rest, sessions, failures>>

Qty == 0 .. MaxUpdates       \* 0: the level is absent
Empty == [l \in Levels |-> 0]
Made == Len(touched)
VenueBook(n) == books[n + 1]

\* No id: update and trade ids are positive.
NoId == 0
NoFetch == [state |-> "none", id |-> NoId]

\* BinanceCodec::new: unsynced, no trade seen.
FreshCodec == [state |-> "Unsynced", high |-> NoId, last |-> NoId, trade |-> NoId]

\* The levels a frame (U, u) carries: those the updates U..u touched.
Touched(U, u) == {touched[k] : k \in U .. u}

Init ==
  /\ books = <<Empty>>
  /\ touched = <<>>
  /\ sent = 0
  /\ traded = 0
  /\ wire = <<>>
  /\ up = FALSE
  /\ codec = FreshCodec
  /\ anchored = FALSE
  /\ book = [sync |-> "Unsynced", levels |-> Empty]
  /\ due = "none"
  /\ rest = NoFetch
  /\ sessions = 0
  /\ failures = 0

-----------------------------------------------------------------------------
(* The venue. *)

VenueUpdate(l) ==
  /\ Made < MaxUpdates
  /\ \E q \in {Made + 1} \cup (IF VenueBook(Made)[l] = 0 THEN {} ELSE {0}) :
       books' = Append(books, [VenueBook(Made) EXCEPT ![l] = q])
  /\ touched' = Append(touched, l)
  /\ UNCHANGED <<sent, traded, wire, up, clientVars, sessions, failures>>

\* A frame covers every update since the last one.
VenueSend ==
  /\ up /\ sent < Made /\ Len(wire) < MaxWire
  /\ wire' = Append(wire, [type |-> "depth", first |-> sent + 1, final |-> Made])
  /\ sent' = Made
  /\ UNCHANGED <<books, touched, traded, up, clientVars, sessions, failures>>

\* The venue drops a frame.
VenueOmit ==
  /\ up /\ sent < Made
  /\ sent' = Made
  /\ UNCHANGED <<books, touched, traded, wire, up, clientVars, sessions, failures>>

VenueTrade ==
  /\ up /\ Len(wire) < MaxWire
  /\ \E id \in {traded + 1} \cup (IF TradesMaySkip THEN {traded + 2} ELSE {}) :
       /\ id <= MaxTrades
       /\ traded' = id
       /\ wire' = Append(wire, [type |-> "trade", first |-> id, final |-> id])
  /\ UNCHANGED <<books, touched, sent, up, clientVars, sessions, failures>>

\* The REST endpoint answers with its book at n, possibly an old one, or
\* does not answer.
RestAnswer(n) ==
  /\ rest.state = "asked"
  /\ n \in 0 .. Made
  /\ rest' = [state |-> "answered", id |-> n]
  /\ UNCHANGED <<venueVars, wire, up, codec, anchored, book, due, sessions, failures>>

RestFail ==
  /\ rest.state = "asked" /\ failures < MaxFailures
  /\ rest' = [rest EXCEPT !.state = "failed"]
  /\ failures' = failures + 1
  /\ UNCHANGED <<venueVars, wire, up, codec, anchored, book, due, sessions>>

-----------------------------------------------------------------------------
(* The book's view of a batch of the codec's events. *)

\* levels is a function on the levels the batch sets.
Overlay(old, new) == [l \in Levels |-> IF l \in DOMAIN new THEN new[l] ELSE old[l]]
Apply(b, kind, new) == ApplyCommon(b, kind, Overlay(b.levels, new), Empty)
Nothing == [l \in {} |-> 0]

ApplySets(b, new) == Apply(b, "Set", new)
ApplyGap(b) == Apply(b, "Gap", Nothing)
\* Clear, SnapBegin, the levels, SnapEnd, in this order.
ApplySnapshot(b, new) ==
  LET cleared == Apply(b, "Clear", Nothing)
      begun == Apply(cleared, "SnapBegin", Nothing)
      filled == Apply(begun, "SnapLevel", new)
  IN  Apply(filled, "SnapEnd", Nothing)

-----------------------------------------------------------------------------
(* The codec and the session loop.  While fetch_rest awaits the response   *)
(* no frame is read.                                                       *)

Reading == up /\ rest.state = "none"

\* A new session: a fresh codec, a new subscription, and (on_connect) the
\* REST target due at once.  The book is not told.
Connect ==
  /\ ~up /\ sessions < MaxSessions
  /\ up' = TRUE
  /\ sessions' = sessions + 1
  /\ codec' = FreshCodec
  /\ anchored' = FALSE
  /\ due' = "soon"
  /\ sent' = Made
  /\ wire' = <<>>
  /\ UNCHANGED <<books, touched, traded, book, rest, failures>>

\* The socket closes or goes idle, or the venue advises to reconnect.
Disconnect ==
  /\ Reading
  /\ up' = FALSE
  /\ wire' = <<>>
  /\ UNCHANGED <<venueVars, clientVars, sessions, failures>>

Frame(type) == Reading /\ wire # <<>> /\ wire[1].type = type

\* finish_depth while unsynced: the events are dropped, the mark is raised.
DepthUnsynced ==
  /\ Frame("depth") /\ codec.state = "Unsynced"
  /\ LET u == wire[1].final
     IN  codec' = [codec EXCEPT !.high = IF @ >= u THEN @ ELSE u]
  /\ wire' = Tail(wire)
  /\ UNCHANGED <<venueVars, up, anchored, book, due, rest, sessions, failures>>

\* finish_depth, u <= last_u: a stale duplicate.
DepthStale ==
  /\ Frame("depth") /\ codec.state = "Synced"
  /\ wire[1].final <= codec.last
  /\ wire' = Tail(wire)
  /\ UNCHANGED <<venueVars, up, clientVars, sessions, failures>>

\* Mutant: the Gap event is not emitted.
DepthGapSilent ==
  /\ Frame("depth") /\ codec.state = "Synced"
  /\ wire[1].final > codec.last
  /\ wire[1].first > codec.last + 1
  /\ codec' = [codec EXCEPT !.state = "Unsynced", !.high = wire[1].final, !.last = NoId]
  /\ due' = "soon"
  /\ wire' = Tail(wire)
  /\ UNCHANGED <<venueVars, up, anchored, book, rest, sessions, failures>>

\* finish_depth, U > last_u + 1: one Gap event instead of the levels, and
\* NeedResync, on which the session makes the REST target due now.
DepthGap ==
  /\ Frame("depth") /\ codec.state = "Synced"
  /\ wire[1].final > codec.last
  /\ wire[1].first > codec.last + 1
  /\ codec' = [codec EXCEPT !.state = "Unsynced", !.high = wire[1].final, !.last = NoId]
  /\ book' = ApplyGap(book)
  /\ due' = "soon"
  /\ wire' = Tail(wire)
  /\ UNCHANGED <<venueVars, up, anchored, rest, sessions, failures>>

\* Mutant: a diff that starts one update too late still applies.
DepthApplyLate ==
  /\ Frame("depth") /\ codec.state = "Synced"
  /\ wire[1].final > codec.last
  /\ wire[1].first <= codec.last + 2
  /\ LET U == wire[1].first
         u == wire[1].final
     IN  /\ codec' = [codec EXCEPT !.last = u]
         /\ book' = ApplySets(book, [l \in Touched(U, u) |-> VenueBook(u)[l]])
  /\ wire' = Tail(wire)
  /\ UNCHANGED <<venueVars, up, anchored, due, rest, sessions, failures>>

\* finish_depth, U <= last_u + 1 <= u: the diff applies.
DepthApply ==
  /\ Frame("depth") /\ codec.state = "Synced"
  /\ wire[1].final > codec.last
  /\ wire[1].first <= codec.last + 1
  /\ LET U == wire[1].first
         u == wire[1].final
     IN  /\ codec' = [codec EXCEPT !.last = u]
         /\ book' = ApplySets(book, [l \in Touched(U, u) |-> VenueBook(u)[l]])
  /\ wire' = Tail(wire)
  /\ UNCHANGED <<venueVars, up, anchored, due, rest, sessions, failures>>

\* finish_trade: a jump of the trade id emits a Gap before the Trade and
\* asks for nothing.
TradeFrame ==
  /\ Frame("trade")
  /\ LET id == wire[1].final
     IN  /\ codec' = [codec EXCEPT !.trade = id]
         /\ book' = IF codec.trade # NoId /\ id > codec.trade + 1
                    THEN ApplyGap(book) ELSE book
  /\ wire' = Tail(wire)
  /\ UNCHANGED <<venueVars, up, anchored, due, rest, sessions, failures>>

\* The REST arm of the session loop fires: the request is sent.
FetchRest ==
  /\ Reading /\ due # "none"
  /\ rest' = [rest EXCEPT !.state = "asked"]
  /\ UNCHANGED <<venueVars, wire, up, codec, anchored, book, due, sessions, failures>>

\* Mutant: the failed target is not rescheduled.
FetchFailedForgets ==
  /\ rest.state = "failed"
  /\ rest' = NoFetch
  /\ due' = "none"
  /\ UNCHANGED <<venueVars, wire, up, codec, anchored, book, sessions, failures>>

\* A failed request: rescheduled with backoff.
FetchFailed ==
  /\ rest.state = "failed"
  /\ rest' = NoFetch
  /\ due' = "soon"
  /\ UNCHANGED <<venueVars, wire, up, codec, anchored, book, sessions, failures>>

Answered == rest.state = "answered"
\* Mutant: a snapshot one update short of the dropped frames passes.
PredatesByTwo(n) == codec.state = "Unsynced" /\ n + 1 < codec.high
Predates(n) == codec.state = "Unsynced" /\ n < codec.high

\* Mutant: a refused snapshot counts as the periodic refresh.
SnapshotRefusedWaits ==
  /\ Answered /\ Predates(rest.id)
  /\ rest' = NoFetch
  /\ due' = "refresh"
  /\ UNCHANGED <<venueVars, wire, up, codec, anchored, book, sessions, failures>>

\* snapshot_inner: the snapshot predates the frames seen while unsynced.  It
\* is refused and refetched.
SnapshotRefused ==
  /\ Answered /\ Predates(rest.id)
  /\ rest' = NoFetch
  /\ due' = "soon"
  /\ UNCHANGED <<venueVars, wire, up, codec, anchored, book, sessions, failures>>

\* snapshot_inner: the snapshot anchors the codec, also a synced one.
SnapshotAnchors ==
  /\ Answered /\ ~Predates(rest.id)
  /\ codec' = [codec EXCEPT !.state = "Synced", !.last = rest.id, !.high = NoId]
  /\ anchored' = TRUE
  /\ book' = ApplySnapshot(book,
       [l \in {m \in Levels : VenueBook(rest.id)[m] # 0} |-> VenueBook(rest.id)[l]])
  /\ rest' = NoFetch
  /\ due' = IF Refresh THEN "refresh" ELSE "none"
  /\ UNCHANGED <<venueVars, wire, up, sessions, failures>>

-----------------------------------------------------------------------------
Venue ==
  \/ \E l \in Levels : VenueUpdate(l)
  \/ VenueSend \/ VenueOmit \/ VenueTrade
  \/ \E n \in 0 .. MaxUpdates : RestAnswer(n)
  \/ RestFail

ReadFrame == DepthUnsynced \/ DepthStale \/ DepthGap \/ DepthApply \/ TradeFrame
FinishFetch == FetchFailed \/ SnapshotRefused \/ SnapshotAnchors
Client == Connect \/ Disconnect \/ ReadFrame \/ FetchRest \/ FinishFetch

Next == Venue \/ Client

Spec == Init /\ [][Next]_vars

\* run_venue reconnects for ever and the session loop polls all its arms;
\* the endpoint answers every request, and with a snapshot at least as new
\* as the frames sent infinitely often if it is asked infinitely often.
FairSpec ==
  /\ Spec
  /\ WF_vars(Connect) /\ WF_vars(ReadFrame) /\ SF_vars(FetchRest)
  /\ WF_vars(FinishFetch)
  /\ WF_vars(\E n \in 0 .. MaxUpdates : RestAnswer(n))
  /\ SF_vars(RestAnswer(Made))

-----------------------------------------------------------------------------
(* Properties *)

Frames == [type : {"depth", "trade"}, first : Nat, final : Nat]

\* The types of the venue's, the client's and the book's state.
TypeOK ==
  /\ books \in Seq([Levels -> Nat]) /\ touched \in Seq(Levels)
  /\ Len(books) = Len(touched) + 1
  /\ sent \in 0 .. Made /\ traded \in Nat
  /\ wire \in Seq(Frames)
  /\ up \in BOOLEAN /\ anchored \in BOOLEAN /\ due \in {"none", "refresh", "soon"}
  /\ codec \in [state : {"Unsynced", "Synced"}, high : Nat, last : Nat, trade : Nat]
  /\ book \in [sync : SyncStates, levels : [Levels -> Nat]]
  /\ rest \in [state : {"none", "asked", "failed", "answered"}, id : 0 .. Made]
  /\ sessions \in Nat /\ failures \in Nat

\* A synced book is the venue's book at the codec's last_u: no diff is ever
\* applied across a gap, twice, or on a snapshot it does not reach, whatever
\* frames the venue leaves out and however old the snapshots are.
BookIsVenueBook ==
  codec.state = "Synced" /\ book.sync = "Synced" =>
    book.levels = VenueBook(codec.last)

\* Once a session has anchored, the book is never synced while the codec is
\* not: a sequence gap takes the book out of service with it.
GapUnsyncsBook ==
  anchored /\ codec.state = "Unsynced" => book.sync # "Synced"

\* A snapshot that ends an unsynced period covers every frame that was
\* dropped in it: no update is silently skipped between the two.
AnchorCoversDropped ==
  [][codec.state = "Unsynced" /\ codec'.state = "Synced" =>
       codec'.last >= codec.high]_vars

\* An unsynced codec has a fetch due soon or under way for as long as it is
\* unsynced: no failed, stale or concurrent fetch loses the request for a
\* resync or leaves it to the next periodic refresh.
ResyncIsPending ==
  up /\ codec.state = "Unsynced" => due = "soon" \/ rest.state # "none"

\* Frames stop being dropped: once the venue has made its updates and the
\* connection stays, the codec ends up synced for good.
EventuallySynced == <>[](up) => <>[](codec.state = "Synced")

\* The trade Gap is "advisory only and never demands a resync": it should
\* leave a synced book in step with its codec.
TradeGapIsAdvisory ==
  anchored /\ codec.state = "Synced" => book.sync = "Synced"
=============================================================================
