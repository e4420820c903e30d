---------------------------- MODULE CoinbaseSync ----------------------------
(***************************************************************************)
(* How a Coinbase book is kept in step: the codec of                       *)
(* crates/feed/src/coinbase.rs and the part of conn.rs that acts on its    *)
(* signals.  An l2update has no sequence number, so the only evidence of a *)
(* lost one is a hole in the trade ids, seen in a match or a heartbeat, on *)
(* which the book is fetched again; besides, every book is fetched again   *)
(* periodically (refresh_every).                                           *)
(*                                                                         *)
(* Matches may be lost or overtake each other; l2updates may be lost.  The *)
(* REST endpoint answers with its book at a moment of the request: the     *)
(* codec compares a snapshot with nothing it has received.                 *)
(***************************************************************************)
EXTENDS FeedChannel

CONSTANT MaxFailures        \* bound: failed requests

VARIABLES
  base,         \* last_trade: the last trade id seen, 0 for none
  unsent,       \* venue: trades whose match is yet to be sent, if it ever is
  due,          \* the REST target's deadline
  rest,         \* the fetch in progress: the update the venue was at when asked
  failures,     \* counter of the bound
  seed,         \* history: the id that set the baseline of this session
  counted,      \* history: how often the session counted an id, as the match
                \* that raised the baseline to it or as one a Gap missed
  gapped        \* history: did a Gap come after the session's last snapshot?

codecHistory == <<seed, counted, gapped>>
codecVars == <<base, codecHistory>>
restVars == <<due, rest, failures>>
coinbaseVars == <<codecVars, unsent, restVars>>

TradeIds == 1 .. MaxTrades["coinbase"]
NoTrade == 0
NoFetch == -1
Uncounted == [id \in TradeIds |-> 0]

CoinbaseInit ==
  /\ base = NoTrade /\ unsent = {}
  /\ due = "none" /\ rest = NoFetch /\ failures = 0
  /\ seed = NoTrade /\ counted = Uncounted /\ gapped = FALSE

-----------------------------------------------------------------------------
(* The venue *)

Trade ==
  /\ up /\ traded < MaxTrades[feed]
  /\ traded' = traded + 1
  /\ unsent' = unsent \cup {traded + 1}
  /\ UNCHANGED <<feed, books, touched, sent, wire, up, book, lostTo, mended,
                 sessions, codecVars, restVars>>

SendMatch(id) ==
  /\ CanSend /\ id \in unsent
  /\ wire' = Append(wire, Message("match", id))
  /\ unsent' = unsent \ {id}
  /\ UNCHANGED <<venueVars, up, book, lostTo, mended, sessions, codecVars, restVars>>

SendHeartbeat ==
  /\ CanSend
  /\ wire' = Append(wire, Message("heartbeat", traded))
  /\ UNCHANGED <<venueVars, up, book, lostTo, mended, sessions, coinbaseVars>>

-----------------------------------------------------------------------------
(* The codec *)

\* Mutant: a straggler lowers the baseline.
NoteTradeAny(id) == base' = id /\ seed' = IF base = NoTrade THEN id ELSE seed

\* note_trade: the first (last_)match sets the baseline, others only raise it.
NoteTrade(id) ==
  /\ base' = IF id > base THEN id ELSE base
  /\ seed' = IF base = NoTrade THEN id ELSE seed

\* The ids a match counts as missed.
MatchMissed(id) == IF base # NoTrade THEN base + 1 .. id - 1 ELSE {}

\* note_heartbeat: a no-op before the first match.
NoteHeartbeat(id) == base' = IF base # NoTrade /\ id > base THEN id ELSE base

HeartbeatMissed(id) == IF base # NoTrade THEN base + 1 .. id ELSE {}

Count(ids) ==
  counted' = [id \in TradeIds |-> IF id \in ids THEN counted[id] + 1 ELSE counted[id]]

\* Mutant: the Gap is emitted and no resync asked for.
EmitUnsignalled(missed) ==
  IF missed = {} THEN TakeFrame(book) /\ UNCHANGED <<gapped, due>>
  ELSE TakeFrame(ApplyGap(book)) /\ gapped' = TRUE /\ due' = due

\* emit_match and emit_heartbeat: one Gap event for the ids missed, if any.
\* It takes the book out of service, and on NeedResync the session makes the
\* REST target due at once.
Emit(missed) ==
  IF missed = {} THEN TakeFrame(book) /\ UNCHANGED <<gapped, due>>
  ELSE TakeFrame(ApplyGap(book)) /\ gapped' = TRUE /\ due' = "soon"

\* While fetch_rest awaits the answer no frame is read.
Reading(type) == Front1(type) /\ rest = NoFetch

ReadSnapshot ==
  /\ Reading("snapshot")
  /\ TakeFrame(ApplySnapshot(book, After(Empty, wire[1])))
  /\ gapped' = FALSE
  /\ UNCHANGED <<base, seed, counted, unsent, restVars>>

ReadL2update ==
  /\ Reading("update")
  /\ TakeFrame(ApplyUpdate(book, wire[1]))
  /\ UNCHANGED coinbaseVars

\* match is checked for a gap, last_match is not.
ReadMatch ==
  /\ Reading("match")
  /\ LET id == wire[1].final
     IN  /\ Emit(MatchMissed(id))
         /\ NoteTrade(id)
         /\ Count(MatchMissed(id) \cup (IF base # NoTrade /\ id > base THEN {id} ELSE {}))
  /\ UNCHANGED <<unsent, rest, failures>>

ReadLastMatch ==
  /\ Reading("last_match")
  /\ TakeFrame(book)
  /\ NoteTrade(wire[1].final)
  /\ UNCHANGED <<counted, gapped, unsent, restVars>>

ReadHeartbeat ==
  /\ Reading("heartbeat")
  /\ Emit(HeartbeatMissed(wire[1].final))
  /\ NoteHeartbeat(wire[1].final)
  /\ Count(HeartbeatMissed(wire[1].final))
  /\ UNCHANGED <<seed, unsent, rest, failures>>

DropCoinbase == rest = NoFetch /\ DropFrame /\ UNCHANGED coinbaseVars

-----------------------------------------------------------------------------
(* The session *)

\* A session with a fresh codec, the first refresh a period away.  The venue
\* greets it with a snapshot and the last match.
ConnectCoinbase ==
  /\ LET last == Message("last_match", traded)
     IN  Subscribe(<<SnapshotFrame, last>>) \/ Subscribe(<<last, SnapshotFrame>>)
  /\ base' = NoTrade
  /\ unsent' = {}
  /\ due' = "refresh"
  /\ seed' = NoTrade /\ counted' = Uncounted /\ gapped' = FALSE
  /\ UNCHANGED <<rest, failures>>

DisconnectCoinbase == rest = NoFetch /\ Hangup /\ UNCHANGED coinbaseVars

FetchRest ==
  /\ up /\ rest = NoFetch /\ due # "none"
  /\ rest' = Made
  /\ UNCHANGED <<channelVars, codecVars, unsent, due, failures>>

\* No answer, or an error status: tried again after a backoff.
FetchFailed ==
  /\ rest # NoFetch /\ failures < MaxFailures
  /\ failures' = failures + 1
  /\ rest' = NoFetch
  /\ due' = "soon"
  /\ UNCHANGED <<channelVars, codecVars, unsent>>

\* Mutant: the target is not scheduled again.
FetchedOnce(n) ==
  /\ rest # NoFetch /\ n \in rest .. Made
  /\ book' = ApplySnapshot(book, VenueBook(n))
  /\ mended' = IF n <= Reached THEN n ELSE Reached
  /\ gapped' = FALSE
  /\ rest' = NoFetch
  /\ due' = "none"
  /\ UNCHANGED <<venueVars, wire, up, lostTo, sessions, base, seed, counted, unsent, failures>>

\* The venue answers with its book at n; rest_inner replaces the book whatever
\* its state.
Fetched(n) ==
  /\ rest # NoFetch /\ n \in rest .. Made
  /\ book' = ApplySnapshot(book, VenueBook(n))
  /\ mended' = IF n <= Reached THEN n ELSE Reached
  /\ gapped' = FALSE
  /\ rest' = NoFetch
  /\ due' = "refresh"
  /\ UNCHANGED <<venueVars, wire, up, lostTo, sessions, base, seed, counted, unsent, failures>>

-----------------------------------------------------------------------------
ReadCoinbase ==
  ReadSnapshot \/ ReadL2update \/ ReadMatch \/ ReadLastMatch \/ ReadHeartbeat

CoinbaseNext ==
  \/ \E l \in Levels : VenueUpdate(l) /\ UNCHANGED coinbaseVars
  \/ VenueSend /\ UNCHANGED coinbaseVars
  \/ VenueOmit /\ UNCHANGED coinbaseVars
  \/ Trade
  \/ \E id \in TradeIds : SendMatch(id)
  \/ SendHeartbeat
  \/ ConnectCoinbase \/ DisconnectCoinbase
  \/ ReadCoinbase \/ DropCoinbase
  \/ FetchRest \/ FetchFailed \/ (\E n \in 0 .. MaxUpdates[feed] : Fetched(n))

-----------------------------------------------------------------------------
(* Properties *)

\* A hole in the trade ids is "reported (and a resync requested) exactly
\* once": every id the baseline has passed since it was set is accounted for
\* by one match or one Gap event and no more, and no other is, however
\* matches, stragglers and heartbeats follow each other.
GapReportedOnce ==
  \A id \in TradeIds : counted[id] = IF seed < id /\ id <= base THEN 1 ELSE 0

\* After a Gap a fetch is due at once or under way until a snapshot has come:
\* no failure and no fetch that was already under way loses the request.
GapResyncPending ==
  feed = "coinbase" /\ up /\ gapped => due = "soon" \/ rest # NoFetch
=============================================================================
