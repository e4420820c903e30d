--------------------------- MODULE FeedSyncProofs ---------------------------
(***************************************************************************)
(* Proofs about the feeds of FeedSync, for any number of prices, updates,  *)
(* trades, sessions and frames on the way.                                 *)
(*                                                                         *)
(* The first part is about the codec of Coinbase: every trade id that was  *)
(* missed is reported once, and a reported gap keeps a fetch pending.      *)
(* The second is about the books of both feeds: a book that lost nothing   *)
(* has all it needs on the way, and the checksum raises no false alarm.    *)
(* It goes from the best n of a set of prices to the changes of an update, *)
(* to the frames of many, to the frames on the way, to the steps.          *)
(***************************************************************************)
EXTENDS FeedSync, FiniteSetTheorems, SequenceTheorems, WellFoundedInduction, TLAPS

\* The types of what the proof speaks about.
FeedTypeOK ==
  /\ feed \in {"coinbase", "kraken"}
  /\ base \in Nat /\ seed \in Nat
  /\ counted \in [TradeIds -> Nat]
  /\ traded \in Nat /\ unsent \subseteq Nat
  /\ touched \in Seq(Levels)

\* The session's baseline was raised from `seed`, if there is one.
SeedBelowBase == seed <= base /\ (base = NoTrade => seed = NoTrade)

\* The wire is a sequence.
WireIsSeq == \E S : wire \in Seq(S)

Counting == {"match", "last_match", "heartbeat"}

\* Messages about trades carry a number.
WireNumbered == \A i \in 1 .. Len(wire) : wire[i].type \in Counting => wire[i].final \in Nat

\* A last_match is on the way only before the session has a baseline, and no
\* match is on the way before it.
LastMatchFirst ==
  \A i \in 1 .. Len(wire) : wire[i].type = "last_match" =>
    base = NoTrade /\ \A j \in 1 .. i - 1 : wire[j].type \notin {"match", "last_match"}

WireOK == WireIsSeq /\ (feed = "coinbase" => WireNumbered /\ LastMatchFirst)

FeedInv == FeedTypeOK /\ SeedBelowBase /\ WireOK /\ GapReportedOnce /\ GapResyncPending

-----------------------------------------------------------------------------
LEMMA FeedInitInv == Init => FeedInv
<1> SUFFICES ASSUME Init PROVE FeedInv
  OBVIOUS
<1>1. FeedTypeOK
  <2>1. counted \in [TradeIds -> Nat]
    BY DEF Init, CoinbaseInit, Uncounted
  <2>2. touched \in Seq(Levels) /\ traded \in Nat /\ unsent \subseteq Nat
    BY DEF Init, CoinbaseInit, ChannelInit
  <2> QED BY <2>1, <2>2 DEF Init, CoinbaseInit, FeedTypeOK, NoTrade
<1>2. SeedBelowBase
  BY DEF Init, CoinbaseInit, SeedBelowBase, NoTrade
<1>3. WireOK
  <2>1. wire = <<>>
    BY DEF Init, ChannelInit
  <2>2. WireIsSeq
    BY <2>1, <<>> \in Seq({}) DEF WireIsSeq
  <2> QED BY <2>1, <2>2 DEF WireOK, WireNumbered, LastMatchFirst
<1>4. GapReportedOnce
  BY DEF Init, CoinbaseInit, GapReportedOnce, Uncounted, NoTrade, TradeIds
<1>5. GapResyncPending
  BY DEF Init, ChannelInit, CoinbaseInit, GapResyncPending
<1> QED BY <1>1, <1>2, <1>3, <1>4, <1>5 DEF FeedInv

-----------------------------------------------------------------------------
(* What becomes of the wire *)

\* Taking the first message off.
LEMMA WireTail ==
  ASSUME WireIsSeq, wire # <<>>, wire' = Tail(wire)
  PROVE  /\ WireIsSeq'
         /\ Len(wire) \in Nat /\ Len(wire') = Len(wire) - 1
         /\ \A i \in 1 .. Len(wire') : i + 1 \in 1 .. Len(wire) /\ wire'[i] = wire[i + 1]
<1> PICK S : wire \in Seq(S)
  BY DEF WireIsSeq
<1>1. wire' \in Seq(S)
  OBVIOUS
<1> QED BY <1>1 DEF WireIsSeq

\* Putting a message behind the others.
LEMMA WireAppend ==
  ASSUME WireIsSeq, NEW f, wire' = Append(wire, f)
  PROVE  /\ WireIsSeq'
         /\ Len(wire) \in Nat /\ Len(wire') = Len(wire) + 1
         /\ \A i \in 1 .. Len(wire) : wire'[i] = wire[i]
         /\ wire'[Len(wire) + 1] = f
<1> PICK S : wire \in Seq(S)
  BY DEF WireIsSeq
<1>1. wire \in Seq(S \cup {f})
  OBVIOUS
<1>2. wire' \in Seq(S \cup {f})
  BY <1>1
<1> QED BY <1>1, <1>2 DEF WireIsSeq

\* A step that takes the first message off keeps WireOK if it sets a baseline
\* only on a match or a last_match.
LEMMA TakenWireOK ==
  ASSUME WireOK, wire # <<>>, wire' = Tail(wire), feed' = feed,
         base' = base \/ wire[1].type \in {"match", "last_match"}
  PROVE  WireOK'
<1>1. WireIsSeq /\ WireIsSeq'
  BY WireTail DEF WireOK
<1>2. /\ Len(wire) \in Nat /\ Len(wire') = Len(wire) - 1
      /\ \A i \in 1 .. Len(wire') : i + 1 \in 1 .. Len(wire) /\ wire'[i] = wire[i + 1]
  BY <1>1, WireTail
<1>3. ASSUME feed = "coinbase" PROVE WireNumbered'
  BY <1>2, <1>3 DEF WireOK, WireNumbered
<1>4. ASSUME feed = "coinbase" PROVE LastMatchFirst'
  <2> SUFFICES ASSUME NEW i \in 1 .. Len(wire'), wire'[i].type = "last_match"
               PROVE  base' = NoTrade /\ \A j \in 1 .. i - 1 : wire'[j].type \notin {"match", "last_match"}
    BY DEF LastMatchFirst
  <2>1. /\ i + 1 \in 1 .. Len(wire) /\ wire[i + 1].type = "last_match"
        /\ 1 \in 1 .. (i + 1) - 1
    BY <1>2
  <2>2. /\ base = NoTrade
        /\ \A j \in 1 .. (i + 1) - 1 : wire[j].type \notin {"match", "last_match"}
    BY <1>4, <2>1 DEF WireOK, LastMatchFirst
  <2>3. base' = NoTrade
    BY <2>1, <2>2
  <2>4. ASSUME NEW j \in 1 .. i - 1
        PROVE  wire'[j] = wire[j + 1] /\ j + 1 \in 1 .. (i + 1) - 1
    BY <1>2
  <2> QED BY <2>2, <2>3, <2>4
<1> QED BY <1>1, <1>3, <1>4 DEF WireOK

\* A step that sends something but a last_match keeps it.
LEMMA SentWireOK ==
  ASSUME WireOK, NEW f, wire' = Append(wire, f), feed' = feed, base' = base,
         f.type # "last_match", f.type \in Counting => f.final \in Nat
  PROVE  WireOK'
<1>1. /\ WireIsSeq /\ WireIsSeq'
      /\ Len(wire) \in Nat /\ Len(wire') = Len(wire) + 1
      /\ \A i \in 1 .. Len(wire) : wire'[i] = wire[i]
      /\ wire'[Len(wire) + 1] = f
  BY WireAppend DEF WireOK
<1>2. ASSUME feed = "coinbase" PROVE WireNumbered'
  BY <1>1, <1>2 DEF WireOK, WireNumbered
<1>3. ASSUME feed = "coinbase" PROVE LastMatchFirst'
  <2> SUFFICES ASSUME NEW i \in 1 .. Len(wire'), wire'[i].type = "last_match"
               PROVE  base' = NoTrade /\ \A j \in 1 .. i - 1 : wire'[j].type \notin {"match", "last_match"}
    BY DEF LastMatchFirst
  <2>1. i \in 1 .. Len(wire) /\ wire[i].type = "last_match"
    BY <1>1
  <2>2. \A j \in 1 .. i - 1 : j \in 1 .. Len(wire)
    BY <1>1, <2>1
  <2> QED BY <1>1, <1>3, <2>1, <2>2 DEF WireOK, LastMatchFirst
<1> QED BY <1>1, <1>2, <1>3 DEF WireOK

LEMMA SameWireOK ==
  ASSUME WireOK, UNCHANGED <<wire, feed, base>>
  PROVE  WireOK'
BY DEF WireOK, WireIsSeq, WireNumbered, LastMatchFirst

-----------------------------------------------------------------------------
(* The steps of the venue and of the connection *)

\* The venue's book moves: nothing the codec has seen changes.
LEMMA UpdateStep ==
  ASSUME FeedInv, NEW l \in Levels, VenueUpdate(l), UNCHANGED coinbaseVars
  PROVE  FeedInv'
<1>1. FeedTypeOK'
  BY DEF FeedInv, FeedTypeOK, VenueUpdate, coinbaseVars, codecVars, codecHistory
<1>2. WireOK'
  BY SameWireOK DEF FeedInv, VenueUpdate, coinbaseVars, codecVars
<1>3. SeedBelowBase' /\ GapReportedOnce' /\ GapResyncPending'
  BY DEF FeedInv, SeedBelowBase, GapReportedOnce, GapResyncPending, VenueUpdate, coinbaseVars,
         codecVars, codecHistory, restVars
<1> QED BY <1>1, <1>2, <1>3 DEF FeedInv

\* A frame is sent or left out.
LEMMA SendStep ==
  ASSUME FeedInv, VenueSend \/ VenueOmit, UNCHANGED coinbaseVars
  PROVE  FeedInv'
<1>1. UNCHANGED <<feed, touched, traded, up>>
  BY DEF VenueSend, VenueOmit
<1>2. FeedTypeOK' /\ SeedBelowBase' /\ GapReportedOnce' /\ GapResyncPending'
  BY <1>1 DEF FeedInv, FeedTypeOK, SeedBelowBase, GapReportedOnce, GapResyncPending, coinbaseVars,
              codecVars, codecHistory, restVars
<1>3. CASE VenueSend
  <2> DEFINE f == UpdateFrame(sent + 1, Made)
  <2>1. wire' = Append(wire, f)
    BY <1>3 DEF VenueSend
  <2>2. f.type = "update"
    BY DEF UpdateFrame, FrameOf
  <2> HIDE DEF f
  <2>3. WireOK'
    BY <1>1, <2>1, <2>2, SentWireOK DEF FeedInv, coinbaseVars, codecVars, Counting
  <2> QED BY <1>2, <2>3 DEF FeedInv
<1>4. CASE VenueOmit
  BY <1>1, <1>2, <1>4, SameWireOK DEF FeedInv, VenueOmit, coinbaseVars, codecVars
<1> QED BY <1>3, <1>4

LEMMA TradeStep ==
  ASSUME FeedInv, Trade
  PROVE  FeedInv'
<1>1. FeedTypeOK'
  BY DEF FeedInv, FeedTypeOK, Trade, codecVars, codecHistory
<1>2. WireOK'
  BY SameWireOK DEF FeedInv, Trade, codecVars
<1>3. SeedBelowBase' /\ GapReportedOnce' /\ GapResyncPending'
  BY DEF FeedInv, SeedBelowBase, GapReportedOnce, GapResyncPending, Trade, codecVars, codecHistory,
         restVars
<1> QED BY <1>1, <1>2, <1>3 DEF FeedInv

\* A match or a heartbeat is sent.
LEMMA MessageStep ==
  ASSUME FeedInv, NEW type \in {"match", "heartbeat"}, NEW id \in Nat,
         wire' = Append(wire, Message(type, id)), unsent' \subseteq unsent,
         UNCHANGED <<feed, touched, traded, up, codecVars, restVars>>
  PROVE  FeedInv'
<1>1. FeedTypeOK' /\ SeedBelowBase' /\ GapReportedOnce' /\ GapResyncPending'
  BY DEF FeedInv, FeedTypeOK, SeedBelowBase, GapReportedOnce, GapResyncPending, codecVars,
         codecHistory, restVars
<1> DEFINE f == Message(type, id)
<1>2. f.type = type /\ f.final = id
  BY DEF Message, FrameOf
<1> HIDE DEF f
<1>3. wire' = Append(wire, f)
  BY DEF f
<1>4. WireOK'
  BY <1>2, <1>3, SentWireOK DEF FeedInv, codecVars
<1> QED BY <1>1, <1>4 DEF FeedInv

\* A new session: a fresh codec, and one last_match ahead of any match.
LEMMA ConnectStep ==
  ASSUME FeedInv, ConnectCoinbase
  PROVE  FeedInv'
<1> DEFINE last == Message("last_match", traded)
           shown == SnapshotFrame
<1>1. /\ last.type = "last_match" /\ last.final = traded
      /\ shown.type = "snapshot"
  BY DEF Message, SnapshotFrame, FrameOf
<1>2. wire' = <<shown, last>> \/ wire' = <<last, shown>>
  BY DEF ConnectCoinbase, Subscribe
<1>3. /\ UNCHANGED <<feed, touched, traded>>
      /\ base' = NoTrade /\ seed' = NoTrade /\ counted' = Uncounted /\ unsent' = {}
      /\ gapped' = FALSE
  BY DEF ConnectCoinbase, Subscribe
<1> HIDE DEF last, shown
<1>4. FeedTypeOK'
  <2>1. Uncounted \in [TradeIds -> Nat]
    BY DEF Uncounted
  <2> QED BY <1>3, <2>1 DEF FeedInv, FeedTypeOK, NoTrade
<1>5. WireOK'
  <2>1. wire' \in Seq({shown, last}) /\ Len(wire') = 2
    <3>1. CASE wire' = <<shown, last>>
      BY <3>1
    <3>2. CASE wire' = <<last, shown>>
      BY <3>2
    <3> QED BY <1>2, <3>1, <3>2
  <2>2. \A i \in 1 .. 2 : wire'[i] = shown \/ wire'[i] = last
    BY <1>2
  <2>3. WireIsSeq'
    BY <2>1 DEF WireIsSeq
  <2>4. WireNumbered'
    BY <1>1, <1>3, <2>1, <2>2 DEF WireNumbered, Counting, FeedInv, FeedTypeOK
  <2>5. LastMatchFirst'
    <3>1. \A i \in 1 .. 2 : \A j \in 1 .. i - 1 : i = 2 /\ j = 1
      OBVIOUS
    <3>2. wire'[2].type = "last_match" => wire'[1].type = "snapshot"
      BY <1>1, <1>2
    <3> QED BY <1>3, <2>1, <3>1, <3>2 DEF LastMatchFirst
  <2> QED BY <2>3, <2>4, <2>5 DEF WireOK
<1>6. SeedBelowBase' /\ GapReportedOnce' /\ GapResyncPending'
  BY <1>3 DEF SeedBelowBase, GapReportedOnce, GapResyncPending, Uncounted, NoTrade, TradeIds
<1> QED BY <1>4, <1>5, <1>6 DEF FeedInv

LEMMA DisconnectStep ==
  ASSUME FeedInv, DisconnectCoinbase
  PROVE  FeedInv'
<1>1. /\ wire' = <<>> /\ ~up'
      /\ UNCHANGED <<feed, touched, traded, coinbaseVars>>
  BY DEF DisconnectCoinbase, Hangup, venueVars
<1>2. WireOK'
  <2>1. WireIsSeq'
    BY <1>1, <<>> \in Seq({}) DEF WireIsSeq
  <2> QED BY <1>1, <2>1 DEF WireOK, WireNumbered, LastMatchFirst
<1>3. FeedTypeOK' /\ SeedBelowBase' /\ GapReportedOnce' /\ GapResyncPending'
  BY <1>1 DEF FeedInv, FeedTypeOK, SeedBelowBase, GapReportedOnce, GapResyncPending, coinbaseVars,
              codecVars, codecHistory
<1> QED BY <1>2, <1>3 DEF FeedInv

\* The request: failed ones are due again, and only an answer ends a gap.
LEMMA RestStep ==
  ASSUME FeedInv, FetchRest \/ FetchFailed \/ \E n \in 0 .. MaxUpdates[feed] : Fetched(n)
  PROVE  FeedInv'
<1>1. UNCHANGED <<feed, touched, traded, wire, up, base, seed, counted, unsent>>
  BY DEF FetchRest, FetchFailed, Fetched, channelVars, venueVars, codecVars, codecHistory
<1>2. Made # NoFetch
  BY DEF Made, NoFetch, FeedInv, FeedTypeOK
<1>3. GapResyncPending'
  BY <1>1, <1>2 DEF FeedInv, GapResyncPending, FetchRest, FetchFailed, Fetched, channelVars,
                    codecVars, codecHistory
<1>4. FeedTypeOK' /\ SeedBelowBase' /\ GapReportedOnce' /\ WireOK'
  BY <1>1, SameWireOK DEF FeedInv, FeedTypeOK, SeedBelowBase, GapReportedOnce
<1> QED BY <1>3, <1>4 DEF FeedInv

-----------------------------------------------------------------------------
(* The steps of the codec *)

\* The first message is of the type, and if it is about trades it has a number
\* and a last_match finds no baseline.
LEMMA FirstMessage ==
  ASSUME FeedInv, feed = "coinbase", NEW type, Front1(type)
  PROVE  /\ wire # <<>> /\ wire[1].type = type
         /\ type \in Counting => wire[1].final \in Nat
         /\ type = "last_match" => base = NoTrade
<1>1. wire # <<>> /\ wire[1].type = type
  BY DEF Front1
<1>2. 1 \in 1 .. Len(wire)
  <2> PICK S : wire \in Seq(S)
    BY DEF FeedInv, WireOK, WireIsSeq
  <2> QED BY <1>1
<1> QED BY <1>1, <1>2 DEF FeedInv, WireOK, WireNumbered, LastMatchFirst

\* A message that is counted: the baseline and the counts move together.
LEMMA CountedStep ==
  ASSUME FeedInv, NEW id \in Nat, NEW ids,
         base' \in Nat, base' >= base,
         ids = IF base = NoTrade THEN {} ELSE base + 1 .. base',
         seed' = IF base = NoTrade THEN base' ELSE seed,
         Count(ids)
  PROVE  /\ base' \in Nat /\ seed' \in Nat /\ counted' \in [TradeIds -> Nat]
         /\ SeedBelowBase' /\ GapReportedOnce'
<1>1. base \in Nat /\ seed \in Nat /\ counted \in [TradeIds -> Nat] /\ seed <= base
  BY DEF FeedInv, FeedTypeOK, SeedBelowBase
<1>2. counted' = [k \in TradeIds |-> IF k \in ids THEN counted[k] + 1 ELSE counted[k]]
  BY DEF Count
<1>3. TradeIds \subseteq Nat
  BY DEF TradeIds
<1>4. \A k \in TradeIds : counted[k] = IF seed < k /\ k <= base THEN 1 ELSE 0
  BY DEF FeedInv, GapReportedOnce
<1>5. seed' \in Nat /\ SeedBelowBase'
  BY <1>1 DEF FeedInv, SeedBelowBase, NoTrade
<1>6. counted' \in [TradeIds -> Nat]
  BY <1>1, <1>2
<1>7. GapReportedOnce'
  <2> SUFFICES ASSUME NEW k \in TradeIds
               PROVE  counted'[k] = IF seed' < k /\ k <= base' THEN 1 ELSE 0
    BY DEF GapReportedOnce
  <2>1. k \in Nat /\ counted'[k] = IF k \in ids THEN counted[k] + 1 ELSE counted[k]
    BY <1>2, <1>3
  <2>2. CASE base = NoTrade
    <3>1. seed' = base' /\ ids = {} /\ seed = base
      BY <1>1, <2>2 DEF FeedInv, SeedBelowBase, NoTrade
    <3> QED BY <1>1, <1>4, <2>1, <3>1
  <2>3. CASE base # NoTrade
    <3>1. seed' = seed /\ (k \in ids <=> base < k /\ k <= base')
      BY <1>1, <2>1, <2>3
    <3> QED BY <1>1, <1>4, <2>1, <3>1
  <2> QED BY <2>2, <2>3
<1> QED BY <1>5, <1>6, <1>7

\* A Gap makes the target due at once.
LEMMA EmitGap ==
  ASSUME FeedInv, NEW missed, Emit(missed), rest' = rest
  PROVE  /\ wire' = Tail(wire) /\ UNCHANGED <<feed, touched, traded, up>>
         /\ GapResyncPending'
BY DEF FeedInv, GapResyncPending, Emit, TakeFrame, venueVars

LEMMA MatchStep ==
  ASSUME FeedInv, feed = "coinbase", ReadMatch
  PROVE  FeedInv'
<1> DEFINE id == wire[1].final
<1>1. /\ Front1("match") /\ Emit(MatchMissed(id)) /\ NoteTrade(id)
      /\ Count(MatchMissed(id) \cup (IF base # NoTrade /\ id > base THEN {id} ELSE {}))
      /\ UNCHANGED <<unsent, rest, failures>>
  BY DEF ReadMatch, Reading
<1>2. wire # <<>> /\ wire[1].type = "match" /\ id \in Nat
  BY <1>1, FirstMessage DEF Counting
<1>3. /\ wire' = Tail(wire) /\ UNCHANGED <<feed, touched, traded, up>>
      /\ GapResyncPending'
  BY <1>1, EmitGap
<1> HIDE DEF id
<1>4. base \in Nat
  BY DEF FeedInv, FeedTypeOK
<1>5. /\ base' \in Nat /\ base' >= base
      /\ seed' = IF base = NoTrade THEN base' ELSE seed
  BY <1>1, <1>2, <1>4 DEF NoteTrade, NoTrade
<1>6. MatchMissed(id) \cup (IF base # NoTrade /\ id > base THEN {id} ELSE {})
        = IF base = NoTrade THEN {} ELSE base + 1 .. base'
  BY <1>1, <1>2, <1>4 DEF NoteTrade, MatchMissed, NoTrade
<1>7. /\ base' \in Nat /\ seed' \in Nat /\ counted' \in [TradeIds -> Nat]
      /\ SeedBelowBase' /\ GapReportedOnce'
  BY <1>1, <1>2, <1>5, <1>6, CountedStep
<1>8. WireOK'
  BY <1>2, <1>3, TakenWireOK DEF FeedInv
<1> QED BY <1>1, <1>3, <1>7, <1>8 DEF FeedInv, FeedTypeOK

\* The last_match is the first message to set the baseline.
LEMMA LastMatchStep ==
  ASSUME FeedInv, feed = "coinbase", ReadLastMatch
  PROVE  FeedInv'
<1>1. /\ Front1("last_match") /\ NoteTrade(wire[1].final)
      /\ wire' = Tail(wire) /\ UNCHANGED <<feed, touched, traded, up, counted, gapped, unsent, due, rest>>
  BY DEF ReadLastMatch, Reading, TakeFrame, venueVars, restVars
<1>2. wire # <<>> /\ wire[1].type = "last_match" /\ wire[1].final \in Nat /\ base = NoTrade
  BY <1>1, FirstMessage DEF Counting
<1>3. base' = seed' /\ base' \in Nat /\ seed = base
  BY <1>1, <1>2 DEF NoteTrade, NoTrade, FeedInv, SeedBelowBase
<1>4. WireOK'
  BY <1>1, <1>2, TakenWireOK DEF FeedInv
<1>5. GapReportedOnce'
  <2>1. \A k \in TradeIds : k \in Nat /\ counted[k] = 0
    BY <1>2, <1>3 DEF FeedInv, GapReportedOnce, TradeIds, NoTrade
  <2> QED BY <1>1, <1>3, <2>1 DEF GapReportedOnce
<1>6. FeedTypeOK' /\ SeedBelowBase' /\ GapResyncPending'
  BY <1>1, <1>3 DEF FeedInv, FeedTypeOK, SeedBelowBase, GapResyncPending
<1> QED BY <1>4, <1>5, <1>6 DEF FeedInv

LEMMA HeartbeatStep ==
  ASSUME FeedInv, feed = "coinbase", ReadHeartbeat
  PROVE  FeedInv'
<1> DEFINE id == wire[1].final
<1>1. /\ Front1("heartbeat") /\ Emit(HeartbeatMissed(id)) /\ NoteHeartbeat(id)
      /\ Count(HeartbeatMissed(id))
      /\ UNCHANGED <<seed, unsent, rest, failures>>
  BY DEF ReadHeartbeat, Reading
<1>2. wire # <<>> /\ wire[1].type = "heartbeat" /\ id \in Nat
  BY <1>1, FirstMessage DEF Counting
<1>3. /\ wire' = Tail(wire) /\ UNCHANGED <<feed, touched, traded, up>>
      /\ GapResyncPending'
  BY <1>1, EmitGap
<1> HIDE DEF id
<1>4. base \in Nat /\ (base = NoTrade => seed = NoTrade)
  BY DEF FeedInv, FeedTypeOK, SeedBelowBase
<1>5. /\ base' \in Nat /\ base' >= base
      /\ seed' = IF base = NoTrade THEN base' ELSE seed
      /\ base = NoTrade => base' = base
  BY <1>1, <1>2, <1>4 DEF NoteHeartbeat, NoTrade
<1>6. HeartbeatMissed(id) = IF base = NoTrade THEN {} ELSE base + 1 .. base'
  BY <1>1, <1>2, <1>4 DEF NoteHeartbeat, HeartbeatMissed, NoTrade
<1>7. /\ base' \in Nat /\ seed' \in Nat /\ counted' \in [TradeIds -> Nat]
      /\ SeedBelowBase' /\ GapReportedOnce'
  BY <1>1, <1>2, <1>5, <1>6, CountedStep
<1>8. WireOK'
  <2>1. CASE base' = base
    BY <1>2, <1>3, <2>1, TakenWireOK DEF FeedInv
  <2>2. CASE base' # base
    <3>1. base # NoTrade
      BY <1>5, <2>2
    <3>2. WireIsSeq /\ WireIsSeq'
      BY <1>2, <1>3, WireTail DEF FeedInv, WireOK
    <3>3. /\ \A i \in 1 .. Len(wire) : wire[i].type # "last_match"
          /\ WireNumbered
      BY <3>1 DEF FeedInv, WireOK, LastMatchFirst
    <3>4. \A i \in 1 .. Len(wire') : i + 1 \in 1 .. Len(wire) /\ wire'[i] = wire[i + 1]
      BY <1>2, <1>3, <3>2, WireTail
    <3> QED BY <3>2, <3>3, <3>4 DEF WireOK, WireNumbered, LastMatchFirst
  <2> QED BY <2>1, <2>2
<1> QED BY <1>1, <1>3, <1>7, <1>8 DEF FeedInv, FeedTypeOK

\* A snapshot, an update or a dropped frame: no baseline and no count moves.
LEMMA BookStep ==
  ASSUME FeedInv, ReadSnapshot \/ ReadL2update \/ DropCoinbase
  PROVE  FeedInv'
<1>1. /\ wire # <<>> /\ wire' = Tail(wire)
      /\ UNCHANGED <<feed, touched, traded, up, base, seed, counted, unsent, due, rest>>
      /\ gapped' \in {gapped, FALSE}
  BY DEF ReadSnapshot, ReadL2update, DropCoinbase, DropFrame, TakeFrame, Reading, Front1, venueVars,
         coinbaseVars, codecVars, codecHistory, restVars
<1>2. WireOK'
  BY <1>1, TakenWireOK DEF FeedInv
<1>3. FeedTypeOK'
  BY <1>1 DEF FeedInv, FeedTypeOK
<1>4. SeedBelowBase' /\ GapReportedOnce'
  BY <1>1 DEF FeedInv, SeedBelowBase, GapReportedOnce
<1>5. GapResyncPending'
  <2>1. CASE gapped' = FALSE
    BY <2>1 DEF GapResyncPending
  <2>2. CASE gapped' = gapped
    BY <1>1, <2>2 DEF FeedInv, GapResyncPending
  <2> QED BY <1>1, <2>1, <2>2
<1> QED BY <1>2, <1>3, <1>4, <1>5 DEF FeedInv

-----------------------------------------------------------------------------
LEMMA CoinbaseStep ==
  ASSUME FeedInv, feed = "coinbase", CoinbaseNext
  PROVE  FeedInv'
<1>1. CASE \E l \in Levels : VenueUpdate(l) /\ UNCHANGED coinbaseVars
  BY <1>1, UpdateStep
<1>2. CASE (VenueSend \/ VenueOmit) /\ UNCHANGED coinbaseVars
  BY <1>2, SendStep
<1>3. CASE \E id \in TradeIds : SendMatch(id)
  <2> PICK id \in TradeIds : SendMatch(id)
    BY <1>3
  <2>1. id \in Nat
    BY DEF TradeIds
  <2> QED BY <2>1, MessageStep DEF SendMatch, venueVars
<1>4. CASE SendHeartbeat
  <2>1. traded \in Nat
    BY DEF FeedInv, FeedTypeOK
  <2> QED BY <1>4, <2>1, MessageStep DEF SendHeartbeat, venueVars, coinbaseVars
<1>5. CASE ReadCoinbase \/ DropCoinbase
  BY <1>5, BookStep, MatchStep, LastMatchStep, HeartbeatStep DEF ReadCoinbase
<1>6. CASE FetchRest \/ FetchFailed \/ \E n \in 0 .. MaxUpdates[feed] : Fetched(n)
  BY <1>6, RestStep
<1> QED
  BY <1>1, <1>2, <1>3, <1>4, <1>5, <1>6, TradeStep, ConnectStep, DisconnectStep DEF CoinbaseNext

\* A Kraken feed moves the shared wire and the venue, never what the codec of
\* Coinbase keeps.
LEMMA KrakenStep ==
  ASSUME FeedInv, feed = "kraken", KrakenNext, UNCHANGED coinbaseVars
  PROVE  FeedInv'
<1>1. CASE \E l \in Levels : VenueUpdate(l)
  BY <1>1, UpdateStep
<1>2. CASE VenueSend \/ VenueOmit
  BY <1>2, SendStep
<1>3. CASE ~(\E l \in Levels : VenueUpdate(l)) /\ ~VenueSend /\ ~VenueOmit
  <2>1. /\ feed' = feed /\ touched' = touched /\ traded' \in {traded, traded + 1}
        /\ \/ \E f : wire' = Append(wire, f)
           \/ \E f : wire' = <<f>>
           \/ wire' = <<>>
           \/ wire # <<>> /\ wire' = Tail(wire)
    BY <1>3 DEF KrakenNext, TradeKraken, ConnectKraken, Subscribe, Hangup, ReadBookSnapshot,
                ReadBookUpdate, ReadTrade, DropFrame, TakeFrame, Front1, venueVars
  <2>2. WireIsSeq'
    <3>1. CASE \E f : wire' = <<f>>
      <4> PICK f : wire' = <<f>>
        BY <3>1
      <4> QED BY <<f>> \in Seq({f}) DEF WireIsSeq
    <3>2. CASE wire' = <<>>
      BY <3>2, <<>> \in Seq({}) DEF WireIsSeq
    <3> QED BY <2>1, <3>1, <3>2, WireAppend, WireTail DEF FeedInv, WireOK
  <2>3. WireOK'
    BY <2>1, <2>2 DEF WireOK
  <2>4. FeedTypeOK'
    BY <2>1 DEF FeedInv, FeedTypeOK, coinbaseVars, codecVars, codecHistory
  <2>5. SeedBelowBase' /\ GapReportedOnce'
    BY DEF FeedInv, SeedBelowBase, GapReportedOnce, coinbaseVars, codecVars, codecHistory
  <2>6. GapResyncPending'
    BY <2>1 DEF GapResyncPending
  <2> QED BY <2>3, <2>4, <2>5, <2>6 DEF FeedInv
<1> QED BY <1>1, <1>2, <1>3

LEMMA IdleStep ==
  ASSUME FeedInv, UNCHANGED vars
  PROVE  FeedInv'
<1>1. UNCHANGED <<feed, touched, traded, wire, up, base, seed, counted, unsent, gapped, due, rest>>
  BY DEF vars, channelVars, venueVars, coinbaseVars, codecVars, codecHistory, restVars
<1>2. WireOK'
  BY <1>1, SameWireOK DEF FeedInv
<1>3. FeedTypeOK' /\ SeedBelowBase' /\ GapReportedOnce' /\ GapResyncPending'
  BY <1>1 DEF FeedInv, FeedTypeOK, SeedBelowBase, GapReportedOnce, GapResyncPending
<1> QED BY <1>2, <1>3 DEF FeedInv

-----------------------------------------------------------------------------
\* The codec's counts, the wire and the request keep together on both feeds.
THEOREM FeedInvariant == Spec => []FeedInv
<1>1. FeedInv /\ [Next]_vars => FeedInv'
  BY CoinbaseStep, KrakenStep, IdleStep DEF Next, OfCoinbase, OfKraken
<1> QED BY <1>1, FeedInitInv, PTL DEF Spec

\* note_trade and note_heartbeat of coinbase.rs: an id the baseline passes is
\* accounted for once, for any number of trades, sessions and losses.
THEOREM GapReportedOnceTheorem == Spec => []GapReportedOnce
<1>1. FeedInv => GapReportedOnce
  BY DEF FeedInv
<1> QED BY <1>1, FeedInvariant, PTL

\* NeedResync of conn.rs: after a Gap a fetch stays due or under way until a
\* snapshot comes, however many requests fail.
THEOREM GapResyncPendingTheorem == Spec => []GapResyncPending
<1>1. FeedInv => GapResyncPending
  BY DEF FeedInv
<1> QED BY <1>1, FeedInvariant, PTL

-----------------------------------------------------------------------------
(* The best n of a set of prices. *)

Below(P, l) == {m \in P : m < l}
Top(P, n) == {l \in P : Cardinality(Below(P, l)) < n}

LEMMA LevelsFinite ==
  /\ Prices \in Nat /\ Levels \subseteq Nat \ {0}
  /\ \A P : P \subseteq Levels => IsFiniteSet(P) /\ Cardinality(P) \in Nat
<1>1. Prices \in Nat
  BY ChannelAssumption DEF ChannelAssumption
<1>2. IsFiniteSet(Levels)
  BY <1>1, FS_Interval DEF Levels
<1>3. ASSUME NEW P, P \subseteq Levels PROVE IsFiniteSet(P) /\ Cardinality(P) \in Nat
  BY <1>2, <1>3, FS_Subset, FS_CardinalityType
<1> QED BY <1>1, <1>3 DEF Levels

\* More prices below a price.
LEMMA BelowGrows ==
  ASSUME NEW P, NEW Q, Q \subseteq Levels, P \subseteq Q
  PROVE  Cardinality(P) \in Nat /\ Cardinality(Q) \in Nat /\ Cardinality(P) <= Cardinality(Q)
<1>1. IsFiniteSet(Q) /\ P \in SUBSET Q
  BY LevelsFinite
<1>2. Cardinality(P) <= Cardinality(Q)
  BY <1>1, FS_Subset
<1> QED BY <1>2, LevelsFinite

\* Among fewer prices one of the best stays one of the best.
LEMMA TopOfFewer ==
  ASSUME NEW P, NEW Q, NEW n \in Nat, Q \subseteq Levels, P \subseteq Q, NEW l \in P, l \in Top(Q, n)
  PROVE  l \in Top(P, n)
<1>1. Below(P, l) \subseteq Below(Q, l) /\ Below(Q, l) \subseteq Levels
  BY DEF Below
<1>2. /\ Cardinality(Below(P, l)) \in Nat /\ Cardinality(Below(Q, l)) \in Nat
      /\ Cardinality(Below(P, l)) <= Cardinality(Below(Q, l))
  BY <1>1, BelowGrows
<1>3. Cardinality(Below(Q, l)) < n
  BY DEF Top
<1> QED BY <1>2, <1>3 DEF Top

LEMMA BelowLower ==
  ASSUME NEW P, P \subseteq Levels, NEW l \in Levels, NEW m \in Levels, l < m
  PROVE  Below(P, l) \subseteq Below(P, m) /\ Below(P, m) \subseteq Levels
<1>1. ASSUME NEW x \in Below(P, l) PROVE x \in Below(P, m)
  <2>1. x \in P /\ x < l /\ x \in Nat /\ l \in Nat /\ m \in Nat
    BY LevelsFinite DEF Below
  <2>2. x < m
    BY <2>1
  <2> QED BY <2>1, <2>2 DEF Below
<1>2. Below(P, m) \subseteq Levels
  BY DEF Below
<1> QED BY <1>1, <1>2

\* What is better than one of the best is one of them.
LEMMA TopIsBest ==
  ASSUME NEW P, NEW n \in Nat, P \subseteq Levels, NEW l \in P, NEW m \in Top(P, n), l < m
  PROVE  l \in Top(P, n)
<1>1. m \in P /\ Cardinality(Below(P, m)) < n
  BY DEF Top
<1>2. Below(P, l) \subseteq Below(P, m) /\ Below(P, m) \subseteq Levels
  BY <1>1, BelowLower
<1>3. /\ Cardinality(Below(P, l)) \in Nat /\ Cardinality(Below(P, m)) \in Nat
      /\ Cardinality(Below(P, l)) <= Cardinality(Below(P, m))
  BY <1>2, BelowGrows
<1> QED BY <1>1, <1>3 DEF Top

\* A set of natural numbers has a least element.
LEMMA LeastElement ==
  ASSUME NEW S, S \subseteq Nat, S # {}
  PROVE  \E m \in S : \A k \in S : m <= k
<1>1. PICK m \in S : \A k \in S : ~ (<<k, m>> \in OpToRel(<, Nat))
  BY WFMin, NatLessThanWellFounded, Zenon
<1>2. \A k \in S : ~ (k < m)
  BY <1>1, Zenon DEF OpToRel
<1>3. \A k \in S : m <= k
  BY <1>2
<1> QED BY <1>3

LEMMA Induction ==
  ASSUME NEW S, 0 \in S, \A n \in Nat : n \in S => n + 1 \in S
  PROVE  \A n \in Nat : n \in S
<1> SUFFICES ASSUME NEW x \in Nat, x \notin S PROVE FALSE
  OBVIOUS
<1> DEFINE T == {n \in Nat : n \notin S}
<1>1. T \subseteq Nat /\ T # {}
  OBVIOUS
<1>2. PICK m \in T : \A k \in T : m <= k
  BY <1>1, LeastElement
<1>3. m # 0 /\ m \in Nat
  BY <1>2
<1>4. m - 1 \in Nat /\ m - 1 \notin T
  BY <1>2, <1>3
<1> QED BY <1>2, <1>3, <1>4

\* Adding a price to the best gives the same as adding it to all.
LEMMA TopAdded ==
  ASSUME NEW P, NEW n \in Nat, P \subseteq Levels, NEW l \in Levels
  PROVE  Top(Top(P, n) \cup {l}, n) = Top(P \cup {l}, n)
<1> DEFINE Q == P \cup {l}
           R == Top(P, n) \cup {l}
<1>1. Q \subseteq Levels /\ R \subseteq Q /\ R \subseteq Levels /\ P \subseteq Q
  BY DEF Top
<1>2. ASSUME NEW m \in Top(Q, n) PROVE m \in Top(R, n)
  <2>1. m \in Q
    BY DEF Top
  <2>2. m # l => m \in Top(P, n)
    BY <1>1, <2>1, TopOfFewer
  <2>3. m \in R
    BY <2>1, <2>2
  <2> HIDE DEF Q, R
  <2> QED BY <1>1, <2>3, TopOfFewer
<1>3. ASSUME NEW m \in Top(R, n), m \notin Top(Q, n) PROVE FALSE
  <2>1. m \in R /\ Cardinality(Below(R, m)) < n /\ m \in Q /\ ~ (Cardinality(Below(Q, m)) < n)
    BY <1>1, <1>3 DEF Top
  <2> DEFINE U == {x \in P : x < m /\ x \notin Top(P, n)}
  <2>2. U # {}
    <3>1. CASE U = {}
      <4>1. Below(Q, m) = Below(R, m)
        BY <1>1, <3>1 DEF Below
      <4> QED BY <2>1, <4>1
    <3> QED BY <3>1
  <2>3. PICK x \in U : \A y \in U : x <= y
    <3>1. U \subseteq Nat
      BY LevelsFinite
    <3> HIDE DEF U
    <3> QED BY <2>2, <3>1, LeastElement
  <2>4. x \in P /\ x < m /\ x \notin Top(P, n) /\ x \in Nat /\ m \in Nat
    BY <1>1, <2>1, <2>3, LevelsFinite
  <2>5. Below(P, x) \subseteq Below(R, m) /\ Below(R, m) \subseteq Levels
    <3>1. ASSUME NEW y \in Below(P, x) PROVE y \in Below(R, m)
      <4>1. y \in P /\ y < x /\ y \in Nat
        BY LevelsFinite DEF Below
      <4>2. y < m /\ y \notin U
        BY <2>3, <2>4, <4>1
      <4> QED BY <4>1, <4>2 DEF Below
    <3> QED BY <1>1, <3>1 DEF Below
  <2>6. /\ Cardinality(Below(P, x)) \in Nat /\ Cardinality(Below(R, m)) \in Nat
        /\ Cardinality(Below(P, x)) <= Cardinality(Below(R, m))
    BY <2>5, BelowGrows
  <2>7. ~ (Cardinality(Below(P, x)) < n)
    BY <2>4 DEF Top
  <2> QED BY <2>1, <2>6, <2>7
<1>4. Top(R, n) = Top(Q, n)
  BY <1>2, <1>3
<1> QED BY <1>4

\* A price beyond the best changes nothing when it comes.
LEMMA TopAddedBeyond ==
  ASSUME NEW P, NEW n \in Nat, P \subseteq Levels, NEW l \in Levels, l \notin Top(P \cup {l}, n)
  PROVE  Top(P \cup {l}, n) = Top(P, n)
<1> DEFINE Q == P \cup {l}
<1>1. Q \subseteq Levels /\ P \subseteq Q /\ l \in Q
  OBVIOUS
<1>2. ASSUME NEW m \in Top(Q, n) PROVE m \in Top(P, n)
  <2>1. m \in P
    BY DEF Top
  <2> QED BY <1>1, <2>1, TopOfFewer
<1>3. ASSUME NEW m \in Top(P, n), m \notin Top(Q, n) PROVE FALSE
  <2>1. m \in P /\ Cardinality(Below(P, m)) < n /\ ~ (Cardinality(Below(Q, m)) < n)
    BY <1>3 DEF Top
  <2>2. ~ (Cardinality(Below(Q, l)) < n)
    BY <1>1 DEF Top
  <2>3. l \in Nat /\ m \in Nat
    BY <1>1, <2>1, LevelsFinite
  <2>4. CASE l < m
    <3>1. ASSUME NEW x \in Below(Q, l) PROVE x \in Below(P, m)
      <4>1. x \in Q /\ x < l /\ x \in Nat
        BY <1>1, LevelsFinite DEF Below
      <4>2. x \in P /\ x < m
        BY <2>3, <2>4, <4>1
      <4> QED BY <4>2 DEF Below
    <3>3. Below(Q, l) \subseteq Below(P, m) /\ Below(P, m) \subseteq Levels
      BY <3>1 DEF Below
    <3>2. /\ Cardinality(Below(Q, l)) \in Nat /\ Cardinality(Below(P, m)) \in Nat
          /\ Cardinality(Below(Q, l)) <= Cardinality(Below(P, m))
      BY <3>3, BelowGrows
    <3> QED BY <2>1, <2>2, <3>2
  <2>5. CASE ~ (l < m)
    <3>1. Below(Q, m) = Below(P, m)
      BY <2>3, <2>5 DEF Below
    <3> QED BY <2>1, <3>1
  <2> QED BY <2>4, <2>5
<1> HIDE DEF Q
<1>4. Top(Q, n) = Top(P, n)
  BY <1>2, <1>3
<1> QED BY <1>4 DEF Q

\* A price beyond the best changes nothing when it goes.
LEMMA TopRemovedBeyond ==
  ASSUME NEW P, NEW n \in Nat, P \subseteq Levels, NEW l \in P, l \notin Top(P, n)
  PROVE  Top(P \ {l}, n) = Top(P, n)
<1> DEFINE Q == P \ {l}
<1>1. Q \subseteq Levels /\ P = Q \cup {l} /\ l \in Levels
  OBVIOUS
<1>2. l \notin Top(Q \cup {l}, n)
  BY <1>1
<1> HIDE DEF Q
<1>3. Top(Q \cup {l}, n) = Top(Q, n)
  BY <1>1, <1>2, TopAddedBeyond
<1> QED BY <1>1, <1>3 DEF Q

\* When one of the best goes, at most one other takes its place.
LEMMA TopRemoved ==
  ASSUME NEW P, NEW n \in Nat, P \subseteq Levels, NEW l \in Top(P, n)
  PROVE  /\ Top(P, n) \ {l} \subseteq Top(P \ {l}, n)
         /\ \A a, b \in Top(P \ {l}, n) \ Top(P, n) : a = b
<1> DEFINE Q == P \ {l}
<1>1. Q \subseteq P /\ Q \subseteq Levels /\ l \in P
  BY DEF Top
<1>2. ASSUME NEW m \in Top(P, n), m # l PROVE m \in Top(Q, n)
  <2>1. m \in Q
    BY <1>2 DEF Top
  <2> QED BY <1>1, <2>1, TopOfFewer
<1>3. ASSUME NEW a \in Top(Q, n), NEW b \in Top(Q, n), a \notin Top(P, n), b \notin Top(P, n), a < b
      PROVE  FALSE
  <2>1. /\ a \in P /\ b \in P /\ a # l /\ a \in Levels /\ b \in Levels
        /\ ~ (Cardinality(Below(P, a)) < n) /\ Cardinality(Below(Q, b)) < n
    BY <1>1, <1>3 DEF Top
  <2>2. (Below(P, a) \ {l}) \cup {a} \subseteq Below(Q, b) /\ Below(Q, b) \subseteq Levels
    <3>1. a \in Below(Q, b) /\ Below(Q, b) \subseteq Levels
      BY <1>1, <1>3 DEF Below, Top
    <3>2. ASSUME NEW x \in Below(P, a), x # l PROVE x \in Below(Q, b)
      <4>1. x \in Q /\ x < a /\ x \in Nat /\ a \in Nat /\ b \in Nat
        BY <1>1, <2>1, <3>2, LevelsFinite DEF Below
      <4>2. x < b
        BY <1>3, <4>1
      <4> QED BY <4>1, <4>2 DEF Below
    <3> QED BY <3>1, <3>2
  <2>3. IsFiniteSet(Below(P, a)) /\ Cardinality(Below(P, a)) \in Nat
    BY LevelsFinite DEF Below
  <2>4. IsFiniteSet(Below(P, a) \ {l}) /\ Cardinality(Below(P, a) \ {l}) >= Cardinality(Below(P, a)) - 1
    <3>1. /\ IsFiniteSet(Below(P, a) \ {l})
          /\ Cardinality(Below(P, a) \ {l})
               = IF l \in Below(P, a) THEN Cardinality(Below(P, a)) - 1 ELSE Cardinality(Below(P, a))
      BY <2>3, FS_RemoveElement
    <3> QED BY <2>3, <3>1
  <2>5. a \notin Below(P, a) \ {l}
    BY <2>1, LevelsFinite DEF Below
  <2>6. Cardinality((Below(P, a) \ {l}) \cup {a}) = Cardinality(Below(P, a) \ {l}) + 1
    BY <2>4, <2>5, FS_AddElement
  <2> DEFINE U == (Below(P, a) \ {l}) \cup {a}
  <2>7. U \subseteq Below(Q, b)
    BY <2>2
  <2>8. Cardinality(Below(P, a) \ {l}) \in Nat
    BY <2>4, FS_CardinalityType
  <2> HIDE DEF U
  <2>9. Cardinality(U) \in Nat /\ Cardinality(Below(Q, b)) \in Nat /\ Cardinality(U) <= Cardinality(Below(Q, b))
    BY <2>2, <2>7, BelowGrows
  <2> QED BY <2>1, <2>3, <2>4, <2>6, <2>8, <2>9 DEF U
<1>4. ASSUME NEW a \in Top(Q, n), NEW b \in Top(Q, n), a \notin Top(P, n), b \notin Top(P, n)
      PROVE  a = b
  <2>1. a \in Nat /\ b \in Nat
    BY <1>1, LevelsFinite DEF Top
  <2>2. ~ (a < b) /\ ~ (b < a)
    BY <1>3, <1>4
  <2> QED BY <2>1, <2>2
<1> QED BY <1>2, <1>4

\* With room for all prices, all are among the best.
LEMMA TopOfAll ==
  ASSUME NEW P, P \subseteq Levels
  PROVE  Top(P, Prices) = P
<1> SUFFICES ASSUME NEW l \in P PROVE Cardinality(Below(P, l)) < Prices
  BY DEF Top
<1>1. l \in Nat /\ 1 <= l /\ l <= Prices /\ Prices \in Nat
  BY LevelsFinite DEF Levels
<1>2. ASSUME NEW x \in Below(P, l) PROVE x \in 1 .. l - 1
  <2>1. x \in Nat \ {0} /\ x < l
    BY LevelsFinite DEF Below
  <2> QED BY <1>1, <2>1
<1>3. IsFiniteSet(1 .. l - 1) /\ Cardinality(1 .. l - 1) = l - 1
  BY <1>1, FS_Interval
<1>4. Below(P, l) \in SUBSET (1 .. l - 1)
  BY <1>2
<1>5. Cardinality(Below(P, l)) <= l - 1 /\ IsFiniteSet(Below(P, l))
  BY <1>3, <1>4, FS_Subset
<1>6. Cardinality(Below(P, l)) \in Nat
  BY <1>5, FS_CardinalityType
<1> QED BY <1>1, <1>5, <1>6

-----------------------------------------------------------------------------
(* Books cut to their depth. *)

Books == [Levels -> Nat]

LEMMA CapIs ==
  /\ Cap \in Nat /\ (feed # "kraken" => Cap = Prices) /\ (feed = "kraken" => Cap = Depth)
  BY ChannelAssumption DEF ChannelAssumption, Cap

\* A cut book shows the best of its levels.
LEMMA CappedIs ==
  ASSUME NEW b \in Books
  PROVE  /\ Capped(b) \in Books
         /\ Present(Capped(b)) = Top(Present(b), Cap)
         /\ \A l \in Levels : Capped(b)[l] = IF l \in Top(Present(b), Cap) THEN b[l] ELSE 0
<1>1. \A n : Best(b, n) = Top(Present(b), n)
  BY DEF Best, Top, Below
<1>2. Capped(b) = [l \in Levels |-> IF l \in Top(Present(b), Cap) THEN b[l] ELSE 0]
  BY <1>1 DEF Capped
<1>3. \A l \in Levels : Capped(b)[l] = IF l \in Top(Present(b), Cap) THEN b[l] ELSE 0
  BY <1>2
<1>4. Capped(b) \in Books
  BY <1>2 DEF Books
<1>5. \A l \in Levels : l \in Top(Present(b), Cap) => b[l] # 0
  BY DEF Top, Present
<1>6. Top(Present(b), Cap) \subseteq Levels
  BY DEF Top, Present
<1>7. Present(Capped(b)) = Top(Present(b), Cap)
  BY <1>3, <1>5, <1>6 DEF Present
<1> QED BY <1>3, <1>4, <1>7

\* A book whose levels are among the best of another is not cut.
LEMMA CappedSmall ==
  ASSUME NEW b \in Books, NEW c \in Books, Present(b) \subseteq Top(Present(c), Cap)
  PROVE  Capped(b) = b
<1>1. Present(b) \subseteq Present(c) /\ Present(c) \subseteq Levels
  BY DEF Top, Present
<1>2. \A l \in Present(b) : l \in Top(Present(b), Cap)
  BY <1>1, CapIs, TopOfFewer
<1>3. \A l \in Levels : Capped(b)[l] = b[l]
  BY <1>2, CappedIs DEF Present
<1> QED BY <1>3, CappedIs DEF Books

\* A view is the venue's book, cut.
LEMMA ViewIs ==
  ASSUME NEW n
  PROVE  View(n) = Capped(VenueBook(n))
BY DEF View, Capped

\* Books of the whole depth are not cut.
LEMMA UncappedBook ==
  ASSUME NEW b \in Books, Cap = Prices
  PROVE  Capped(b) = b
<1>1. Present(b) \subseteq Levels
  BY DEF Present
<1>2. Top(Present(b), Cap) = Present(b)
  BY <1>1, TopOfAll
<1> QED BY <1>2, CappedSmall

LEMMA SetLevelIs ==
  ASSUME NEW b, NEW l, NEW q
  PROVE  SetLevel(b, [level |-> l, qty |-> q]) = Capped([b EXCEPT ![l] = q])
BY DEF SetLevel

-----------------------------------------------------------------------------
(* Changes applied one after the other. *)

SetsUpto(f, b, s, n) ==
  f = [i \in 0 .. n |-> IF i = 0 THEN b ELSE SetLevel(f[i - 1], s[i])]

LEMMA SetsExist ==
  ASSUME NEW b, NEW s, NEW n \in Nat
  PROVE  \E f : SetsUpto(f, b, s, n)
<1> DEFINE T == {k \in Nat : \E f : SetsUpto(f, b, s, k)}
<1>1. 0 \in T
  <2> DEFINE f == [i \in 0 .. 0 |-> b]
  <2>1. f = [i \in 0 .. 0 |-> IF i = 0 THEN b ELSE SetLevel(f[i - 1], s[i])]
    OBVIOUS
  <2> HIDE DEF f
  <2> QED BY <2>1 DEF SetsUpto
<1>2. ASSUME NEW k \in Nat, k \in T PROVE k + 1 \in T
  <2> PICK f : SetsUpto(f, b, s, k)
    BY <1>2
  <2> DEFINE g == [i \in 0 .. k + 1 |-> IF i = k + 1 THEN SetLevel(f[k], s[k + 1]) ELSE f[i]]
  <2>1. \A i \in 0 .. k : f[i] = IF i = 0 THEN b ELSE SetLevel(f[i - 1], s[i])
    BY DEF SetsUpto
  <2>2. ASSUME NEW i \in 0 .. k + 1
        PROVE  g[i] = IF i = 0 THEN b ELSE SetLevel(g[i - 1], s[i])
    <3>1. CASE i = k + 1
      <4>1. i # 0 /\ i - 1 = k /\ k \in 0 .. k + 1 /\ k # k + 1
        BY <3>1
      <4>2. g[i - 1] = f[k]
        BY <4>1
      <4>3. g[i] = SetLevel(f[k], s[i])
        BY <3>1
      <4> QED BY <4>1, <4>2, <4>3
    <3>2. CASE i # k + 1
      <4>1. i \in 0 .. k
        BY <3>2
      <4>2. g[i] = f[i]
        BY <3>2
      <4>3. CASE i = 0
        BY <2>1, <4>1, <4>2, <4>3
      <4>4. CASE i # 0
        <5>1. i - 1 \in 0 .. k + 1 /\ i - 1 # k + 1
          BY <4>1, <4>4
        <5>2. g[i - 1] = f[i - 1]
          BY <5>1
        <5>3. f[i] = SetLevel(f[i - 1], s[i])
          BY <2>1, <4>1, <4>4
        <5> QED BY <4>2, <4>4, <5>2, <5>3
      <4> QED BY <4>3, <4>4
    <3> QED BY <3>1, <3>2
  <2>3. \A i \in 0 .. k + 1 : g[i] = IF i = 0 THEN b ELSE SetLevel(g[i - 1], s[i])
    BY <2>2
  <2>4. g = [i \in 0 .. k + 1 |-> g[i]]
    OBVIOUS
  <2> HIDE DEF g
  <2>5. g = [i \in 0 .. k + 1 |-> IF i = 0 THEN b ELSE SetLevel(g[i - 1], s[i])]
    BY <2>3, <2>4
  <2> QED BY <2>5 DEF SetsUpto
<1> HIDE DEF T
<1>3. n \in T
  BY <1>1, <1>2, Induction
<1> QED BY <1>3 DEF T

LEMMA SetLevelsIs ==
  ASSUME NEW b, NEW s, Len(s) \in Nat
  PROVE  \E f : /\ f[0] = b /\ SetLevels(b, s) = f[Len(s)]
                /\ \A n \in 1 .. Len(s) : f[n] = SetLevel(f[n - 1], s[n])
<1> DEFINE f == CHOOSE g : SetsUpto(g, b, s, Len(s))
<1>1. SetsUpto(f, b, s, Len(s))
  BY SetsExist
<1>2. SetLevels(b, s) = f[Len(s)]
  BY DEF SetLevels, SetsUpto
<1> HIDE DEF f
<1>3. \A n \in 0 .. Len(s) : f[n] = IF n = 0 THEN b ELSE SetLevel(f[n - 1], s[n])
  BY <1>1 DEF SetsUpto
<1>4. f[0] = b
  BY <1>3
<1>5. \A n \in 1 .. Len(s) : f[n] = SetLevel(f[n - 1], s[n])
  BY <1>3
<1> QED BY <1>2, <1>4, <1>5

LEMMA OneSet ==
  ASSUME NEW b, NEW s, Len(s) = 1
  PROVE  SetLevels(b, s) = SetLevel(b, s[1])
<1>1. Len(s) \in Nat
  OBVIOUS
<1>2. PICK f : /\ f[0] = b /\ SetLevels(b, s) = f[Len(s)]
               /\ \A n \in 1 .. Len(s) : f[n] = SetLevel(f[n - 1], s[n])
  BY <1>1, SetLevelsIs
<1>3. 1 \in 1 .. Len(s) /\ 1 - 1 = 0
  OBVIOUS
<1>4. f[1] = SetLevel(f[0], s[1])
  BY <1>2, <1>3
<1> QED BY <1>2, <1>4

LEMMA TwoSet ==
  ASSUME NEW b, NEW s, Len(s) = 2
  PROVE  SetLevels(b, s) = SetLevel(SetLevel(b, s[1]), s[2])
<1>1. Len(s) \in Nat
  OBVIOUS
<1>2. PICK f : /\ f[0] = b /\ SetLevels(b, s) = f[Len(s)]
               /\ \A n \in 1 .. Len(s) : f[n] = SetLevel(f[n - 1], s[n])
  BY <1>1, SetLevelsIs
<1>3. 1 \in 1 .. Len(s) /\ 2 \in 1 .. Len(s) /\ 1 - 1 = 0 /\ 2 - 1 = 1
  OBVIOUS
<1>4. f[1] = SetLevel(f[0], s[1]) /\ f[2] = SetLevel(f[1], s[2])
  BY <1>2, <1>3
<1> QED BY <1>2, <1>4

\* No change, one, and two.
LEMMA SetLevelsFew ==
  ASSUME NEW b, NEW c, NEW d
  PROVE  /\ SetLevels(b, <<>>) = b
         /\ SetLevels(b, <<c>>) = SetLevel(b, c)
         /\ SetLevels(b, <<c, d>>) = SetLevel(SetLevel(b, c), d)
<1>1. SetLevels(b, <<>>) = b
  <2>1. Len(<<>>) = 0
    OBVIOUS
  <2> QED BY <2>1, SetLevelsIs
<1>2. SetLevels(b, <<c>>) = SetLevel(b, c)
  <2> DEFINE s == <<c>>
  <2>1. Len(s) = 1 /\ s[1] = c
    OBVIOUS
  <2> HIDE DEF s
  <2>2. SetLevels(b, s) = SetLevel(b, c)
    BY <2>1, OneSet
  <2> QED BY <2>2 DEF s
<1>3. SetLevels(b, <<c, d>>) = SetLevel(SetLevel(b, c), d)
  <2> DEFINE s == <<c, d>>
  <2>1. Len(s) = 2 /\ s[1] = c /\ s[2] = d
    OBVIOUS
  <2> HIDE DEF s
  <2>2. SetLevels(b, s) = SetLevel(SetLevel(b, c), d)
    BY <2>1, TwoSet
  <2> QED BY <2>2 DEF s
<1> QED BY <1>1, <1>2, <1>3

-----------------------------------------------------------------------------
(* The changes of one update. *)

Change(b, l) == [level |-> l, qty |-> b[l]]
Entering(old, new, l) == Present(new) \ (Present(old) \cup {l})
ChangesOf(old, new, l) ==
  (IF new[l] # old[l] THEN <<Change(new, l)>> ELSE <<>>)
    \o [i \in 1 .. Cardinality(Entering(old, new, l)) |->
          Change(new, CHOOSE m \in Entering(old, new, l) : TRUE)]

LEMMA ChangesAre ==
  ASSUME NEW k
  PROVE  Changes(k) = ChangesOf(View(k - 1), View(k), touched[k])
BY DEF Changes, ChangesOf, Change, Entering

\* Only the change of its own level, if any.
LEMMA NoneEnters ==
  ASSUME NEW b, NEW old, NEW new, NEW l, Entering(old, new, l) = {}
  PROVE  SetLevels(b, ChangesOf(old, new, l))
           = IF new[l] # old[l] THEN SetLevel(b, Change(new, l)) ELSE b
<1> DEFINE c(i) == Change(new, CHOOSE m \in Entering(old, new, l) : TRUE)
           d == Change(new, l)
           t == [i \in 1 .. Cardinality(Entering(old, new, l)) |-> c(i)]
<1>1. Cardinality(Entering(old, new, l)) = 0
  BY FS_EmptySet
<1>2. t = <<>>
  <2> HIDE DEF c
  <2> QED BY <1>1
<1>3. CASE new[l] # old[l]
  <2>1. ChangesOf(old, new, l) = <<d>> \o t
    BY <1>3 DEF ChangesOf
  <2> HIDE DEF t, d
  <2>2. <<d>> \in Seq({d})
    OBVIOUS
  <2>3. <<d>> \o <<>> = <<d>>
    BY <2>2, ConcatEmptySeq
  <2>5. SetLevels(b, <<d>>) = SetLevel(b, d)
    BY SetLevelsFew
  <2>4. SetLevels(b, ChangesOf(old, new, l)) = SetLevel(b, d)
    BY <1>2, <2>1, <2>3, <2>5
  <2> QED BY <1>3, <2>4 DEF d
<1>4. CASE new[l] = old[l]
  <2>1. ChangesOf(old, new, l) = <<>> \o t
    BY <1>4 DEF ChangesOf
  <2> HIDE DEF t
  <2>2. <<>> \in Seq({})
    OBVIOUS
  <2>3. <<>> \o <<>> = <<>>
    BY <2>2, ConcatEmptySeq
  <2> QED BY <1>2, <1>4, <2>1, <2>3, SetLevelsFew
<1> QED BY <1>3, <1>4

LEMMA PairSet ==
  ASSUME NEW b, NEW c, NEW d
  PROVE  SetLevels(b, <<c>> \o <<d>>) = SetLevel(SetLevel(b, c), d)
<1> DEFINE s == <<c>> \o <<d>>
<1>1. <<c>> \in Seq({c, d}) /\ <<d>> \in Seq({c, d}) /\ Len(<<c>>) = 1 /\ Len(<<d>>) = 1
  OBVIOUS
<1>2. Len(s) = 1 + 1
  BY <1>1, ConcatProperties
<1>3. \A i \in 1 .. 1 + 1 : s[i] = IF i <= 1 THEN <<c>>[i] ELSE <<d>>[i - 1]
  BY <1>1, ConcatProperties
<1>4. s[1] = c /\ s[2] = d /\ Len(s) = 2
  BY <1>2, <1>3
<1> HIDE DEF s
<1>5. SetLevels(b, s) = SetLevel(SetLevel(b, c), d)
  BY <1>4, TwoSet
<1> QED BY <1>5 DEF s

\* The change of its own level, then that of the one that enters.
LEMMA OneEnters ==
  ASSUME NEW b, NEW old, NEW new, NEW l, NEW a, Entering(old, new, l) = {a}, new[l] # old[l]
  PROVE  SetLevels(b, ChangesOf(old, new, l)) = SetLevel(SetLevel(b, Change(new, l)), Change(new, a))
<1>1. Cardinality(Entering(old, new, l)) = 1
  BY FS_Singleton
<1>2. (CHOOSE m \in Entering(old, new, l) : TRUE) = a
  OBVIOUS
<1> DEFINE d == Change(new, a)
           t == [i \in 1 .. Cardinality(Entering(old, new, l)) |->
                   Change(new, CHOOSE m \in Entering(old, new, l) : TRUE)]
<1>3. t = [i \in 1 .. 1 |-> d]
  BY <1>1, <1>2
<1>4. t = <<d>>
  <2> HIDE DEF t, d
  <2> QED BY <1>3
<1> DEFINE c == Change(new, l)
<1>5. ChangesOf(old, new, l) = <<c>> \o t
  BY DEF ChangesOf
<1> HIDE DEF c, d, t
<1>6. SetLevels(b, <<c>> \o <<d>>) = SetLevel(SetLevel(b, c), d)
  BY PairSet
<1>7. SetLevels(b, ChangesOf(old, new, l)) = SetLevel(SetLevel(b, c), d)
  BY <1>4, <1>5, <1>6
<1> QED BY <1>7 DEF c, d

\* The books around an update of the venue.
Around(V, W, l, q) ==
  V \in Books /\ l \in Levels /\ q \in Nat /\ W = [V EXCEPT ![l] = q]

LEMMA AroundIs ==
  ASSUME NEW V, NEW W, NEW l, NEW q, Around(V, W, l, q)
  PROVE  /\ V \in Books /\ W \in Books /\ l \in Levels /\ q \in Nat /\ W[l] = q
         /\ \A m \in Levels : m # l => W[m] = V[m]
         /\ Present(V) \subseteq Levels /\ Present(W) \subseteq Levels
         /\ q # 0 => Present(W) = Present(V) \cup {l}
         /\ q = 0 => Present(W) = Present(V) \ {l}
BY DEF Around, Books, Present

\* Nothing changes in the view.
LEMMA SameView ==
  ASSUME NEW old, NEW l
  PROVE  SetLevels(old, ChangesOf(old, old, l)) = old
<1>1. Entering(old, old, l) = {}
  BY DEF Entering
<1> QED BY <1>1, NoneEnters

\* The best levels and what is there are the same: the view is.
LEMMA ViewKept ==
  ASSUME NEW V, NEW W, NEW l, NEW q, Around(V, W, l, q),
         Top(Present(W), Cap) = Top(Present(V), Cap), l \notin Top(Present(V), Cap)
  PROVE  Capped(W) = Capped(V)
<1>1. \A m \in Levels : Capped(W)[m] = Capped(V)[m]
  BY AroundIs, CappedIs
<1>2. Capped(V) \in Books /\ Capped(W) \in Books
  BY AroundIs, CappedIs
<1> QED BY <1>1, <1>2 DEF Books

\* A level set.
LEMMA SettingLeads ==
  ASSUME NEW V, NEW W, NEW l, NEW q, Around(V, W, l, q), q # 0
  PROVE  SetLevels(Capped(V), ChangesOf(Capped(V), Capped(W), l)) = Capped(W)
<1> DEFINE P == Present(V)
           T == Top(P, Cap)
           U == Top(P \cup {l}, Cap)
           old == Capped(V)
           new == Capped(W)
<1>1. /\ V \in Books /\ W \in Books /\ l \in Levels /\ q \in Nat /\ W[l] = q /\ P \subseteq Levels
      /\ \A m \in Levels : m # l => W[m] = V[m]
      /\ Present(W) = P \cup {l}
  BY AroundIs
<1>2. /\ old \in Books /\ Present(old) = T
      /\ \A m \in Levels : old[m] = IF m \in T THEN V[m] ELSE 0
  BY <1>1, CappedIs
<1>3. /\ new \in Books /\ Present(new) = U
      /\ \A m \in Levels : new[m] = IF m \in U THEN W[m] ELSE 0
  BY <1>1, CappedIs
<1>4. Cap \in Nat
  BY CapIs
<1>5. CASE l \notin U
  <2>1. U = T
    BY <1>1, <1>4, <1>5, TopAddedBeyond
  <2>2. new = old
    BY <1>1, <1>5, <2>1, ViewKept
  <2>3. SetLevels(old, ChangesOf(old, old, l)) = old
    BY SameView
  <2> HIDE DEF old, new
  <2>4. SetLevels(old, ChangesOf(old, new, l)) = new
    BY <2>2, <2>3
  <2> QED BY <2>4 DEF old, new
<1>6. CASE l \in U
  <2> DEFINE b == [old EXCEPT ![l] = q]
  <2>1. ASSUME NEW m \in U, m # l PROVE m \in T
    <3>1. m \in P
      BY <2>1 DEF Top
    <3> QED BY <1>1, <1>4, <3>1, TopOfFewer
  <2>2. T \subseteq Levels /\ U \subseteq Levels
    BY <1>1 DEF Top
  <2> HIDE DEF T, U, old, new
  <2>3. Entering(old, new, l) = {}
    BY <1>2, <1>3, <2>1 DEF Entering
  <2>4. /\ b \in Books /\ b[l] = q
        /\ \A m \in Levels : m # l => b[m] = old[m]
    BY <1>1, <1>2 DEF Books
  <2> HIDE DEF b
  <2>5. Present(b) = T \cup {l}
    <3>1. \A m \in Levels : m # l => (m \in Present(b) <=> m \in Present(old))
      BY <2>4 DEF Present
    <3>2. l \in Present(b)
      BY <1>1, <2>4 DEF Present
    <3>3. Present(b) \subseteq Levels
      BY DEF Present
    <3> QED BY <1>1, <1>2, <2>2, <3>1, <3>2, <3>3
  <2>6. Top(Present(b), Cap) = U
    BY <1>1, <1>4, <2>5, TopAdded DEF T, U
  <2>7. Capped(b) = new
    <3>1. \A m \in Levels : Capped(b)[m] = IF m \in U THEN b[m] ELSE 0
      BY <2>4, <2>6, CappedIs
    <3>2. ASSUME NEW m \in Levels PROVE Capped(b)[m] = new[m]
      <4>1. CASE m \notin U
        BY <1>3, <3>1, <4>1
      <4>2. CASE m = l
        BY <1>1, <1>3, <2>4, <3>1, <4>2
      <4>3. CASE m \in U /\ m # l
        <5>1. m \in T
          BY <2>1, <4>3
        <5> QED BY <1>1, <1>2, <1>3, <2>4, <3>1, <4>3, <5>1
      <4> QED BY <4>1, <4>2, <4>3
    <3>3. Capped(b) \in Books
      BY <2>4, CappedIs
    <3> QED BY <1>3, <3>2, <3>3 DEF Books
  <2>8. new[l] = q
    BY <1>1, <1>3, <1>6
  <2>9. CASE new[l] # old[l]
    <3>1. SetLevels(old, ChangesOf(old, new, l)) = SetLevel(old, Change(new, l))
      BY <2>3, <2>9, NoneEnters
    <3>3. Change(new, l) = [level |-> l, qty |-> q]
      BY <2>8 DEF Change
    <3>4. SetLevel(old, [level |-> l, qty |-> q]) = Capped(b)
      BY SetLevelIs DEF b
    <3>5. SetLevels(old, ChangesOf(old, new, l)) = new
      BY <2>7, <3>1, <3>3, <3>4
    <3> QED BY <3>5 DEF old, new
  <2>10. CASE new[l] = old[l]
    <3>1. b = old
      <4>1. \A m \in Levels : b[m] = old[m]
        BY <2>4, <2>8, <2>10
      <4> QED BY <1>2, <2>4, <4>1 DEF Books
    <3>2. Capped(old) = old
      BY <1>1, <1>2, CappedSmall DEF T
    <3>3. new = old
      BY <2>7, <3>1, <3>2
    <3>4. SetLevels(old, ChangesOf(old, new, l)) = new
      BY <3>3, SameView
    <3> QED BY <3>4 DEF old, new
  <2> QED BY <2>9, <2>10
<1> QED BY <1>5, <1>6

\* A level removed.
LEMMA RemovingLeads ==
  ASSUME NEW V, NEW W, NEW l, Around(V, W, l, 0)
  PROVE  SetLevels(Capped(V), ChangesOf(Capped(V), Capped(W), l)) = Capped(W)
<1> DEFINE P == Present(V)
           T == Top(P, Cap)
           U == Top(P \ {l}, Cap)
           old == Capped(V)
           new == Capped(W)
<1>1. /\ V \in Books /\ W \in Books /\ l \in Levels /\ W[l] = 0 /\ P \subseteq Levels
      /\ \A m \in Levels : m # l => W[m] = V[m]
      /\ Present(W) = P \ {l}
  BY AroundIs
<1>2. /\ old \in Books /\ Present(old) = T
      /\ \A m \in Levels : old[m] = IF m \in T THEN V[m] ELSE 0
  BY <1>1, CappedIs
<1>3. /\ new \in Books /\ Present(new) = U
      /\ \A m \in Levels : new[m] = IF m \in U THEN W[m] ELSE 0
  BY <1>1, CappedIs
<1>4. Cap \in Nat
  BY CapIs
<1>5. T \subseteq P /\ U \subseteq P /\ l \notin U
  BY DEF Top
<1>6. CASE l \notin T
  <2>1. U = T
    <3>1. CASE l \in P
      BY <1>1, <1>4, <1>6, <3>1, TopRemovedBeyond
    <3>2. CASE l \notin P
      <4>1. P \ {l} = P
        BY <3>2
      <4> QED BY <4>1
    <3> QED BY <3>1, <3>2
  <2>2. new = old
    BY <1>1, <1>6, <2>1, ViewKept
  <2>3. SetLevels(old, ChangesOf(old, old, l)) = old
    BY SameView
  <2> HIDE DEF old, new
  <2>4. SetLevels(old, ChangesOf(old, new, l)) = new
    BY <2>2, <2>3
  <2> QED BY <2>4 DEF old, new
<1>7. CASE l \in T
  <2>1. /\ T \ {l} \subseteq U
        /\ \A a, c \in U \ T : a = c
    BY <1>1, <1>4, <1>7, TopRemoved
  <2> DEFINE b == [old EXCEPT ![l] = 0]
  <2> HIDE DEF P, T, U, old, new
  <2>2. /\ b \in Books /\ b[l] = 0
        /\ \A m \in Levels : m # l => b[m] = old[m]
    BY <1>1, <1>2 DEF Books
  <2> HIDE DEF b
  <2>3. Present(b) = T \ {l}
    <3>1. \A m \in Levels : m # l => (m \in Present(b) <=> m \in Present(old))
      BY <2>2 DEF Present
    <3>2. l \notin Present(b)
      BY <2>2 DEF Present
    <3>3. Present(b) \subseteq Levels
      BY DEF Present
    <3> QED BY <1>1, <1>2, <1>5, <3>1, <3>2, <3>3
  <2>4. Capped(b) = b
    <3>1. Present(b) \subseteq Top(Present(V), Cap)
      BY <2>3 DEF T, P
    <3> QED BY <1>1, <2>2, <3>1, CappedSmall
  <2>5. new[l] = 0 /\ old[l] # 0
    <3>1. l \in Present(old)
      BY <1>2, <1>7
    <3> QED BY <1>1, <1>3, <1>5, <3>1 DEF Present
  <2>6. Change(new, l) = [level |-> l, qty |-> 0] /\ new[l] # old[l]
    BY <2>5 DEF Change
  <2>7. SetLevel(old, Change(new, l)) = b
    <3>1. SetLevel(old, [level |-> l, qty |-> 0]) = Capped(b)
      BY SetLevelIs DEF b
    <3> QED BY <2>4, <2>6, <3>1
  <2>8. Entering(old, new, l) = U \ T
    BY <1>2, <1>3, <1>5 DEF Entering
  <2>9. CASE U \ T = {}
    <3>1. U = T \ {l}
      BY <1>5, <2>1, <2>9
    <3>2. new = b
      <4>1. ASSUME NEW m \in Levels PROVE new[m] = b[m]
        <5>1. CASE m = l
          BY <2>2, <2>5, <5>1
        <5>2. CASE m # l
          BY <1>1, <1>2, <1>3, <2>2, <3>1, <5>2
        <5> QED BY <5>1, <5>2
      <4> QED BY <1>3, <2>2, <4>1 DEF Books
    <3>3. SetLevels(old, ChangesOf(old, new, l)) = SetLevel(old, Change(new, l))
      BY <2>6, <2>8, <2>9, NoneEnters
    <3>5. SetLevels(old, ChangesOf(old, new, l)) = new
      BY <2>7, <3>2, <3>3
    <3> QED BY <3>5 DEF old, new
  <2>10. CASE U \ T # {}
    <3>1. PICK a : a \in U \ T
      BY <2>10
    <3>2. U \ T = {a} /\ a # l /\ a \in Levels /\ U \subseteq (T \ {l}) \cup {a}
      BY <1>1, <1>5, <1>7, <2>1, <3>1
    <3> DEFINE c == [b EXCEPT ![a] = new[a]]
    <3>3. c \in Books /\ c[a] = new[a] /\ \A m \in Levels : m # a => c[m] = b[m]
      BY <1>3, <2>2, <3>2 DEF Books
    <3> HIDE DEF c
    <3>4. c = new
      <4>1. ASSUME NEW m \in Levels PROVE new[m] = c[m]
        <5>1. CASE m = a
          BY <3>3, <5>1
        <5>2. CASE m = l
          BY <2>2, <2>5, <3>2, <3>3, <5>2
        <5>3. CASE m # l /\ m # a
          <6>1. m \in U <=> m \in T
            BY <2>1, <3>2, <5>3
          <6>2. new[m] = old[m]
            BY <1>1, <1>2, <1>3, <5>3, <6>1
          <6> QED BY <2>2, <3>3, <5>3, <6>2
        <5> QED BY <5>1, <5>2, <5>3
      <4> QED BY <1>3, <3>3, <4>1 DEF Books
    <3>5. Capped(new) = new
      <4>1. Present(new) \subseteq Top(Present(W), Cap)
        BY <1>1, <1>3 DEF U
      <4> QED BY <1>1, <1>3, <4>1, CappedSmall
    <3>6. SetLevel(b, Change(new, a)) = new
      <4>1. SetLevel(b, [level |-> a, qty |-> new[a]]) = Capped(c)
        BY SetLevelIs DEF c
      <4> QED BY <3>4, <3>5, <4>1 DEF Change
    <3>7. SetLevels(old, ChangesOf(old, new, l)) = SetLevel(SetLevel(old, Change(new, l)), Change(new, a))
      BY <2>6, <2>8, <3>2, OneEnters
    <3>9. SetLevels(old, ChangesOf(old, new, l)) = new
      BY <2>7, <3>6, <3>7
    <3> QED BY <3>9 DEF old, new
  <2> QED BY <2>9, <2>10
<1> QED BY <1>6, <1>7

\* A subscriber's copy of the view follows an update by its changes, at any depth.
LEMMA ChangesLead ==
  ASSUME NEW V, NEW W, NEW l, NEW q, Around(V, W, l, q)
  PROVE  SetLevels(Capped(V), ChangesOf(Capped(V), Capped(W), l)) = Capped(W)
<1>1. CASE q = 0
  BY <1>1, RemovingLeads
<1>2. CASE q # 0
  BY <1>2, SettingLeads
<1> QED BY <1>1, <1>2

\* At the whole depth an update is one change, of the level it is about.
LEMMA PlainChanges ==
  ASSUME NEW V, NEW W, NEW l, NEW q, Around(V, W, l, q), q # V[l], Cap = Prices, NEW b \in Books
  PROVE  SetLevels(b, ChangesOf(Capped(V), Capped(W), l)) = [b EXCEPT ![l] = q]
<1>1. /\ V \in Books /\ W \in Books /\ l \in Levels /\ q \in Nat /\ W[l] = q
      /\ \A m \in Levels : m # l => W[m] = V[m]
  BY AroundIs
<1>2. Capped(V) = V /\ Capped(W) = W
  BY <1>1, UncappedBook
<1>3. Entering(V, W, l) = {}
  BY <1>1 DEF Entering, Present
<1>4. SetLevels(b, ChangesOf(V, W, l)) = SetLevel(b, Change(W, l))
  BY <1>1, <1>3, NoneEnters
<1>5. Change(W, l) = [level |-> l, qty |-> q]
  BY <1>1 DEF Change
<1> DEFINE c == [b EXCEPT ![l] = q]
<1>7. SetLevel(b, [level |-> l, qty |-> q]) = Capped(c)
  BY SetLevelIs
<1>8. c \in Books
  BY <1>1 DEF Books
<1> HIDE DEF c
<1>9. Capped(c) = c
  BY <1>8, UncappedBook
<1> QED BY <1>2, <1>4, <1>5, <1>7, <1>9 DEF c

-----------------------------------------------------------------------------
(* Frames of updates. *)

BodiesUpto(f, b, s, n) ==
  f = [i \in 0 .. n |-> IF i = 0 THEN b ELSE SetLevels(f[i - 1], s[i])]

LEMMA BodiesExist ==
  ASSUME NEW b, NEW s, NEW n \in Nat
  PROVE  \E f : BodiesUpto(f, b, s, n)
<1> DEFINE T == {k \in Nat : \E f : BodiesUpto(f, b, s, k)}
<1>1. 0 \in T
  <2> DEFINE f == [i \in 0 .. 0 |-> b]
  <2>1. f = [i \in 0 .. 0 |-> IF i = 0 THEN b ELSE SetLevels(f[i - 1], s[i])]
    OBVIOUS
  <2> HIDE DEF f
  <2> QED BY <2>1 DEF BodiesUpto
<1>2. ASSUME NEW k \in Nat, k \in T PROVE k + 1 \in T
  <2> PICK f : BodiesUpto(f, b, s, k)
    BY <1>2
  <2> DEFINE g == [i \in 0 .. k + 1 |-> IF i = k + 1 THEN SetLevels(f[k], s[k + 1]) ELSE f[i]]
  <2>1. \A i \in 0 .. k : f[i] = IF i = 0 THEN b ELSE SetLevels(f[i - 1], s[i])
    BY DEF BodiesUpto
  <2>2. ASSUME NEW i \in 0 .. k + 1
        PROVE  g[i] = IF i = 0 THEN b ELSE SetLevels(g[i - 1], s[i])
    <3>1. CASE i = k + 1
      <4>1. i # 0 /\ i - 1 = k /\ k \in 0 .. k + 1 /\ k # k + 1
        BY <3>1
      <4>2. g[i - 1] = f[k]
        BY <4>1
      <4>3. g[i] = SetLevels(f[k], s[i])
        BY <3>1
      <4> QED BY <4>1, <4>2, <4>3
    <3>2. CASE i # k + 1
      <4>1. i \in 0 .. k
        BY <3>2
      <4>2. g[i] = f[i]
        BY <3>2
      <4>3. CASE i = 0
        BY <2>1, <4>1, <4>2, <4>3
      <4>4. CASE i # 0
        <5>1. i - 1 \in 0 .. k + 1 /\ i - 1 # k + 1
          BY <4>1, <4>4
        <5>2. g[i - 1] = f[i - 1]
          BY <5>1
        <5>3. f[i] = SetLevels(f[i - 1], s[i])
          BY <2>1, <4>1, <4>4
        <5> QED BY <4>2, <4>4, <5>2, <5>3
      <4> QED BY <4>3, <4>4
    <3> QED BY <3>1, <3>2
  <2>3. \A i \in 0 .. k + 1 : g[i] = IF i = 0 THEN b ELSE SetLevels(g[i - 1], s[i])
    BY <2>2
  <2>4. g = [i \in 0 .. k + 1 |-> g[i]]
    OBVIOUS
  <2> HIDE DEF g
  <2>5. g = [i \in 0 .. k + 1 |-> IF i = 0 THEN b ELSE SetLevels(g[i - 1], s[i])]
    BY <2>3, <2>4
  <2> QED BY <2>5 DEF BodiesUpto
<1> HIDE DEF T
<1>3. n \in T
  BY <1>1, <1>2, Induction
<1> QED BY <1>3 DEF T

LEMMA SetBodyIs ==
  ASSUME NEW b, NEW s, Len(s) \in Nat
  PROVE  \E f : /\ f[0] = b /\ SetBody(b, s) = f[Len(s)]
                /\ \A n \in 1 .. Len(s) : f[n] = SetLevels(f[n - 1], s[n])
<1> DEFINE f == CHOOSE g : BodiesUpto(g, b, s, Len(s))
<1>1. BodiesUpto(f, b, s, Len(s))
  BY BodiesExist
<1>2. SetBody(b, s) = f[Len(s)]
  BY DEF SetBody, BodiesUpto
<1> HIDE DEF f
<1>3. \A n \in 0 .. Len(s) : f[n] = IF n = 0 THEN b ELSE SetLevels(f[n - 1], s[n])
  BY <1>1 DEF BodiesUpto
<1>4. f[0] = b
  BY <1>3
<1>5. \A n \in 1 .. Len(s) : f[n] = SetLevels(f[n - 1], s[n])
  BY <1>3
<1> QED BY <1>2, <1>4, <1>5

\* One update more.
LEMMA SetBodyLast ==
  ASSUME NEW b, NEW s, NEW t, NEW n \in Nat, Len(t) = n, Len(s) = n + 1,
         \A i \in 1 .. n : s[i] = t[i]
  PROVE  SetBody(b, s) = SetLevels(SetBody(b, t), s[n + 1])
<1>1. PICK f : /\ f[0] = b /\ SetBody(b, s) = f[n + 1]
               /\ \A i \in 1 .. n + 1 : f[i] = SetLevels(f[i - 1], s[i])
  <2>1. Len(s) \in Nat
    OBVIOUS
  <2>2. \E f : /\ f[0] = b /\ SetBody(b, s) = f[Len(s)]
               /\ \A i \in 1 .. Len(s) : f[i] = SetLevels(f[i - 1], s[i])
    BY <2>1, SetBodyIs
  <2> QED BY <2>2
<1>2. PICK g : /\ g[0] = b /\ SetBody(b, t) = g[n]
               /\ \A i \in 1 .. n : g[i] = SetLevels(g[i - 1], t[i])
  <2>1. Len(t) \in Nat
    OBVIOUS
  <2>2. \E g : /\ g[0] = b /\ SetBody(b, t) = g[Len(t)]
               /\ \A i \in 1 .. Len(t) : g[i] = SetLevels(g[i - 1], t[i])
    BY <2>1, SetBodyIs
  <2> QED BY <2>2
<1> DEFINE T == {k \in Nat : k <= n => f[k] = g[k]}
<1>3. 0 \in T
  BY <1>1, <1>2
<1>4. ASSUME NEW k \in Nat, k \in T PROVE k + 1 \in T
  <2> SUFFICES ASSUME k + 1 <= n PROVE f[k + 1] = g[k + 1]
    OBVIOUS
  <2>1. f[k] = g[k] /\ k + 1 \in 1 .. n /\ k + 1 \in 1 .. n + 1 /\ (k + 1) - 1 = k
    BY <1>4
  <2>2. f[k + 1] = SetLevels(f[k], s[k + 1])
    BY <1>1, <2>1
  <2>3. g[k + 1] = SetLevels(g[k], t[k + 1])
    BY <1>2, <2>1
  <2> QED BY <2>1, <2>2, <2>3
<1> HIDE DEF T
<1>5. n \in T
  BY <1>3, <1>4, Induction
<1>6. f[n] = g[n]
  BY <1>5 DEF T
<1>7. f[n + 1] = SetLevels(f[n], s[n + 1])
  <2>1. n + 1 \in 1 .. n + 1 /\ (n + 1) - 1 = n
    OBVIOUS
  <2> QED BY <1>1, <2>1
<1> QED BY <1>1, <1>2, <1>6, <1>7

\* What a frame lists.
Body(first, final) == [i \in 1 .. final + 1 - first |-> Changes(first + i - 1)]

LEMMA BodyIs ==
  ASSUME NEW a \in Nat, NEW n \in Nat
  PROVE  /\ Len(Body(a + 1, a + n)) = n
         /\ \A i \in 1 .. n : Body(a + 1, a + n)[i] = Changes(a + i)
<1>1. (a + n) + 1 - (a + 1) = n
  OBVIOUS
<1>2. \A i \in 1 .. n : (a + 1) + i - 1 = a + i
  OBVIOUS
<1> DEFINE c(i) == Changes(a + 1 + i - 1)
<1>3. Body(a + 1, a + n) = [i \in 1 .. n |-> c(i)]
  BY <1>1 DEF Body
<1>4. \A i \in 1 .. n : c(i) = Changes(a + i)
  BY <1>2
<1> HIDE DEF c
<1>5. Len([i \in 1 .. n |-> c(i)]) = n
  OBVIOUS
<1> QED BY <1>3, <1>4, <1>5

LEMMA BodyNone ==
  ASSUME NEW L, NEW a \in Nat
  PROVE  SetBody(L, Body(a + 1, a)) = L
<1>1. Len(Body(a + 1, a)) = 0
  <2>1. Len(Body(a + 1, a + 0)) = 0
    BY BodyIs
  <2> QED BY <2>1
<1> QED BY <1>1, SetBodyIs

LEMMA BodyLast ==
  ASSUME NEW L, NEW a \in Nat, NEW n \in Nat
  PROVE  SetBody(L, Body(a + 1, a + n + 1)) = SetLevels(SetBody(L, Body(a + 1, a + n)), Changes(a + n + 1))
<1> DEFINE s == Body(a + 1, a + (n + 1))
           t == Body(a + 1, a + n)
<1>1. Len(t) = n /\ \A i \in 1 .. n : t[i] = Changes(a + i)
  BY BodyIs
<1>2. Len(s) = n + 1 /\ \A i \in 1 .. n + 1 : s[i] = Changes(a + i)
  <2>1. n + 1 \in Nat
    OBVIOUS
  <2> QED BY <2>1, BodyIs
<1> HIDE DEF s, t
<1>3. \A i \in 1 .. n : s[i] = t[i]
  BY <1>1, <1>2
<1>4. SetBody(L, s) = SetLevels(SetBody(L, t), s[n + 1])
  BY <1>1, <1>2, <1>3, SetBodyLast
<1>5. s[n + 1] = Changes(a + (n + 1)) /\ a + (n + 1) = a + n + 1
  BY <1>2
<1> QED BY <1>4, <1>5 DEF s, t

\* A frame after another is one of both.
LEMMA BodyJoin ==
  ASSUME NEW L, NEW a \in Nat, NEW m \in Nat, NEW n \in Nat
  PROVE  SetBody(SetBody(L, Body(a + 1, a + m)), Body(a + m + 1, a + m + n))
           = SetBody(L, Body(a + 1, a + m + n))
<1> DEFINE M == SetBody(L, Body(a + 1, a + m))
           b == a + m
           T == {k \in Nat : SetBody(M, Body(b + 1, b + k)) = SetBody(L, Body(a + 1, b + k))}
<1>1. b \in Nat
  OBVIOUS
<1>2. 0 \in T
  <2>1. b + 0 = b
    OBVIOUS
  <2> QED BY <1>1, <2>1, BodyNone
<1>3. ASSUME NEW k \in Nat, k \in T PROVE k + 1 \in T
  <2>1. SetBody(M, Body(b + 1, b + k + 1)) = SetLevels(SetBody(M, Body(b + 1, b + k)), Changes(b + k + 1))
    BY <1>1, BodyLast
  <2>2. SetBody(L, Body(a + 1, b + k + 1)) = SetLevels(SetBody(L, Body(a + 1, b + k)), Changes(b + k + 1))
    <3> DEFINE j == m + k
    <3>1. j \in Nat /\ a + j = b + k /\ a + j + 1 = b + k + 1
      OBVIOUS
    <3> HIDE DEF j
    <3>2. SetBody(L, Body(a + 1, a + j + 1)) = SetLevels(SetBody(L, Body(a + 1, a + j)), Changes(a + j + 1))
      BY <3>1, BodyLast
    <3> QED BY <3>1, <3>2
  <2>3. SetBody(M, Body(b + 1, b + k)) = SetBody(L, Body(a + 1, b + k))
    BY <1>3
  <2>4. b + (k + 1) = b + k + 1
    BY <1>1
  <2> QED BY <2>1, <2>2, <2>3, <2>4
<1> HIDE DEF T
<1>4. n \in T
  BY <1>2, <1>3, Induction
<1> QED BY <1>4 DEF T

-----------------------------------------------------------------------------
(* The venue's books. *)

\* Every update is about one level and changes it.
Updated(k) ==
  \E q \in Nat : /\ q # VenueBook(k - 1)[touched[k]]
                /\ VenueBook(k) = [VenueBook(k - 1) EXCEPT ![touched[k]] = q]

VenueOK ==
  /\ touched \in Seq(Levels)
  /\ books \in Seq(Books) /\ Len(books) = Made + 1
  /\ \A k \in 1 .. Made : Updated(k)
  /\ \A n \in 0 .. Made : \A l \in Levels : VenueBook(n)[l] <= n

LEMMA VenueIs ==
  ASSUME VenueOK
  PROVE  /\ Made \in Nat
         /\ \A n \in 0 .. Made : VenueBook(n) \in Books
         /\ \A k \in 1 .. Made : touched[k] \in Levels
BY DEF VenueOK, Made, VenueBook

\* The update after n.
LEMMA NextUpdate ==
  ASSUME VenueOK, NEW n \in Nat, n + 1 <= Made
  PROVE  \E q \in Nat : /\ Around(VenueBook(n), VenueBook(n + 1), touched[n + 1], q)
                       /\ q # VenueBook(n)[touched[n + 1]]
<1>1. n + 1 \in 1 .. Made /\ (n + 1) - 1 = n /\ n \in 0 .. Made
  BY VenueIs
<1>2. Updated(n + 1)
  BY <1>1 DEF VenueOK
<1>3. touched[n + 1] \in Levels /\ VenueBook(n) \in Books
  BY <1>1, VenueIs
<1> QED BY <1>1, <1>2, <1>3 DEF Updated, Around

\* The view follows the updates.
LEMMA ViewFollows ==
  ASSUME VenueOK, NEW n \in Nat, n + 1 <= Made
  PROVE  SetLevels(View(n), Changes(n + 1)) = View(n + 1)
<1>1. PICK q \in Nat : Around(VenueBook(n), VenueBook(n + 1), touched[n + 1], q)
  BY NextUpdate
<1> DEFINE l == touched[n + 1]
           V == VenueBook(n)
           W == VenueBook(n + 1)
<1>2. View(n) = Capped(V) /\ View(n + 1) = Capped(W)
  BY ViewIs
<1>3. Changes(n + 1) = ChangesOf(View(n), View(n + 1), l)
  <2>1. (n + 1) - 1 = n
    OBVIOUS
  <2> QED BY <2>1, ChangesAre
<1> HIDE DEF l, V, W
<1>4. SetLevels(Capped(V), ChangesOf(Capped(V), Capped(W), l)) = Capped(W)
  BY <1>1, ChangesLead DEF l, V, W
<1> QED BY <1>2, <1>3, <1>4

LEMMA FramesLead ==
  ASSUME VenueOK, NEW p \in Nat, NEW n \in Nat, p + n <= Made
  PROVE  SetBody(View(p), Body(p + 1, p + n)) = View(p + n)
<1> DEFINE T == {k \in Nat : p + k <= Made => SetBody(View(p), Body(p + 1, p + k)) = View(p + k)}
<1>1. 0 \in T
  <2>1. p + 0 = p
    OBVIOUS
  <2> QED BY <2>1, BodyNone
<1>2. ASSUME NEW k \in Nat, k \in T PROVE k + 1 \in T
  <2> SUFFICES ASSUME p + (k + 1) <= Made PROVE SetBody(View(p), Body(p + 1, p + (k + 1))) = View(p + (k + 1))
    OBVIOUS
  <2>1. p + k \in Nat /\ p + k + 1 <= Made /\ p + k <= Made /\ p + (k + 1) = p + k + 1
    BY VenueIs
  <2>2. SetBody(View(p), Body(p + 1, p + k)) = View(p + k)
    BY <1>2, <2>1
  <2>3. SetBody(View(p), Body(p + 1, p + k + 1)) = SetLevels(View(p + k), Changes(p + k + 1))
    BY <2>2, BodyLast
  <2>4. SetLevels(View(p + k), Changes(p + k + 1)) = View(p + k + 1)
    BY <2>1, ViewFollows
  <2> QED BY <2>1, <2>3, <2>4
<1> HIDE DEF T
<1>3. n \in T
  BY <1>1, <1>2, Induction
<1> QED BY <1>3 DEF T

-----------------------------------------------------------------------------
(* What many updates make of a whole book. *)

\* The level is touched by none of the updates after n, up to m.
Untouched(l, n, m) == \A k \in n + 1 .. m : touched[k] # l

LEMMA UntouchedKept ==
  ASSUME VenueOK, NEW n \in Nat, NEW d \in Nat, n + d <= Made, NEW l \in Levels, Untouched(l, n, n + d)
  PROVE  VenueBook(n + d)[l] = VenueBook(n)[l]
<1> DEFINE T == {k \in Nat : k <= d => VenueBook(n + k)[l] = VenueBook(n)[l]}
<1>1. 0 \in T
  <2>1. n + 0 = n
    OBVIOUS
  <2> QED BY <2>1
<1>2. ASSUME NEW k \in Nat, k \in T PROVE k + 1 \in T
  <2> SUFFICES ASSUME k + 1 <= d PROVE VenueBook(n + (k + 1))[l] = VenueBook(n)[l]
    OBVIOUS
  <2>1. /\ n + k \in Nat /\ n + k + 1 <= Made /\ n + k + 1 \in n + 1 .. n + d
        /\ n + (k + 1) = n + k + 1
    BY VenueIs
  <2>2. PICK q \in Nat : Around(VenueBook(n + k), VenueBook(n + k + 1), touched[n + k + 1], q)
    BY <2>1, NextUpdate
  <2>3. touched[n + k + 1] # l
    BY <2>1 DEF Untouched
  <2>4. VenueBook(n + k + 1)[l] = VenueBook(n + k)[l]
    BY <2>2, <2>3, AroundIs
  <2>5. VenueBook(n + k)[l] = VenueBook(n)[l]
    BY <1>2
  <2> QED BY <2>1, <2>4, <2>5
<1> HIDE DEF T
<1>3. d \in T
  BY <1>1, <1>2, Induction
<1> QED BY <1>3 DEF T

\* What the updates after p, up to m, make of level l of book B.
SetOrKept(S, B, l, p, m) ==
  (S[l] = VenueBook(m)[l]) \/ (Untouched(l, p, m) /\ S[l] = B[l])

\* Updates that a whole book of the venue already has: each sets its level to
\* what the venue had there, and the levels they do not touch stay.
LEMMA Replayed ==
  ASSUME VenueOK, Cap = Prices, NEW B \in Books, NEW p \in Nat, NEW d \in Nat, p + d <= Made
  PROVE  /\ SetBody(B, Body(p + 1, p + d)) \in Books
         /\ \A l \in Levels : SetOrKept(SetBody(B, Body(p + 1, p + d)), B, l, p, p + d)
<1> DEFINE R(k) == SetBody(B, Body(p + 1, p + k))
           Holds(k) == R(k) \in Books /\ \A l \in Levels : SetOrKept(R(k), B, l, p, p + k)
           T == {k \in Nat : p + k <= Made => Holds(k)}
<1>1. 0 \in T
  <2>1. p + 0 = p
    OBVIOUS
  <2>2. R(0) = B
    BY <2>1, BodyNone
  <2>3. \A l \in Levels : Untouched(l, p, p + 0)
    BY DEF Untouched
  <2> HIDE DEF R
  <2> QED BY <2>2, <2>3 DEF SetOrKept
<1>2. ASSUME NEW k \in Nat, k \in T PROVE k + 1 \in T
  <2> SUFFICES ASSUME p + (k + 1) <= Made PROVE Holds(k + 1)
    OBVIOUS
  <2>1. /\ p + k \in Nat /\ p + k + 1 <= Made /\ p + k <= Made /\ p + (k + 1) = p + k + 1
        /\ p + k + 1 \in p + 1 .. p + k + 1
    BY VenueIs
  <2> DEFINE t == touched[p + k + 1]
             V == VenueBook(p + k)
             W == VenueBook(p + k + 1)
  <2>2. PICK q \in Nat : Around(V, W, t, q) /\ q # V[t]
    BY <2>1, NextUpdate
  <2>3. R(k) \in Books /\ \A l \in Levels : SetOrKept(R(k), B, l, p, p + k)
    BY <1>2, <2>1
  <2>4. R(k + 1) = SetLevels(R(k), Changes(p + k + 1))
    BY <2>1, BodyLast
  <2>5. Changes(p + k + 1) = ChangesOf(Capped(V), Capped(W), t)
    <3>1. (p + k + 1) - 1 = p + k
      BY <2>1
    <3>2. Changes(p + k + 1) = ChangesOf(View(p + k), View(p + k + 1), t)
      BY <3>1, ChangesAre
    <3> QED BY <3>2, ViewIs
  <2> HIDE DEF t, V, W, R
  <2>6. SetLevels(R(k), ChangesOf(Capped(V), Capped(W), t)) = [R(k) EXCEPT ![t] = q]
    BY <2>2, <2>3, PlainChanges
  <2>7. /\ t \in Levels /\ q \in Nat /\ W[t] = q
        /\ \A l \in Levels : l # t => W[l] = V[l]
    BY <2>2, AroundIs
  <2>10. R(k + 1) = [R(k) EXCEPT ![t] = q]
    BY <2>4, <2>5, <2>6
  <2>8. R(k + 1) \in Books /\ R(k + 1)[t] = q /\ \A l \in Levels : l # t => R(k + 1)[l] = R(k)[l]
    BY <2>3, <2>7, <2>10 DEF Books
  <2>9. ASSUME NEW l \in Levels
        PROVE  SetOrKept(R(k + 1), B, l, p, p + (k + 1))
    <3>1. CASE l = t
      BY <2>1, <2>7, <2>8, <3>1 DEF W, SetOrKept
    <3>2. CASE l # t
      <4>1. R(k + 1)[l] = R(k)[l] /\ VenueBook(p + k + 1)[l] = VenueBook(p + k)[l]
        BY <2>7, <2>8, <3>2 DEF V, W
      <4>2. Untouched(l, p, p + k) => Untouched(l, p, p + k + 1)
        <5>1. \A i \in p + 1 .. p + k + 1 : i = p + k + 1 \/ i \in p + 1 .. p + k
          BY <2>1
        <5> QED BY <3>2, <5>1 DEF Untouched, t
      <4>3. SetOrKept(R(k), B, l, p, p + k)
        BY <2>3
      <4> QED BY <2>1, <4>1, <4>2, <4>3 DEF SetOrKept
    <3> QED BY <3>1, <3>2
  <2> QED BY <2>8, <2>9
<1> HIDE DEF T
<1>3. d \in T
  BY <1>1, <1>2, Induction
<1> QED BY <1>3 DEF T

\* A whole book fetched at n reads the updates since an older one as well as
\* those it lacks, and is the venue's.
LEMMA FetchedLeads ==
  ASSUME VenueOK, Cap = Prices, NEW p \in Nat, NEW n \in Nat, p <= n, n <= Made
  PROVE  SetBody(VenueBook(n), Body(p + 1, Made)) = View(Made)
<1> DEFINE B == VenueBook(n)
           S == SetBody(B, Body(p + 1, Made))
           d == Made - p
<1>1. Made \in Nat /\ B \in Books /\ VenueBook(Made) \in Books
  BY VenueIs
<1>2. d \in Nat /\ p + d = Made
  BY <1>1
<1> HIDE DEF d, B
<1>3. S \in Books /\ \A l \in Levels : SetOrKept(S, B, l, p, Made)
  <2>1. p + d <= Made
    BY <1>1, <1>2
  <2>2. /\ SetBody(B, Body(p + 1, p + d)) \in Books
        /\ \A l \in Levels : SetOrKept(SetBody(B, Body(p + 1, p + d)), B, l, p, p + d)
    BY <1>1, <1>2, <2>1, Replayed
  <2> QED BY <1>2, <2>2
<1>4. ASSUME NEW l \in Levels, Untouched(l, p, Made) PROVE B[l] = VenueBook(Made)[l]
  <2> DEFINE e == Made - n
  <2>1. e \in Nat /\ n + e = Made
    BY <1>1
  <2> HIDE DEF e
  <2>2. Untouched(l, n, n + e)
    <3>1. \A k \in n + 1 .. Made : k \in p + 1 .. Made
      BY <1>1
    <3> QED BY <1>4, <2>1, <3>1 DEF Untouched
  <2>3. VenueBook(n + e)[l] = VenueBook(n)[l]
    BY <1>1, <2>1, <2>2, UntouchedKept
  <2> QED BY <2>1, <2>3 DEF B
<1> HIDE DEF S
<1>5. \A l \in Levels : S[l] = VenueBook(Made)[l]
  BY <1>3, <1>4 DEF SetOrKept
<1>6. S = VenueBook(Made)
  BY <1>1, <1>3, <1>5 DEF Books
<1>7. View(Made) = VenueBook(Made)
  BY <1>1, ViewIs, UncappedBook
<1> QED BY <1>6, <1>7 DEF S, B

-----------------------------------------------------------------------------
(* Frames applied one after the other. *)

FramesUpto(f, b, s, n) ==
  f = [i \in 0 .. n |-> IF i = 0 THEN b ELSE After(f[i - 1], s[i])]

LEMMA FramesExist ==
  ASSUME NEW b, NEW s, NEW n \in Nat
  PROVE  \E f : FramesUpto(f, b, s, n)
<1> DEFINE T == {k \in Nat : \E f : FramesUpto(f, b, s, k)}
<1>1. 0 \in T
  <2> DEFINE f == [i \in 0 .. 0 |-> b]
  <2>1. f = [i \in 0 .. 0 |-> IF i = 0 THEN b ELSE After(f[i - 1], s[i])]
    OBVIOUS
  <2> HIDE DEF f
  <2> QED BY <2>1 DEF FramesUpto
<1>2. ASSUME NEW k \in Nat, k \in T PROVE k + 1 \in T
  <2> PICK f : FramesUpto(f, b, s, k)
    BY <1>2
  <2> DEFINE g == [i \in 0 .. k + 1 |-> IF i = k + 1 THEN After(f[k], s[k + 1]) ELSE f[i]]
  <2>1. \A i \in 0 .. k : f[i] = IF i = 0 THEN b ELSE After(f[i - 1], s[i])
    BY DEF FramesUpto
  <2>2. ASSUME NEW i \in 0 .. k + 1
        PROVE  g[i] = IF i = 0 THEN b ELSE After(g[i - 1], s[i])
    <3>1. CASE i = k + 1
      <4>1. i # 0 /\ i - 1 = k /\ k \in 0 .. k + 1 /\ k # k + 1
        BY <3>1
      <4>2. g[i - 1] = f[k]
        BY <4>1
      <4>3. g[i] = After(f[k], s[i])
        BY <3>1
      <4> QED BY <4>1, <4>2, <4>3
    <3>2. CASE i # k + 1
      <4>1. i \in 0 .. k
        BY <3>2
      <4>2. g[i] = f[i]
        BY <3>2
      <4>3. CASE i = 0
        BY <2>1, <4>1, <4>2, <4>3
      <4>4. CASE i # 0
        <5>1. i - 1 \in 0 .. k + 1 /\ i - 1 # k + 1
          BY <4>1, <4>4
        <5>2. g[i - 1] = f[i - 1]
          BY <5>1
        <5>3. f[i] = After(f[i - 1], s[i])
          BY <2>1, <4>1, <4>4
        <5> QED BY <4>2, <4>4, <5>2, <5>3
      <4> QED BY <4>3, <4>4
    <3> QED BY <3>1, <3>2
  <2>3. \A i \in 0 .. k + 1 : g[i] = IF i = 0 THEN b ELSE After(g[i - 1], s[i])
    BY <2>2
  <2>4. g = [i \in 0 .. k + 1 |-> g[i]]
    OBVIOUS
  <2> HIDE DEF g
  <2>5. g = [i \in 0 .. k + 1 |-> IF i = 0 THEN b ELSE After(g[i - 1], s[i])]
    BY <2>3, <2>4
  <2> QED BY <2>5 DEF FramesUpto
<1> HIDE DEF T
<1>3. n \in T
  BY <1>1, <1>2, Induction
<1> QED BY <1>3 DEF T

LEMMA AfterAllIs ==
  ASSUME NEW b, NEW s, Len(s) \in Nat
  PROVE  \E f : /\ f[0] = b /\ AfterAll(b, s) = f[Len(s)]
                /\ \A n \in 1 .. Len(s) : f[n] = After(f[n - 1], s[n])
<1> DEFINE f == CHOOSE g : FramesUpto(g, b, s, Len(s))
<1>1. FramesUpto(f, b, s, Len(s))
  BY FramesExist
<1>2. AfterAll(b, s) = f[Len(s)]
  BY DEF AfterAll, FramesUpto
<1> HIDE DEF f
<1>3. \A n \in 0 .. Len(s) : f[n] = IF n = 0 THEN b ELSE After(f[n - 1], s[n])
  BY <1>1 DEF FramesUpto
<1>4. f[0] = b
  BY <1>3
<1>5. \A n \in 1 .. Len(s) : f[n] = After(f[n - 1], s[n])
  BY <1>3
<1> QED BY <1>2, <1>4, <1>5

-----------------------------------------------------------------------------
(* What does not change while the venue goes on. *)

\* The books a step of the code depends on by the depth alone.
SetLevelAt(cap, levels, c) ==
  [l \in Levels |-> IF l \in Best([levels EXCEPT ![c.level] = c.qty], cap)
                    THEN [levels EXCEPT ![c.level] = c.qty][l] ELSE 0]

SetLevelsAt(cap, levels, changes) ==
  LET after[n \in 0 .. Len(changes)] ==
        IF n = 0 THEN levels ELSE SetLevelAt(cap, after[n - 1], changes[n])
  IN  after[Len(changes)]

SetBodyAt(cap, levels, body) ==
  LET after[n \in 0 .. Len(body)] ==
        IF n = 0 THEN levels ELSE SetLevelsAt(cap, after[n - 1], body[n])
  IN  after[Len(body)]

LEMMA SetBodyKept ==
  ASSUME feed' = feed, NEW L, NEW s
  PROVE  SetBody(L, s)' = SetBody(L, s)
<1>1. SetBody(L, s) = SetBodyAt(Cap, L, s)
  BY DEF SetBody, SetBodyAt, SetLevels, SetLevelsAt, SetLevel, SetLevelAt, Capped
<1>2. SetBody(L, s)' = SetBodyAt(Cap', L, s)
  BY DEF SetBody, SetBodyAt, SetLevels, SetLevelsAt, SetLevel, SetLevelAt, Capped
<1>3. Cap' = Cap
  BY DEF Cap
<1> QED BY <1>1, <1>2, <1>3

-----------------------------------------------------------------------------
(* The venue goes on. *)

VenueGrows ==
  /\ feed' = feed /\ VenueOK /\ VenueOK' /\ Made <= Made'
  /\ \A n \in 0 .. Made : VenueBook(n)' = VenueBook(n)
  /\ \A k \in 1 .. Made : touched'[k] = touched[k]

LEMMA VenueRests ==
  ASSUME VenueOK, UNCHANGED <<feed, books, touched>>
  PROVE  VenueGrows /\ Made' = Made
<1>1. Made' = Made /\ Made \in Nat
  BY VenueIs DEF Made
<1>2. \A n : VenueBook(n)' = VenueBook(n)
  BY DEF VenueBook
<1>3. VenueOK'
  <2>1. \A k : Updated(k) => Updated(k)'
    BY <1>2 DEF Updated
  <2> QED BY <1>1, <1>2, <2>1 DEF VenueOK
<1> QED BY <1>1, <1>2, <1>3 DEF VenueGrows

LEMMA VenueMoves ==
  ASSUME VenueOK, feed' = feed, NEW l \in Levels, VenueUpdate(l)
  PROVE  VenueGrows /\ Made' = Made + 1
<1>1. PICK q \in {Made + 1} \cup (IF VenueBook(Made)[l] = 0 THEN {} ELSE {0}) :
        books' = Append(books, [VenueBook(Made) EXCEPT ![l] = q])
  BY DEF VenueUpdate
<1>2. touched' = Append(touched, l)
  BY DEF VenueUpdate
<1> DEFINE V == VenueBook(Made)
           W == [V EXCEPT ![l] = q]
<1>3. /\ touched \in Seq(Levels) /\ books \in Seq(Books) /\ Made \in Nat /\ Made = Len(touched)
      /\ Len(books) = Made + 1 /\ V \in Books /\ V[l] \in Nat /\ V[l] <= Made
  <2>1. V \in Books /\ Made \in Nat
    BY VenueIs
  <2>2. V[l] <= Made
    BY <2>1 DEF VenueOK
  <2> QED BY <2>1, <2>2 DEF VenueOK, Books, Made
<1>4. q \in Nat /\ q <= Made + 1 /\ q # V[l]
  BY <1>3
<1> HIDE DEF V
<1>5. W \in Books /\ W[l] = q /\ \A m \in Levels : m # l => W[m] = V[m]
  BY <1>3, <1>4 DEF Books
<1>6. books' = Append(books, W)
  BY <1>1 DEF V
<1> HIDE DEF W
<1>7. /\ touched' \in Seq(Levels) /\ books' \in Seq(Books)
      /\ Len(touched') = Made + 1 /\ Len(books') = Made + 2
      /\ \A k \in 1 .. Made : touched'[k] = touched[k]
      /\ touched'[Made + 1] = l
      /\ \A n \in 1 .. Made + 1 : books'[n] = books[n]
      /\ books'[Made + 2] = W
  BY <1>2, <1>3, <1>5, <1>6
<1>8. Made' = Made + 1
  BY <1>7 DEF Made
<1>9. \A n \in 0 .. Made : VenueBook(n)' = VenueBook(n)
  BY <1>3, <1>7 DEF VenueBook
<1>10. \A n : VenueBook(n)' = books'[n + 1]
  BY DEF VenueBook
<1>11. ASSUME NEW k \in 1 .. Made' PROVE Updated(k)'
  <2>1. CASE k = Made + 1
    <3>3. k - 1 = Made /\ k - 1 \in 0 .. Made /\ k + 1 = Made + 2 /\ touched'[k] = l
      BY <1>3, <1>7, <2>1
    <3>4. VenueBook(k)' = W
      BY <1>7, <1>10, <3>3
    <3>5. VenueBook(k - 1)' = VenueBook(k - 1)
      BY <1>9, <3>3
    <3>1. touched'[k] = l /\ VenueBook(k)' = W /\ VenueBook(k - 1)' = V
      BY <3>3, <3>4, <3>5 DEF V
    <3>2. q # V[l] /\ W = [V EXCEPT ![l] = q]
      BY <1>4 DEF W
    <3> QED BY <1>4, <3>1, <3>2 DEF Updated
  <2>2. CASE k # Made + 1
    <3>1. k \in 1 .. Made /\ k \in 0 .. Made /\ k - 1 \in 0 .. Made
      BY <1>3, <1>8, <2>2
    <3>2. Updated(k) /\ touched'[k] = touched[k] /\ VenueBook(k)' = VenueBook(k)
          /\ VenueBook(k - 1)' = VenueBook(k - 1)
      BY <1>7, <1>9, <3>1 DEF VenueOK
    <3> QED BY <3>2 DEF Updated
  <2> QED BY <2>1, <2>2
<1>12. ASSUME NEW n \in 0 .. Made', NEW m \in Levels PROVE VenueBook(n)'[m] <= n
  <2>1. CASE n = Made + 1
    <3>1. \A i \in 0 .. Made : \A j \in Levels : VenueBook(i)[j] <= i
      BY DEF VenueOK
    <3>2. V[m] <= Made
      BY <1>3, <3>1 DEF V
    <3>3. V[m] \in Nat
      BY <1>3 DEF Books
    <3>4. n + 1 = Made + 2
      BY <1>3, <2>1
    <3>5. VenueBook(n)' = W
      BY <1>7, <1>10, <3>4
    <3> QED BY <1>3, <1>4, <1>5, <2>1, <3>2, <3>3, <3>5
  <2>2. CASE n # Made + 1
    <3>1. n \in 0 .. Made
      BY <1>3, <1>8, <2>2
    <3> QED BY <1>9, <3>1 DEF VenueOK
  <2> QED BY <2>1, <2>2
<1>13. VenueOK'
  BY <1>3, <1>7, <1>8, <1>11, <1>12 DEF VenueOK
<1> QED BY <1>3, <1>7, <1>8, <1>9, <1>13 DEF VenueGrows

LEMMA VenueStarts ==
  ASSUME ChannelInit
  PROVE  VenueOK /\ Made = 0
<1>1. touched = <<>> /\ books = <<Empty>>
  BY DEF ChannelInit
<1>2. Made = 0
  BY <1>1 DEF Made
<1>3. Empty \in Books /\ \A l \in Levels : Empty[l] = 0
  BY DEF Empty, Books
<1>4. books \in Seq(Books) /\ Len(books) = 1 /\ books[1] = Empty
  <2> HIDE DEF Empty
  <2> QED BY <1>1, <1>3
<1>5. VenueBook(0) = Empty
  BY <1>4 DEF VenueBook
<1>6. touched \in Seq(Levels)
  BY <1>1
<1>7. \A n \in 0 .. Made : n = 0
  BY <1>2
<1>8. \A k \in 1 .. Made : Updated(k)
  BY <1>2
<1> QED BY <1>2, <1>3, <1>4, <1>5, <1>6, <1>7, <1>8 DEF VenueOK

\* What it has shown and sent stays.
LEMMA Shown ==
  ASSUME VenueGrows
  PROVE  /\ \A n \in 0 .. Made : View(n)' = View(n)
         /\ \A k \in 1 .. Made : Changes(k)' = Changes(k)
<1>1. Cap' = Cap
  BY DEF VenueGrows, Cap
<1>2. ASSUME NEW n \in 0 .. Made PROVE View(n)' = View(n)
  <2>1. VenueBook(n)' = VenueBook(n)
    BY DEF VenueGrows
  <2> QED BY <1>1, <2>1 DEF View
<1>3. ASSUME NEW k \in 1 .. Made PROVE Changes(k)' = Changes(k)
  <2>1. k \in 0 .. Made /\ k - 1 \in 0 .. Made
    BY VenueIs DEF VenueGrows
  <2>2. touched'[k] = touched[k]
    BY DEF VenueGrows
  <2>3. Changes(k)' = ChangesOf(View(k - 1)', View(k)', touched'[k])
    BY DEF Changes, ChangesOf, Change, Entering
  <2> QED BY <1>2, <2>1, <2>2, <2>3, ChangesAre
<1> QED BY <1>2, <1>3

LEMMA BodyKept ==
  ASSUME VenueGrows, NEW a \in Nat, NEW b \in Nat, 1 <= a, b <= Made
  PROVE  Body(a, b)' = Body(a, b)
<1>1. Made \in Nat
  BY VenueIs DEF VenueGrows
<1>2. \A i \in 1 .. b + 1 - a : a + i - 1 \in 1 .. Made
  BY <1>1
<1>3. \A i \in 1 .. b + 1 - a : Changes(a + i - 1)' = Changes(a + i - 1)
  BY <1>2, Shown
<1> QED BY <1>3 DEF Body

-----------------------------------------------------------------------------
(* The frames on the way, and what a book makes of them. *)

Frames == 1 .. Len(wire)
IsUpdate(i) == wire[i].type = "update"
IsSnapshot(i) == wire[i].type = "snapshot"

UpdateIs(f) ==
  f.first \in Nat \ {0} /\ f.final \in f.first .. sent /\ f.body = Body(f.first, f.final)
SnapshotIs(f) ==
  f.final \in 0 .. sent /\ SetBody(Empty, f.body) = View(f.final)

\* What is on the way is what the venue did and showed.
FramesOK ==
  \A i \in Frames : /\ IsUpdate(i) => UpdateIs(wire[i]) /\ mended < wire[i].first
                    /\ IsSnapshot(i) => SnapshotIs(wire[i])

\* A snapshot comes first, and the updates in order.
OrderOK ==
  \A i, j \in Frames : i < j =>
    /\ IsUpdate(i) /\ IsUpdate(j) => wire[i].final < wire[j].first
    /\ IsSnapshot(j) => ~IsUpdate(i) /\ ~IsSnapshot(i)
    /\ IsSnapshot(i) /\ IsUpdate(j) => wire[i].final < wire[j].first

\* Update k is in a frame behind the first n.
Covered(n, k) ==
  \E i \in Frames : n < i /\ IsUpdate(i) /\ wire[i].first <= k /\ k <= wire[i].final

\* A frame on the way is older than update k, or is about it.
Awaited(k) ==
  \E i \in Frames : (IsSnapshot(i) /\ wire[i].final < k) \/ (IsUpdate(i) /\ wire[i].first <= k)

\* Nothing is lost after the last loss: an update that is awaited is on the way.
Whole == \A k \in lostTo + 1 .. sent : Awaited(k) => Covered(0, k)

Numbers == sent \in 0 .. Made /\ lostTo \in 0 .. sent /\ mended \in 0 .. sent

WireInv == VenueOK /\ WireIsSeq /\ Numbers /\ FramesOK /\ OrderOK /\ Whole

\* All frames behind the first n, and only they, are about what follows
\* update p.
AtPos(n, p) ==
  /\ p \in lostTo .. sent
  /\ \A i \in Frames : n < i /\ IsUpdate(i) => p < wire[i].first
  /\ \A k \in p + 1 .. sent : Covered(n, k)

\* The updates after p turn the levels into the venue's view.
Agrees(L, p) ==
  SetBody(L, Body(p + 1, Made)) = View(Made) /\ (feed = "kraken" => L = View(p))

\* No snapshot newer than the last is on the way, or without a session no
\* update since then was sent.
Caught ==
  IF up THEN \A i \in Frames : IsSnapshot(i) => wire[i].final <= mended ELSE sent <= mended

BookAgrees ==
  book.sync = "Synced" /\ lostTo <= mended /\ Caught =>
    \E p : AtPos(0, p) /\ Agrees(book.levels, p)

-----------------------------------------------------------------------------
LEMMA ViewAgrees ==
  ASSUME VenueOK, NEW p \in Nat, p <= Made
  PROVE  Agrees(View(p), p)
<1> DEFINE d == Made - p
<1>1. d \in Nat /\ p + d = Made
  BY VenueIs
<1> HIDE DEF d
<1>2. p + d <= Made
  BY <1>1
<1>3. SetBody(View(p), Body(p + 1, p + d)) = View(p + d)
  BY <1>1, <1>2, FramesLead
<1> QED BY <1>1, <1>3 DEF Agrees

\* Frame n + 1 is applied: the updates that follow are those behind it.
LEMMA PosStep ==
  ASSUME WireInv, NEW n \in Nat, n + 1 <= Len(wire), NEW L, NEW p, AtPos(n, p), Agrees(L, p),
         ~IsSnapshot(n + 1)
  PROVE  \E q : /\ AtPos(n + 1, q) /\ Agrees(After(L, wire[n + 1]), q)
                /\ IsUpdate(n + 1) => q = wire[n + 1].final
<1>1. /\ Len(wire) \in Nat /\ n + 1 \in Frames /\ Made \in Nat
      /\ sent \in 0 .. Made /\ lostTo \in 0 .. sent /\ p \in Nat /\ p <= sent /\ lostTo <= p
  <2>1. Len(wire) \in Nat
    BY DEF WireInv, WireIsSeq
  <2>2. Made \in Nat
    BY VenueIs DEF WireInv
  <2> QED BY <2>1, <2>2 DEF WireInv, Numbers, AtPos, Frames
<1>2. CASE ~IsUpdate(n + 1)
  <2>1. After(L, wire[n + 1]) = L
    BY <1>2 DEF After, IsUpdate, IsSnapshot
  <2>2. \A i \in Frames : n < i /\ IsUpdate(i) => n + 1 < i
    BY <1>1, <1>2 DEF Frames
  <2>3. \A i \in Frames : n + 1 < i => n < i
    BY <1>1 DEF Frames
  <2>4. AtPos(n + 1, p)
    BY <2>2, <2>3 DEF AtPos, Covered
  <2> QED BY <1>2, <2>1, <2>4
<1>3. CASE IsUpdate(n + 1)
  <2> DEFINE f == wire[n + 1]
  <2>1. /\ f.first \in Nat /\ f.final \in Nat /\ 1 <= f.first /\ f.first <= f.final /\ f.final <= sent
        /\ f.body = Body(f.first, f.final)
    BY <1>1, <1>3 DEF WireInv, FramesOK, UpdateIs
  <2>2. p < f.first
    BY <1>1, <1>3 DEF AtPos
  <2>3. \A i \in Frames : n < i => i = n + 1 \/ n + 1 < i
    BY <1>1 DEF Frames
  <2>4. \A i \in Frames : n + 1 < i /\ IsUpdate(i) => f.final < wire[i].first /\ wire[i].first \in Nat
    BY <1>1, <1>3 DEF WireInv, OrderOK, FramesOK, UpdateIs
  <2>5. p + 1 = f.first
    <3>1. CASE p + 1 < f.first
      <4>1. p + 1 \in p + 1 .. sent
        BY <1>1, <2>1, <3>1
      <4>2. PICK i \in Frames : n < i /\ IsUpdate(i) /\ wire[i].first <= p + 1
        BY <4>1 DEF AtPos, Covered
      <4>3. i # n + 1
        BY <1>1, <2>1, <3>1, <4>2
      <4>4. f.final < wire[i].first /\ wire[i].first \in Nat
        BY <2>3, <2>4, <4>2, <4>3
      <4> QED BY <1>1, <2>1, <3>1, <4>2, <4>4
    <3> QED BY <1>1, <2>1, <2>2, <3>1
  <2>6. AtPos(n + 1, f.final)
    <3>1. f.final \in lostTo .. sent
      BY <1>1, <2>1, <2>5
    <3>2. \A i \in Frames : n + 1 < i /\ IsUpdate(i) => f.final < wire[i].first
      BY <2>4
    <3>3. ASSUME NEW k \in f.final + 1 .. sent PROVE Covered(n + 1, k)
      <4>1. k \in p + 1 .. sent /\ k \in Int /\ f.final < k
        BY <1>1, <2>1, <2>5
      <4>2. PICK i \in Frames : n < i /\ IsUpdate(i) /\ wire[i].first <= k /\ k <= wire[i].final
        BY <4>1 DEF AtPos, Covered
      <4>3. i # n + 1
        BY <2>1, <4>1, <4>2
      <4>4. n + 1 < i
        BY <2>3, <4>2, <4>3
      <4> QED BY <4>2, <4>4 DEF Covered
    <3> QED BY <3>1, <3>2, <3>3 DEF AtPos
  <2>7. After(L, f) = SetBody(L, Body(p + 1, f.final))
    BY <1>3, <2>1, <2>5 DEF After, IsUpdate
  <2> DEFINE m == f.final - p
             d == Made - f.final
  <2>8. m \in Nat /\ d \in Nat /\ p + m = f.final /\ p + m + d = Made
    BY <1>1, <2>1, <2>5
  <2> HIDE DEF m, d
  <2>9. SetBody(SetBody(L, Body(p + 1, p + m)), Body(p + m + 1, p + m + d)) = SetBody(L, Body(p + 1, p + m + d))
    BY <1>1, <2>8, BodyJoin
  <2>10. SetBody(After(L, f), Body(f.final + 1, Made)) = View(Made)
    BY <2>7, <2>8, <2>9 DEF Agrees
  <2>11. ASSUME feed = "kraken" PROVE After(L, f) = View(f.final)
    <3>1. L = View(p)
      BY <2>11 DEF Agrees
    <3>2. p + m <= Made /\ VenueOK
      BY <1>1, <2>1, <2>8 DEF WireInv
    <3>3. SetBody(View(p), Body(p + 1, p + m)) = View(p + m)
      BY <1>1, <2>8, <3>2, FramesLead
    <3> QED BY <2>7, <2>8, <3>1, <3>3
  <2>12. Agrees(After(L, f), f.final)
    BY <2>10, <2>11 DEF Agrees
  <2> QED BY <2>6, <2>12
<1> QED BY <1>2, <1>3

\* A snapshot is applied that no loss came after.
LEMMA SnapPos ==
  ASSUME WireInv, NEW i \in Frames, IsSnapshot(i), lostTo <= wire[i].final, NEW L
  PROVE  /\ AtPos(i, wire[i].final) /\ After(L, wire[i]) = View(wire[i].final)
         /\ Agrees(After(L, wire[i]), wire[i].final)
<1> DEFINE F == wire[i].final
<1>1. F \in 0 .. sent /\ SetBody(Empty, wire[i].body) = View(F)
  BY DEF WireInv, FramesOK, SnapshotIs
<1>2. /\ Made \in Nat /\ sent \in 0 .. Made /\ lostTo \in 0 .. sent /\ F \in Nat /\ F <= Made
      /\ F \in lostTo .. sent /\ Frames \subseteq Nat /\ i \in Nat
  <2>1. Made \in Nat
    BY VenueIs DEF WireInv
  <2>2. sent \in 0 .. Made /\ lostTo \in 0 .. sent
    BY DEF WireInv, Numbers
  <2> QED BY <1>1, <2>1, <2>2 DEF Frames
<1>3. After(L, wire[i]) = View(F)
  BY <1>1 DEF After, IsSnapshot
<1>4. \A j \in Frames : i < j /\ IsUpdate(j) => F < wire[j].first
  BY DEF WireInv, OrderOK
<1>5. ASSUME NEW k \in F + 1 .. sent PROVE Covered(i, k)
  <2>1. k \in lostTo + 1 .. sent /\ F < k
    BY <1>2
  <2>2. Covered(0, k)
    <3>1. Awaited(k)
      BY <2>1 DEF Awaited
    <3> QED BY <2>1, <3>1 DEF WireInv, Whole
  <2>3. PICK j \in Frames : IsUpdate(j) /\ wire[j].first <= k /\ k <= wire[j].final
    BY <2>2 DEF Covered
  <2>4. ~(j < i)
    BY <2>3 DEF WireInv, OrderOK
  <2>5. j # i
    BY <2>3 DEF IsUpdate, IsSnapshot
  <2>6. i < j
    BY <1>2, <2>4, <2>5
  <2> QED BY <2>3, <2>6 DEF Covered
<1>6. Agrees(View(F), F)
  BY <1>2, ViewAgrees DEF WireInv
<1> QED BY <1>2, <1>3, <1>4, <1>5, <1>6 DEF AtPos

\* From a position in the wire the rest of it and what is left to send lead
\* to the venue's view.
LEMMA WireLeads ==
  ASSUME WireInv, NEW f, NEW W, W = Append(wire, UpdateFrame(sent + 1, Made)),
         \A k \in 1 .. Len(W) : f[k] = After(f[k - 1], W[k]),
         NEW n \in Nat, n <= Len(wire), NEW p, AtPos(n, p), Agrees(f[n], p),
         \A i \in Frames : n < i => ~IsSnapshot(i)
  PROVE  f[Len(W)] = View(Made)
<1> DEFINE T == {k \in Nat : n + k <= Len(wire) => \E q : AtPos(n + k, q) /\ Agrees(f[n + k], q)}
<1>1. /\ Len(wire) \in Nat /\ Len(W) = Len(wire) + 1
      /\ \A k \in 1 .. Len(wire) : W[k] = wire[k]
      /\ W[Len(wire) + 1] = UpdateFrame(sent + 1, Made)
  <2> DEFINE u == UpdateFrame(sent + 1, Made)
  <2>1. PICK S : wire \in Seq(S)
    BY DEF WireInv, WireIsSeq
  <2> HIDE DEF u
  <2>2. wire \in Seq(S \cup {u}) /\ W = Append(wire, u)
    BY <2>1 DEF u
  <2>3. /\ Len(wire) \in Nat /\ Len(W) = Len(wire) + 1
        /\ \A k \in 1 .. Len(wire) : W[k] = wire[k]
        /\ W[Len(wire) + 1] = u
    BY <2>2
  <2> QED BY <2>3 DEF u
<1>2. 0 \in T
  <2>1. n + 0 = n
    OBVIOUS
  <2> QED BY <2>1
<1>3. ASSUME NEW k \in Nat, k \in T PROVE k + 1 \in T
  <2> SUFFICES ASSUME n + (k + 1) <= Len(wire)
               PROVE  \E q : AtPos(n + (k + 1), q) /\ Agrees(f[n + (k + 1)], q)
    OBVIOUS
  <2> DEFINE m == n + k
  <2>1. /\ m \in Nat /\ m + 1 <= Len(wire) /\ m <= Len(wire) /\ n + (k + 1) = m + 1 /\ m + 1 - 1 = m
        /\ m + 1 \in Frames /\ n < m + 1 /\ m + 1 \in 1 .. Len(W)
    BY <1>1 DEF Frames
  <2>2. PICK q : AtPos(m, q) /\ Agrees(f[m], q)
    BY <1>3, <2>1
  <2> HIDE DEF m
  <2>3. ~IsSnapshot(m + 1)
    BY <2>1
  <2>4. \E r : AtPos(m + 1, r) /\ Agrees(After(f[m], wire[m + 1]), r)
    BY <2>1, <2>2, <2>3, PosStep
  <2>5. f[m + 1] = After(f[m], wire[m + 1])
    BY <1>1, <2>1 DEF Frames
  <2> QED BY <2>1, <2>4, <2>5
<1> HIDE DEF T
<1>4. \A k \in Nat : k \in T
  BY <1>2, <1>3, Induction
<1> DEFINE N == Len(wire)
<1>5. PICK q : AtPos(N, q) /\ Agrees(f[N], q)
  <2> DEFINE d == N - n
  <2>1. d \in Nat /\ n + d = N
    BY <1>1
  <2>2. d \in T
    BY <1>4, <2>1
  <2> QED BY <2>1, <2>2 DEF T
<1>6. q = sent
  <2>1. q \in lostTo .. sent /\ \A k \in q + 1 .. sent : Covered(N, k)
    BY <1>5 DEF AtPos
  <2>2. \A k : ~Covered(N, k)
    BY <1>1 DEF Covered, Frames
  <2>3. q \in Int /\ sent \in Int /\ q <= sent
    BY <2>1, VenueIs DEF WireInv, Numbers
  <2>4. q + 1 \notin q + 1 .. sent
    BY <2>1, <2>2
  <2> QED BY <2>3, <2>4
<1>7. f[N + 1] = After(f[N], UpdateFrame(sent + 1, Made))
  <2>1. N + 1 \in 1 .. Len(W) /\ (N + 1) - 1 = N
    BY <1>1
  <2> QED BY <1>1, <2>1
<1>8. After(f[N], UpdateFrame(sent + 1, Made)) = SetBody(f[N], Body(sent + 1, Made))
  BY DEF After, UpdateFrame, FrameOf, Body
<1>9. SetBody(f[N], Body(sent + 1, Made)) = View(Made)
  BY <1>5, <1>6 DEF Agrees
<1> QED BY <1>1, <1>7, <1>8, <1>9

LEMMA InStepFollows ==
  ASSUME WireInv, BookAgrees
  PROVE  InStep
<1> DEFINE W == Append(wire, UpdateFrame(sent + 1, Made))
<1> SUFFICES ASSUME up, book.sync = "Synced", lostTo <= Mended
             PROVE  AfterAll(book.levels, W) = View(Made)
  BY DEF InStep
<1>1. Len(wire) \in Nat /\ Len(W) \in Nat
  <2> DEFINE u == UpdateFrame(sent + 1, Made)
  <2>1. PICK S : wire \in Seq(S)
    BY DEF WireInv, WireIsSeq
  <2> HIDE DEF u
  <2>2. wire \in Seq(S \cup {u}) /\ W = Append(wire, u)
    BY <2>1 DEF u
  <2> QED BY <2>2
<1> HIDE DEF W
<1>2. PICK f : /\ f[0] = book.levels /\ AfterAll(book.levels, W) = f[Len(W)]
               /\ \A k \in 1 .. Len(W) : f[k] = After(f[k - 1], W[k])
  BY <1>1, AfterAllIs
<1>3. W = Append(wire, UpdateFrame(sent + 1, Made))
  BY DEF W
<1>4. CASE \A i \in Frames : ~IsSnapshot(i)
  <2>1. {i \in DOMAIN wire : wire[i].type = "snapshot"} = {}
    <3>1. DOMAIN wire = Frames
      BY DEF WireInv, WireIsSeq, Frames
    <3> QED BY <1>4, <3>1 DEF IsSnapshot
  <2>2. lostTo <= mended
    BY <2>1 DEF Mended
  <2>3. Caught
    BY <1>4 DEF Caught
  <2>4. PICK p : AtPos(0, p) /\ Agrees(book.levels, p)
    BY <2>2, <2>3 DEF BookAgrees
  <2>5. 0 \in Nat /\ 0 <= Len(wire) /\ Agrees(f[0], p)
    BY <1>1, <1>2, <2>4
  <2>6. f[Len(W)] = View(Made)
    BY <1>2, <1>3, <1>4, <2>4, <2>5, WireLeads
  <2> QED BY <1>2, <2>6
<1>5. CASE \E i \in Frames : IsSnapshot(i)
  <2>1. PICK i \in Frames : IsSnapshot(i)
    BY <1>5
  <2>2. \A j \in Frames : IsSnapshot(j) => j = i
    <3>1. i \in Nat /\ \A j \in Frames : j \in Nat
      BY DEF Frames
    <3> QED BY <2>1, <3>1 DEF WireInv, OrderOK
  <2>3. Mended = wire[i].final
    <3>1. DOMAIN wire = Frames
      BY DEF WireInv, WireIsSeq, Frames
    <3>2. {j \in DOMAIN wire : wire[j].type = "snapshot"} = {i}
      BY <2>1, <2>2, <3>1 DEF IsSnapshot
    <3>3. i \in Nat
      BY DEF Frames
    <3>4. (CHOOSE k \in {i} : \A j \in {i} : j <= k) = i
      BY <3>3
    <3> QED BY <3>2, <3>4 DEF Mended
  <2>4. /\ i \in Nat /\ i <= Len(wire) /\ i \in 1 .. Len(W) /\ W[i] = wire[i]
    <3> DEFINE u == UpdateFrame(sent + 1, Made)
    <3>1. PICK S : wire \in Seq(S)
      BY DEF WireInv, WireIsSeq
    <3> HIDE DEF u
    <3>2. wire \in Seq(S \cup {u}) /\ W = Append(wire, u)
      BY <1>3, <3>1 DEF u
    <3> QED BY <3>2 DEF Frames
  <2>5. f[i] = After(f[i - 1], wire[i])
    BY <1>2, <2>4
  <2>6. AtPos(i, wire[i].final) /\ Agrees(f[i], wire[i].final)
    BY <2>1, <2>3, <2>5, SnapPos
  <2>7. \A j \in Frames : i < j => ~IsSnapshot(j)
    BY <2>2, <2>4 DEF Frames
  <2>8. f[Len(W)] = View(Made)
    BY <1>2, <1>3, <2>4, <2>6, <2>7, WireLeads
  <2> QED BY <1>2, <2>8
<1> QED BY <1>4, <1>5

-----------------------------------------------------------------------------
(* What a snapshot shows. *)

\* A snapshot lists every level of the view once.
LEMMA ListOfSet ==
  ASSUME NEW S, IsFiniteSet(S)
  PROVE  LET s == SetToSeq(S)
         IN  /\ Len(s) \in Nat /\ \A i \in 1 .. Len(s) : s[i] \in S
             /\ \A x \in S : \E i \in 1 .. Len(s) : s[i] = x
<1> DEFINE n == Cardinality(S)
           s == SetToSeq(S)
<1>1. n \in Nat /\ ExistsBijection(1 .. n, S)
  BY FS_CardinalityType
<1>2. PICK f : f \in [1 .. n -> S] /\ IsInjective(f)
  BY <1>1 DEF ExistsBijection, Bijection, Injection
<1>3. s \in [1 .. n -> S] /\ IsInjective(s)
  BY <1>2 DEF SetToSeq
<1>4. Cardinality(1 .. n) = n
  <2> HIDE DEF n
  <2>1. Cardinality(1 .. n) = IF 1 > n THEN 0 ELSE n - 1 + 1
    BY <1>1, FS_Interval
  <2> QED BY <1>1, <2>1
<1>5. s \in Surjection(1 .. n, S)
  <2>1. s \in Injection(1 .. n, S)
    BY <1>3 DEF Injection
  <2> HIDE DEF s
  <2> QED BY <1>4, <2>1, FS_Injection
<1>6. \A x \in S : \E i \in 1 .. n : s[i] = x
  BY <1>5 DEF Surjection
<1> HIDE DEF s
<1>7. Len(s) = n /\ \A i \in 1 .. n : s[i] \in S
  <2> HIDE DEF n
  <2> QED BY <1>1, <1>3
<1> QED BY <1>1, <1>6, <1>7 DEF s

LEMMA ListedLevels ==
  ASSUME NEW V \in Books, NEW s, Len(s) \in Nat,
         \A i \in 1 .. Len(s) : \E l \in Present(Capped(V)) : s[i] = [level |-> l, qty |-> Capped(V)[l]],
         \A l \in Present(Capped(V)) : \E i \in 1 .. Len(s) : s[i].level = l
  PROVE  SetLevels(Empty, s) = Capped(V)
<1> DEFINE view == Capped(V)
           Listed(n) == {s[i].level : i \in 1 .. n}
           Part(n) == [l \in Levels |-> IF l \in Listed(n) THEN view[l] ELSE 0]
<1>1. view \in Books /\ Present(view) = Top(Present(V), Cap) /\ Present(view) \subseteq Levels
  BY CappedIs DEF Present
<1>2. PICK f : /\ f[0] = Empty /\ SetLevels(Empty, s) = f[Len(s)]
               /\ \A n \in 1 .. Len(s) : f[n] = SetLevel(f[n - 1], s[n])
  BY SetLevelsIs
<1> HIDE DEF view
<1> DEFINE T == {n \in Nat : n <= Len(s) => f[n] = Part(n)}
<1>3. 0 \in T
  <2>1. Listed(0) = {}
    OBVIOUS
  <2> HIDE DEF Listed
  <2>2. Part(0) = Empty
    BY <2>1 DEF Empty
  <2> QED BY <1>2, <2>2
<1>4. ASSUME NEW n \in Nat, n \in T PROVE n + 1 \in T
  <2> SUFFICES ASSUME n + 1 <= Len(s) PROVE f[n + 1] = Part(n + 1)
    OBVIOUS
  <2>1. n + 1 \in 1 .. Len(s) /\ (n + 1) - 1 = n /\ n <= Len(s)
    OBVIOUS
  <2>2. PICK l \in Present(view) : s[n + 1] = [level |-> l, qty |-> view[l]]
    BY <2>1 DEF view
  <2>3. f[n + 1] = SetLevel(f[n], s[n + 1]) /\ f[n] = Part(n)
    BY <1>2, <1>4, <2>1
  <2>4. f[n + 1] = Capped([Part(n) EXCEPT ![l] = view[l]])
    <3> DEFINE P == Part(n)
    <3> HIDE DEF P
    <3>1. SetLevel(P, [level |-> l, qty |-> view[l]]) = Capped([P EXCEPT ![l] = view[l]])
      BY SetLevelIs
    <3>2. f[n + 1] = SetLevel(P, [level |-> l, qty |-> view[l]])
      BY <2>2, <2>3 DEF P
    <3> QED BY <3>1, <3>2 DEF P
  <2>5. [Part(n) EXCEPT ![l] = view[l]] = Part(n + 1)
    <3>1. l = s[n + 1].level /\ l \in Levels
      BY <1>1, <2>2
    <3>2. Listed(n + 1) = Listed(n) \cup {l}
      BY <2>1, <3>1
    <3> HIDE DEF Listed
    <3> QED BY <3>1, <3>2
  <2>6. Part(n + 1) \in Books /\ Present(Part(n + 1)) \subseteq Present(view)
    <3> HIDE DEF Listed
    <3> QED BY <1>1 DEF Books, Present
  <2> HIDE DEF Part
  <2>7. Capped(Part(n + 1)) = Part(n + 1)
    BY <1>1, <2>6, CappedSmall
  <2> QED BY <2>4, <2>5, <2>7
<1> HIDE DEF T
<1>5. Len(s) \in T
  BY <1>3, <1>4, Induction
<1>6. f[Len(s)] = Part(Len(s))
  BY <1>5 DEF T
<1>7. \A l \in Present(view) : l \in Listed(Len(s))
  BY DEF view
<1>8. Part(Len(s)) = view
  <2> HIDE DEF Listed
  <2>1. \A l \in Levels : Part(Len(s))[l] = view[l]
    BY <1>1, <1>7 DEF Present
  <2> QED BY <1>1, <2>1 DEF Books
<1> QED BY <1>2, <1>6, <1>8 DEF view

LEMMA OneBody ==
  ASSUME NEW L, NEW s, Len(s) = 1
  PROVE  SetBody(L, s) = SetLevels(L, s[1])
<1>1. Len(s) \in Nat
  OBVIOUS
<1>2. PICK f : /\ f[0] = L /\ SetBody(L, s) = f[Len(s)]
               /\ \A n \in 1 .. Len(s) : f[n] = SetLevels(f[n - 1], s[n])
  BY <1>1, SetBodyIs
<1>3. 1 \in 1 .. Len(s) /\ 1 - 1 = 0
  OBVIOUS
<1>4. f[1] = SetLevels(f[0], s[1])
  BY <1>2, <1>3
<1> QED BY <1>2, <1>4

\* What a subscription begins with shows the venue's view.
LEMMA SnapshotShows ==
  ASSUME VenueOK
  PROVE  SetBody(Empty, SnapshotFrame.body) = View(Made)
<1> DEFINE V == VenueBook(Made)
           view == Capped(V)
           S == {[level |-> l, qty |-> view[l]] : l \in Present(view)}
           s == SetToSeq(S)
<1>1. V \in Books /\ View(Made) = view
  BY VenueIs, ViewIs
<1>2. SnapshotFrame.body = <<s>>
  BY <1>1 DEF SnapshotFrame, FrameOf
<1>3. IsFiniteSet(S)
  <2> DEFINE g == [l \in Present(view) |-> [level |-> l, qty |-> view[l]]]
  <2>1. g \in Surjection(Present(view), S)
    <3> HIDE DEF view
    <3> QED BY DEF Surjection
  <2>2. Present(view) \subseteq Levels
    BY DEF Present
  <2>3. IsFiniteSet(Present(view))
    BY <2>2, LevelsFinite
  <2> HIDE DEF g, S
  <2> QED BY <2>1, <2>3, FS_Surjection
<1>4. /\ Len(s) \in Nat /\ \A i \in 1 .. Len(s) : s[i] \in S
      /\ \A x \in S : \E i \in 1 .. Len(s) : s[i] = x
  <2> HIDE DEF S
  <2> QED BY <1>3, ListOfSet
<1> HIDE DEF s, V
<1>5. \A i \in 1 .. Len(s) : \E l \in Present(view) : s[i] = [level |-> l, qty |-> view[l]]
  BY <1>4
<1>6. \A l \in Present(view) : \E i \in 1 .. Len(s) : s[i].level = l
  <2> SUFFICES ASSUME NEW l \in Present(view) PROVE \E i \in 1 .. Len(s) : s[i].level = l
    OBVIOUS
  <2>1. [level |-> l, qty |-> view[l]] \in S
    OBVIOUS
  <2>2. PICK i \in 1 .. Len(s) : s[i] = [level |-> l, qty |-> view[l]]
    BY <1>4, <2>1
  <2> QED BY <2>2
<1>7. SetLevels(Empty, s) = view
  BY <1>1, <1>4, <1>5, <1>6, ListedLevels
<1>8. SetBody(Empty, <<s>>) = SetLevels(Empty, s)
  <2> DEFINE b == <<s>>
  <2>1. Len(b) = 1 /\ b[1] = s
    OBVIOUS
  <2> HIDE DEF b
  <2>2. SetBody(Empty, b) = SetLevels(Empty, s)
    BY <2>1, OneBody
  <2> QED BY <2>2 DEF b
<1> QED BY <1>1, <1>2, <1>7, <1>8

-----------------------------------------------------------------------------
LEMMA FollowsAll ==
  VenueOK => \A n \in Nat : n + 1 <= Made => SetLevels(View(n), Changes(n + 1)) = View(n + 1)
BY ViewFollows

LEMMA FollowsNext ==
  (VenueOK => \A n \in Nat : n + 1 <= Made => SetLevels(View(n), Changes(n + 1)) = View(n + 1))'
BY FollowsAll, PTL

LEMMA LastAll ==
  \A L : \A a, n \in Nat : SetBody(L, Body(a + 1, a + n + 1)) = SetLevels(SetBody(L, Body(a + 1, a + n)), Changes(a + n + 1))
BY BodyLast

LEMMA LastNext ==
  (\A L : \A a, n \in Nat :
     SetBody(L, Body(a + 1, a + n + 1)) = SetLevels(SetBody(L, Body(a + 1, a + n)), Changes(a + n + 1)))'
BY LastAll, PTL

LEMMA AgreesKept ==
  ASSUME VenueGrows, Made' = Made, NEW L, NEW p \in Nat, p <= Made, Agrees(L, p)
  PROVE  Agrees(L, p)'
<1>1. Made \in Nat /\ feed' = feed
  BY VenueIs DEF VenueGrows
<1>2. Body(p + 1, Made)' = Body(p + 1, Made)
  <2>1. p + 1 \in Nat /\ 1 <= p + 1
    OBVIOUS
  <2>2. \A n \in Nat : n <= Made => Body(p + 1, n)' = Body(p + 1, n)
    BY <2>1, BodyKept
  <2> QED BY <1>1, <2>2
<1>3. \A n \in 0 .. Made : View(n)' = View(n)
  BY Shown
<1>4. \A s : SetBody(L, s)' = SetBody(L, s)
  BY <1>1, SetBodyKept
<1>5. View(Made)' = View(Made) /\ View(p)' = View(p)
  BY <1>1, <1>3
<1> QED BY <1>1, <1>2, <1>4, <1>5 DEF Agrees

\* An update more of the venue is an update more that follows.
LEMMA AgreesOn ==
  ASSUME VenueGrows, Made' = Made + 1, NEW L, NEW p \in Nat, p <= Made, Agrees(L, p)
  PROVE  Agrees(L, p)'
<1> SUFFICES ASSUME NEW m \in Nat, m = Made PROVE Agrees(L, p)'
  BY VenueIs DEF VenueGrows
<1>1. feed' = feed /\ Made' = m + 1 /\ VenueOK'
  BY DEF VenueGrows
<1>2. Body(p + 1, m)' = Body(p + 1, m)
  <2>1. p + 1 \in Nat /\ 1 <= p + 1
    OBVIOUS
  <2> QED BY <2>1, BodyKept
<1>3. \A s : SetBody(L, s)' = SetBody(L, s)
  BY <1>1, SetBodyKept
<1>4. m \in 0 .. Made /\ p \in 0 .. Made
  OBVIOUS
<1>5. View(m)' = View(m) /\ View(p)' = View(p)
  BY <1>4, Shown
<1>6. SetBody(L, Body(p + 1, m))' = View(m)'
  BY <1>2, <1>3, <1>5 DEF Agrees
<1>7. SetLevels(View(m), Changes(m + 1))' = View(m + 1)'
  BY <1>1, FollowsNext
<1>8. SetBody(L, Body(p + 1, m + 1))' = SetLevels(SetBody(L, Body(p + 1, m)), Changes(m + 1))'
  <2>1. \A a, n \in Nat :
          SetBody(L, Body(a + 1, a + n + 1))' = SetLevels(SetBody(L, Body(a + 1, a + n)), Changes(a + n + 1))'
    BY LastNext
  <2>2. m - p \in Nat /\ p + (m - p) = m
    OBVIOUS
  <2> QED BY <2>1, <2>2
<1>9. SetBody(L, Body(p + 1, m + 1))' = View(m + 1)'
  BY <1>6, <1>7, <1>8
<1> QED BY <1>1, <1>5, <1>9 DEF Agrees

LEMMA AgreesStays ==
  ASSUME VenueGrows, Made' \in {Made, Made + 1}, NEW L, NEW p \in Nat, p <= Made, Agrees(L, p)
  PROVE  Agrees(L, p)'
BY AgreesKept, AgreesOn

LEMMA FramesStay ==
  ASSUME VenueGrows, Numbers, sent' \in Nat, sent <= sent'
  PROVE  /\ \A f : UpdateIs(f) => UpdateIs(f)'
         /\ \A f : SnapshotIs(f) => SnapshotIs(f)'
<1>1. Made \in Nat /\ feed' = feed /\ sent \in 0 .. Made
  BY VenueIs DEF VenueGrows, Numbers
<1>2. ASSUME NEW f, UpdateIs(f) PROVE UpdateIs(f)'
  <2>1. /\ f.first \in Nat /\ f.final \in Nat /\ 1 <= f.first /\ f.final <= Made /\ f.final <= sent
        /\ f.first <= f.final
    BY <1>1, <1>2 DEF UpdateIs
  <2>2. Body(f.first, f.final)' = Body(f.first, f.final)
    BY <2>1, BodyKept
  <2> QED BY <1>1, <1>2, <2>1, <2>2 DEF UpdateIs
<1>3. ASSUME NEW f, SnapshotIs(f) PROVE SnapshotIs(f)'
  <2>1. f.final \in 0 .. Made /\ f.final \in 0 .. sent
    BY <1>1, <1>3 DEF SnapshotIs
  <2>2. View(f.final)' = View(f.final)
    BY <2>1, Shown
  <2>3. SetBody(Empty, f.body)' = SetBody(Empty, f.body)
    <3> DEFINE E == Empty
    <3>1. Empty' = Empty
      BY DEF Empty
    <3> QED BY <1>1, <3>1, SetBodyKept
  <2> QED BY <1>1, <1>3, <2>1, <2>2, <2>3 DEF SnapshotIs
<1> QED BY <1>2, <1>3

-----------------------------------------------------------------------------
(* The frames on the way, step by step. *)

LEMMA NumbersAre ==
  ASSUME WireInv
  PROVE  /\ Made \in Nat /\ sent \in Nat /\ lostTo \in Nat /\ mended \in Nat
         /\ sent <= Made /\ lostTo <= sent /\ mended <= sent
         /\ Len(wire) \in Nat /\ Frames \subseteq Nat \ {0}
<1>1. Made \in Nat
  BY VenueIs DEF WireInv
<1>2. Len(wire) \in Nat
  BY DEF WireInv, WireIsSeq
<1> QED BY <1>1, <1>2 DEF WireInv, Numbers, Frames

LEMMA GrownNumbers ==
  ASSUME VenueGrows
  PROVE  Made' \in Nat /\ Made <= Made' /\ VenueOK'
<1>1. VenueOK' /\ Made <= Made'
  BY DEF VenueGrows
<1>2. touched' \in Seq(Levels)
  BY <1>1 DEF VenueOK
<1>3. Made' \in Nat
  BY <1>2 DEF Made
<1> QED BY <1>1, <1>3

\* The wire stays; the mended losses are older than the frames.
LEMMA WireStays ==
  ASSUME WireInv, VenueGrows, UNCHANGED <<wire, sent, lostTo>>,
         mended' \in 0 .. sent, \A i \in Frames : IsUpdate(i) => mended' < wire[i].first
  PROVE  WireInv' /\ \A p : AtPos(0, p) => AtPos(0, p)'
<1>1. Frames' = Frames /\ \A i : (IsUpdate(i)' <=> IsUpdate(i)) /\ (IsSnapshot(i)' <=> IsSnapshot(i))
  BY DEF Frames, IsUpdate, IsSnapshot
<1>2. /\ \A f : UpdateIs(f) => UpdateIs(f)'
      /\ \A f : SnapshotIs(f) => SnapshotIs(f)'
  BY NumbersAre, FramesStay DEF WireInv
<1>3. FramesOK'
  BY <1>1, <1>2 DEF WireInv, FramesOK
<1>4. OrderOK'
  BY <1>1 DEF WireInv, OrderOK
<1>5. \A n, k : Covered(n, k) <=> Covered(n, k)'
  BY <1>1 DEF Covered
<1>6. Whole'
  <2>1. \A k : Awaited(k) <=> Awaited(k)'
    BY <1>1 DEF Awaited
  <2> QED BY <1>5, <2>1 DEF WireInv, Whole
<1>7. Numbers' /\ VenueOK' /\ WireIsSeq'
  <2>1. WireIsSeq'
    BY DEF WireInv, WireIsSeq
  <2> QED BY <2>1, NumbersAre, GrownNumbers DEF Numbers
<1>8. \A p : AtPos(0, p) => AtPos(0, p)'
  BY <1>1, <1>5 DEF AtPos
<1> QED BY <1>3, <1>4, <1>6, <1>7, <1>8 DEF WireInv

\* The venue sends the updates since the last frame, or something else.
LEMMA WireGrows ==
  ASSUME WireInv, VenueGrows, NEW f, wire' = Append(wire, f), UNCHANGED <<lostTo, mended>>,
         \/ f.type = "update" /\ UpdateIs(f)' /\ f.first = sent + 1 /\ f.final = sent' /\ sent' \in sent .. Made
         \/ f.type \notin {"update", "snapshot"} /\ sent' = sent
  PROVE  WireInv' /\ \A p : AtPos(0, p) => AtPos(0, p)'
<1> DEFINE N == Len(wire)
<1>1. /\ WireIsSeq' /\ N \in Nat /\ Len(wire') = N + 1
      /\ \A i \in 1 .. N : wire'[i] = wire[i]
      /\ wire'[N + 1] = f
  BY WireAppend DEF WireInv
<1>2. /\ Made \in Nat /\ sent \in Nat /\ lostTo \in Nat /\ mended \in Nat
      /\ sent <= Made /\ lostTo <= sent /\ mended <= sent
      /\ sent' \in Nat /\ sent <= sent' /\ sent' <= Made
  BY NumbersAre
<1>17. /\ f.type = "update" => UpdateIs(f)' /\ f.first = sent + 1 /\ f.final = sent'
       /\ f.type # "update" => sent' = sent
       /\ mended' = mended /\ lostTo' = lostTo
  OBVIOUS
<1>3. /\ \A i : i \in Frames' <=> i \in Frames \/ i = N + 1
      /\ N + 1 \notin Frames
      /\ \A i \in Frames : wire'[i] = wire[i] /\ i < N + 1 /\ i \in Nat /\ 0 < i
      /\ \A i \in Frames' : i \in Nat /\ 0 < i /\ ~(N + 1 < i)
  BY <1>1 DEF Frames
<1>4. \A i \in Frames : (IsUpdate(i)' <=> IsUpdate(i)) /\ (IsSnapshot(i)' <=> IsSnapshot(i))
  BY <1>3 DEF IsUpdate, IsSnapshot
<1>5. /\ (wire'[N + 1].type = "update" <=> f.type = "update")
      /\ f.type # "snapshot"
  BY <1>1
<1>6. \A i \in Frames' : i \notin Frames =>
        wire'[i] = f /\ (IsUpdate(i)' <=> f.type = "update") /\ ~IsSnapshot(i)'
  BY <1>1, <1>3, <1>5 DEF IsUpdate, IsSnapshot
<1>7. /\ \A x : UpdateIs(x) => UpdateIs(x)'
      /\ \A x : SnapshotIs(x) => SnapshotIs(x)'
  BY <1>2, FramesStay DEF WireInv
<1>8. FramesOK'
  <2> SUFFICES ASSUME NEW i \in Frames'
               PROVE  /\ IsUpdate(i)' => UpdateIs(wire[i])' /\ mended' < wire'[i].first
                      /\ IsSnapshot(i)' => SnapshotIs(wire[i])'
    BY DEF FramesOK
  <2>1. CASE i \in Frames
    BY <1>3, <1>4, <1>7, <2>1 DEF WireInv, FramesOK
  <2>2. CASE i \notin Frames
    <3>1. wire'[i] = f /\ (IsUpdate(i)' <=> f.type = "update") /\ ~IsSnapshot(i)'
      BY <1>6, <2>2
    <3>2. f.type = "update" => UpdateIs(f)' /\ mended' < f.first
      BY <1>2, <1>17
    <3> QED BY <3>1, <3>2
  <2> QED BY <2>1, <2>2
<1>9. \A i \in Frames : (IsUpdate(i) => wire[i].final \in Nat /\ wire[i].final <= sent)
                        /\ (IsSnapshot(i) => wire[i].final \in Nat /\ wire[i].final <= sent)
  BY <1>2 DEF WireInv, FramesOK, UpdateIs, SnapshotIs
<1>10. OrderOK'
  <2> SUFFICES ASSUME NEW i \in Frames', NEW j \in Frames', i < j
               PROVE  /\ IsUpdate(i)' /\ IsUpdate(j)' => wire'[i].final < wire'[j].first
                      /\ IsSnapshot(j)' => ~IsUpdate(i)' /\ ~IsSnapshot(i)'
                      /\ IsSnapshot(i)' /\ IsUpdate(j)' => wire'[i].final < wire'[j].first
    BY DEF OrderOK
  <2>1. i \in Frames
    BY <1>3
  <2>2. CASE j \in Frames
    BY <1>3, <1>4, <2>1, <2>2 DEF WireInv, OrderOK
  <2>3. CASE j \notin Frames
    <3>1. IsUpdate(j)' => f.first = sent + 1
      BY <1>6, <2>3
    <3> QED BY <1>2, <1>3, <1>4, <1>6, <1>9, <2>1, <2>3, <3>1
  <2> QED BY <2>2, <2>3
<1>11. \A n, k : Covered(n, k) => Covered(n, k)'
  BY <1>3, <1>4 DEF Covered
<1>12. ASSUME NEW k \in sent + 1 .. sent' PROVE \E i \in Frames' : 0 < i /\ IsUpdate(i)' /\ wire'[i].first <= k /\ k <= wire'[i].final
  <2>1. N + 1 \in Frames' /\ wire'[N + 1] = f /\ f.first = sent + 1 /\ f.final = sent' /\ f.type = "update" /\ 0 < N + 1
    BY <1>1, <1>2, <1>3
  <2>2. \A i : i = N + 1 => (IsUpdate(i)' <=> wire'[i].type = "update")
    BY DEF IsUpdate
  <2> QED BY <1>2, <2>1, <2>2
<1>13. \A k \in sent + 1 .. sent' : Covered(0, k)'
  BY <1>12 DEF Covered
<1>14. Whole'
  <2> SUFFICES ASSUME NEW k \in lostTo' + 1 .. sent', Awaited(k)' PROVE Covered(0, k)'
    BY DEF Whole
  <2>1. CASE k > sent
    <3>1. k \in sent + 1 .. sent'
      BY <1>2, <2>1
    <3> QED BY <1>13, <3>1
  <2>2. CASE k <= sent
    <3>1. k \in lostTo + 1 .. sent
      BY <1>2, <1>17, <2>2
    <3>2. Awaited(k)
      <4>1. PICK i \in Frames' : (IsSnapshot(i)' /\ wire'[i].final < k) \/ (IsUpdate(i)' /\ wire'[i].first <= k)
        BY DEF Awaited
      <4>2. CASE i \in Frames
        BY <1>3, <1>4, <4>1, <4>2 DEF Awaited
      <4>3. CASE i \notin Frames
        <5>1. f.type = "update" /\ f.first <= k
          BY <1>6, <4>1, <4>3
        <5> QED BY <1>2, <1>17, <2>2, <3>1, <5>1
      <4> QED BY <4>2, <4>3
    <3>3. Covered(0, k)
      BY <3>1, <3>2 DEF WireInv, Whole
    <3> QED BY <1>11, <3>3
  <2>3. k \in Int
    BY <1>2, <1>17
  <2> QED BY <1>2, <2>1, <2>2, <2>3
<1>15. Numbers' /\ VenueOK'
  BY <1>2, GrownNumbers DEF Numbers
<1>16. ASSUME NEW p, AtPos(0, p) PROVE AtPos(0, p)'
  <2>1. p \in Nat /\ lostTo <= p /\ p <= sent
    BY <1>2, <1>16 DEF AtPos
  <2>2. p \in lostTo' .. sent'
    BY <1>2, <2>1
  <2>3. \A i \in Frames' : 0 < i /\ IsUpdate(i)' => p < wire'[i].first
    BY <1>2, <1>3, <1>4, <1>6, <1>16, <2>1 DEF AtPos
  <2>4. ASSUME NEW k \in p + 1 .. sent' PROVE Covered(0, k)'
    <3>1. CASE k > sent
      <4>1. k \in sent + 1 .. sent'
        BY <1>2, <3>1
      <4> QED BY <1>13, <4>1
    <3>2. CASE k <= sent
      <4>1. k \in p + 1 .. sent
        BY <1>2, <2>1, <3>2
      <4> QED BY <1>11, <1>16, <4>1 DEF AtPos
    <3> QED BY <1>2, <2>1, <3>1, <3>2
  <2> QED BY <2>2, <2>3, <2>4 DEF AtPos
<1> QED BY <1>1, <1>8, <1>10, <1>14, <1>15, <1>16 DEF WireInv

\* The venue drops what it has not sent.
LEMMA WireOmits ==
  ASSUME WireInv, VenueGrows, UNCHANGED <<wire, mended>>, sent' = Made, lostTo' = Made
  PROVE  WireInv'
<1>1. Frames' = Frames /\ \A i : (IsUpdate(i)' <=> IsUpdate(i)) /\ (IsSnapshot(i)' <=> IsSnapshot(i))
  BY DEF Frames, IsUpdate, IsSnapshot
<1>2. /\ Made \in Nat /\ sent \in Nat /\ sent <= Made /\ mended \in Nat /\ mended <= sent
  BY NumbersAre
<1>3. /\ \A f : UpdateIs(f) => UpdateIs(f)'
      /\ \A f : SnapshotIs(f) => SnapshotIs(f)'
  BY <1>2, FramesStay DEF WireInv
<1>4. FramesOK' /\ OrderOK'
  BY <1>1, <1>3 DEF WireInv, FramesOK, OrderOK
<1>5. Whole'
  BY <1>2 DEF Whole
<1>6. Numbers' /\ VenueOK' /\ WireIsSeq'
  <2>1. WireIsSeq'
    BY DEF WireInv, WireIsSeq
  <2> QED BY <1>2, <2>1, GrownNumbers DEF Numbers
<1> QED BY <1>4, <1>5, <1>6 DEF WireInv

\* A new session, greeted with one snapshot of now; or none.
LEMMA WireBegins ==
  ASSUME WireInv, VenueGrows, UNCHANGED <<lostTo, mended>>, WireIsSeq', sent' \in sent .. Made,
         \A i \in Frames' : ~IsUpdate(i)',
         \A i \in Frames' : IsSnapshot(i)' => SnapshotIs(wire[i])' /\ wire'[i].final = sent',
         \A i, j \in Frames' : IsSnapshot(i)' /\ IsSnapshot(j)' => i = j
  PROVE  WireInv'
<1>1. /\ Made \in Nat /\ sent \in Nat /\ sent <= Made /\ mended \in Nat /\ mended <= sent
      /\ lostTo \in Nat /\ lostTo <= sent /\ sent' \in Nat
  BY NumbersAre
<1>2. FramesOK'
  BY DEF FramesOK
<1>3. OrderOK'
  <2>1. \A i \in Frames' : i \in Nat
    BY DEF Frames
  <2>2. \A i \in Frames' : ~(i < i)
    BY <2>1
  <2> QED BY <2>2 DEF OrderOK
<1>4. Whole'
  <2>1. \A k \in lostTo' + 1 .. sent' : ~(sent' < k)
    BY <1>1
  <2> QED BY <2>1 DEF Whole, Awaited
<1>5. Numbers' /\ VenueOK'
  BY <1>1, GrownNumbers DEF Numbers
<1> QED BY <1>2, <1>3, <1>4, <1>5 DEF WireInv

LEMMA LaterRange ==
  ASSUME NEW a \in Nat, NEW b \in Nat, NEW c \in Nat, a <= b, NEW k, k \in b + 1 .. c
  PROVE  k \in a + 1 .. c /\ k \in Nat
OBVIOUS

\* The first frame is taken off, and if it is lost the losses reach it.
LEMMA WireShrinks ==
  ASSUME WireInv, VenueGrows, wire # <<>>, wire' = Tail(wire), sent' = sent,
         lostTo' \in lostTo .. sent, mended' \in 0 .. sent,
         \A i \in Frames : 1 < i /\ IsUpdate(i) => mended' < wire[i].first
  PROVE  WireInv' /\ \A p : AtPos(1, p) /\ lostTo' <= p => AtPos(0, p)'
<1>1. /\ WireIsSeq' /\ Len(wire) \in Nat /\ Len(wire') = Len(wire) - 1
      /\ \A i \in 1 .. Len(wire') : i + 1 \in 1 .. Len(wire) /\ wire'[i] = wire[i + 1]
  BY WireTail DEF WireInv
<1>2. /\ Made \in Nat /\ sent \in Nat /\ lostTo \in Nat /\ lostTo' \in Nat /\ lostTo <= lostTo'
      /\ sent <= Made /\ lostTo' <= sent
  BY NumbersAre
<1>3. \A i \in Frames' : /\ i \in Nat /\ 0 < i /\ i + 1 \in Frames /\ 1 < i + 1 /\ wire'[i] = wire[i + 1]
                         /\ IsUpdate(i)' <=> IsUpdate(i + 1)
                         /\ IsSnapshot(i)' <=> IsSnapshot(i + 1)
  BY <1>1 DEF Frames, IsUpdate, IsSnapshot
<1>4. \A i \in Frames : 1 < i => /\ i \in Nat /\ i - 1 \in Frames' /\ (i - 1) + 1 = i /\ 0 < i - 1
  BY <1>1 DEF Frames
<1>5. /\ \A x : UpdateIs(x) => UpdateIs(x)'
      /\ \A x : SnapshotIs(x) => SnapshotIs(x)'
  BY <1>2, FramesStay DEF WireInv
<1>6. FramesOK'
  <2> SUFFICES ASSUME NEW i \in Frames'
               PROVE  /\ IsUpdate(i)' => UpdateIs(wire[i])' /\ mended' < wire'[i].first
                      /\ IsSnapshot(i)' => SnapshotIs(wire[i])'
    BY DEF FramesOK
  <2>1. /\ IsUpdate(i + 1) => UpdateIs(wire[i + 1])
        /\ IsSnapshot(i + 1) => SnapshotIs(wire[i + 1])
    BY <1>3 DEF WireInv, FramesOK
  <2> QED BY <1>3, <1>5, <2>1
<1>7. OrderOK'
  <2>1. \A i, j \in Frames' : i < j => i + 1 < j + 1
    BY <1>3
  <2> QED BY <1>3, <2>1 DEF WireInv, OrderOK
<1>8. ASSUME NEW k, Covered(1, k) PROVE Covered(0, k)'
  <2>1. PICK i \in Frames : 1 < i /\ IsUpdate(i) /\ wire[i].first <= k /\ k <= wire[i].final
    BY <1>8 DEF Covered
  <2>2. PICK j \in Frames' : j + 1 = i /\ 0 < j
    BY <1>4, <2>1
  <2>3. wire'[j] = wire[i] /\ IsUpdate(j)'
    BY <1>3, <2>1, <2>2
  <2> QED BY <2>1, <2>2, <2>3 DEF Covered
<1>9. Whole'
  <2> SUFFICES ASSUME NEW k \in lostTo' + 1 .. sent', Awaited(k)' PROVE Covered(0, k)'
    BY DEF Whole
  <2>1. k \in lostTo + 1 .. sent /\ k \in Nat
    <3>1. k \in lostTo' + 1 .. sent
      OBVIOUS
    <3> QED BY <1>2, <3>1, LaterRange
  <2>2. PICK i \in Frames' : (IsSnapshot(i)' /\ wire'[i].final < k) \/ (IsUpdate(i)' /\ wire'[i].first <= k)
    BY DEF Awaited
  <2>3. PICK j \in Frames : 1 < j /\ j = i + 1
    BY <1>3
  <2>4. (IsSnapshot(j) /\ wire[j].final < k) \/ (IsUpdate(j) /\ wire[j].first <= k)
    BY <1>3, <2>2, <2>3
  <2>5. Covered(0, k)
    <3>1. Awaited(k)
      BY <2>4 DEF Awaited
    <3> QED BY <2>1, <3>1 DEF WireInv, Whole
  <2>6. PICK m \in Frames : IsUpdate(m) /\ wire[m].first <= k /\ k <= wire[m].final
    BY <2>5 DEF Covered
  <2>7. m # 1
    <3>1. CASE m = 1
      <4>1. m < j
        BY <2>3, <3>1
      <4>2. ~IsSnapshot(j)
        BY <2>6, <4>1 DEF WireInv, OrderOK
      <4>3. IsUpdate(j) /\ wire[j].first <= k /\ wire[m].final < wire[j].first
        BY <2>4, <2>6, <4>1, <4>2 DEF WireInv, OrderOK
      <4>4. wire[m].final \in Nat /\ wire[j].first \in Nat
        BY <1>2, <2>6, <4>3 DEF WireInv, FramesOK, UpdateIs
      <4> QED BY <2>1, <2>6, <4>3, <4>4
    <3> QED BY <3>1
  <2>8. 1 < m
    BY <2>7, NumbersAre
  <2>9. Covered(1, k)
    BY <2>6, <2>8 DEF Covered
  <2> QED BY <1>8, <2>9
<1>10. Numbers' /\ VenueOK'
  <2>1. sent' \in 0 .. Made'
    BY <1>2, GrownNumbers
  <2> QED BY <1>2, <2>1, GrownNumbers DEF Numbers
<1>11. ASSUME NEW p, AtPos(1, p), lostTo' <= p PROVE AtPos(0, p)'
  <2>1. p \in lostTo' .. sent'
    BY <1>2, <1>11 DEF AtPos
  <2>2. \A i \in Frames' : 0 < i /\ IsUpdate(i)' => p < wire'[i].first
    BY <1>3, <1>11 DEF AtPos
  <2>3. \A k \in p + 1 .. sent' : Covered(0, k)'
    BY <1>8, <1>11 DEF AtPos
  <2> QED BY <2>1, <2>2, <2>3 DEF AtPos
<1> QED BY <1>1, <1>6, <1>7, <1>9, <1>10, <1>11 DEF WireInv

-----------------------------------------------------------------------------
(* The invariant of the books. *)

\* Without a session nothing is on the way.
DownOK == ~up => wire = <<>> /\ (feed = "coinbase" => rest = NoFetch)

\* What was sent since a fetch was asked for is on the way, or lost.
RestCovers ==
  feed = "coinbase" /\ rest # NoFetch =>
    /\ rest \in Nat
    /\ \A k \in rest + 1 .. sent : k <= lostTo \/ \E i \in Frames : IsUpdate(i) /\ wire[i].first <= k

IsBook(b) == \E s, levels : b = [sync |-> s, levels |-> levels]
BookOK == IsBook(book)

Checked == lastCheck = "mismatch" => feed = "kraken" /\ lostTo > mended

SyncInv ==
  /\ feed \in {"coinbase", "kraken"}
  /\ WireInv /\ BookOK /\ BookAgrees
  /\ DownOK /\ RestCovers /\ Checked

-----------------------------------------------------------------------------
LEMMA BookEvents ==
  ASSUME BookOK
  PROVE  /\ ApplyGap(book).sync = "Unsynced" /\ IsBook(ApplyGap(book))
         /\ \A l : ApplySnapshot(book, l) = [sync |-> "Synced", levels |-> l]
         /\ \A f : ApplyUpdate(book, f).sync = book.sync /\ IsBook(ApplyUpdate(book, f))
         /\ \A f : book.sync = "Synced" => ApplyUpdate(book, f).levels = After(book.levels, f)
<1> PICK s, levels : book = [sync |-> s, levels |-> levels]
  BY DEF BookOK, IsBook
<1>1. ApplyGap(book) = [sync |-> "Unsynced", levels |-> levels]
  BY DEF ApplyGap, ApplyCommon
<1>2. ASSUME NEW l PROVE ApplySnapshot(book, l) = [sync |-> "Synced", levels |-> l]
  <2>1. Cleared(book) = [sync |-> "Unsynced", levels |-> Empty]
    BY DEF Cleared, ApplyCommon
  <2>2. ApplyCommon(Cleared(book), "SnapBegin", Empty, Empty) = [sync |-> "Filling", levels |-> Empty]
    BY DEF ApplyCommon
  <2>3. ApplyCommon([sync |-> "Filling", levels |-> Empty], "SnapLevel", l, Empty) = [sync |-> "Filling", levels |-> l]
    BY DEF ApplyCommon
  <2>4. ApplyCommon([sync |-> "Filling", levels |-> l], "SnapEnd", Empty, Empty) = [sync |-> "Synced", levels |-> l]
    BY DEF ApplyCommon
  <2> QED BY <2>2, <2>3, <2>4 DEF ApplySnapshot
<1>3. ASSUME NEW f
      PROVE  /\ ApplyUpdate(book, f).sync = book.sync
             /\ book.sync = "Synced" => ApplyUpdate(book, f).levels = After(book.levels, f)
             /\ IsBook(ApplyUpdate(book, f))
  <2> DEFINE u == ApplyUpdate(book, f)
             after == After(book.levels, f)
  <2>1. book.sync = s /\ book.levels = levels
    OBVIOUS
  <2> HIDE DEF after
  <2>2. ApplyCommon(book, "Set", after, Empty) = IF s = "Synced" THEN [sync |-> s, levels |-> after] ELSE book
    BY DEF ApplyCommon
  <2>3. u = IF s = "Synced" THEN [sync |-> s, levels |-> after] ELSE book
    BY <2>2 DEF ApplyUpdate, after
  <2> HIDE DEF u
  <2>4. u.sync = s /\ (s = "Synced" => u.levels = after) /\ IsBook(u)
    <3>1. CASE s = "Synced"
      BY <2>3, <3>1 DEF IsBook
    <3>2. CASE s # "Synced"
      BY <2>3, <3>2 DEF IsBook
    <3> QED BY <3>1, <3>2
  <2> QED BY <2>1, <2>4 DEF u, after
<1>4. ApplyGap(book).sync = "Unsynced" /\ IsBook(ApplyGap(book))
  <2> DEFINE g == ApplyGap(book)
  <2>1. g = [sync |-> "Unsynced", levels |-> levels]
    BY <1>1
  <2> HIDE DEF g
  <2>2. g.sync = "Unsynced" /\ IsBook(g)
    BY <2>1 DEF IsBook
  <2> QED BY <2>2 DEF g
<1> QED BY <1>2, <1>3, <1>4, Zenon

\* A book that agrees with the venue does while the venue goes on.
LEMMA BookStays ==
  ASSUME VenueGrows, Made' \in {Made, Made + 1}, NEW p \in Nat, p <= Made,
         NEW L, Agrees(L, p), book'.levels = L
  PROVE  Agrees(book.levels, p)'
<1>1. Agrees(L, p)'
  BY AgreesStays
<1>2. Agrees(book.levels, p)' <=>
        (SetBody(book.levels, Body(p + 1, Made)) = View(Made) /\ (feed = "kraken" => book.levels = View(p)))'
  BY DEF Agrees
<1>3. Agrees(L, p)' <=> (SetBody(L, Body(p + 1, Made)) = View(Made) /\ (feed = "kraken" => L = View(p)))'
  BY DEF Agrees
<1> QED BY <1>1, <1>2, <1>3

\* What the book showed it shows, and the updates it lacks are on the way.
LEMMA AgreesHolds ==
  ASSUME WireInv, VenueGrows, Made' \in {Made, Made + 1}, BookAgrees, book' = book,
         lostTo' <= mended' => lostTo <= mended,
         lostTo' <= mended' /\ Caught' => Caught,
         \A p : AtPos(0, p) => AtPos(0, p)'
  PROVE  BookAgrees'
<1> SUFFICES ASSUME book.sync = "Synced", (lostTo <= mended)', Caught'
             PROVE  \E p : AtPos(0, p)' /\ Agrees(book.levels, p)'
  BY DEF BookAgrees
<1>1. PICK p : AtPos(0, p) /\ Agrees(book.levels, p)
  BY DEF BookAgrees
<1>2. p \in Nat /\ p <= Made
  BY <1>1, NumbersAre DEF AtPos
<1>3. Agrees(book.levels, p)'
  BY <1>1, <1>2, BookStays
<1> QED BY <1>1, <1>3

LEMMA ReachedIs ==
  ASSUME WireInv
  PROVE  /\ Reached \in 0 .. sent
         /\ \A i \in Frames : IsUpdate(i) => Reached < wire[i].first
         /\ Reached # sent => \E i \in Frames : IsUpdate(i) /\ wire[i].first = Reached + 1
<1> DEFINE ahead == {i \in DOMAIN wire : wire[i].type = "update"}
<1>1. DOMAIN wire = Frames /\ Frames \subseteq Nat /\ sent \in Nat
  BY NumbersAre DEF WireInv, WireIsSeq, Frames
<1>2. \A i : i \in ahead <=> i \in Frames /\ IsUpdate(i)
  BY <1>1 DEF IsUpdate
<1>3. Reached = IF ahead = {} THEN sent ELSE wire[CHOOSE i \in ahead : \A j \in ahead : i <= j].first - 1
  BY DEF Reached
<1> HIDE DEF ahead
<1>4. CASE ahead = {}
  BY <1>1, <1>2, <1>3, <1>4
<1>5. CASE ahead # {}
  <2>1. ahead \subseteq Nat
    BY <1>1, <1>2
  <2>2. PICK m \in ahead : m = (CHOOSE i \in ahead : \A j \in ahead : i <= j) /\ \A j \in ahead : m <= j
    BY <1>5, <2>1, LeastElement
  <2>3. m \in Frames /\ IsUpdate(m) /\ Reached = wire[m].first - 1
    BY <1>2, <1>3, <1>5, <2>2
  <2>4. \A i \in Frames : IsUpdate(i) => /\ wire[i].first \in Nat /\ wire[i].final \in Nat /\ 1 <= wire[i].first
                                         /\ wire[i].first <= wire[i].final /\ wire[i].final <= sent
    BY <1>1 DEF WireInv, FramesOK, UpdateIs
  <2>5. ASSUME NEW i \in Frames, IsUpdate(i) PROVE i = m \/ m < i
    <3>1. i \in ahead
      BY <1>2, <2>5
    <3>2. i \in Nat /\ m \in Nat /\ m <= i
      BY <2>1, <2>2, <3>1
    <3> QED BY <3>2
  <2>6. \A i \in Frames : IsUpdate(i) => wire[m].first <= wire[i].first
    <3> SUFFICES ASSUME NEW i \in Frames, IsUpdate(i), m < i PROVE wire[m].first <= wire[i].first
      BY <2>3, <2>4, <2>5
    <3>1. wire[m].final < wire[i].first
      BY <2>3 DEF WireInv, OrderOK
    <3> QED BY <2>3, <2>4, <3>1
  <2> QED BY <1>1, <2>3, <2>4, <2>6
<1> QED BY <1>4, <1>5

LEMMA ReachedPos ==
  ASSUME WireInv, lostTo <= Reached
  PROVE  AtPos(0, Reached)
<1>1. Reached \in lostTo .. sent /\ sent \in Nat /\ lostTo \in Nat /\ Reached \in Nat
  BY ReachedIs, NumbersAre
<1>2. ASSUME NEW k \in Reached + 1 .. sent PROVE Covered(0, k)
  <2>1. PICK i \in Frames : IsUpdate(i) /\ wire[i].first = Reached + 1
    BY <1>1, ReachedIs
  <2>2. Awaited(k)
    BY <1>1, <2>1 DEF Awaited
  <2>3. k \in lostTo + 1 .. sent
    BY <1>1
  <2> QED BY <2>2, <2>3 DEF WireInv, Whole
<1> QED BY <1>1, <1>2, ReachedIs DEF AtPos

-----------------------------------------------------------------------------
(* The checksum is about the best of the levels that are shown. *)

LEMMA TopOfTop ==
  ASSUME NEW P, P \subseteq Levels, NEW c \in Nat, NEW t \in Nat, t <= c
  PROVE  Top(Top(P, c), t) = Top(P, t) /\ Top(P, t) \subseteq Top(P, c)
<1>1. /\ Top(P, c) \subseteq P /\ Top(P, t) \subseteq P
      /\ \A l : Below(P, l) \subseteq Levels /\ Below(Top(P, c), l) \subseteq Levels
  BY DEF Top, Below
<1>2. \A l : Cardinality(Below(P, l)) \in Nat
  BY <1>1, LevelsFinite
<1>3. Top(P, t) \subseteq Top(P, c)
  BY <1>2 DEF Top
<1>4. ASSUME NEW l \in Top(P, t) PROVE l \in Top(Top(P, c), t)
  <2>1. l \in Top(P, c)
    BY <1>3
  <2> QED BY <1>1, <2>1, TopOfFewer
<1>5. ASSUME NEW l \in Top(Top(P, c), t) PROVE l \in Top(P, t)
  <2>1. l \in Top(P, c) /\ l \in P
    BY <1>1 DEF Top
  <2>2. ASSUME NEW m \in Below(P, l) PROVE m \in Below(Top(P, c), l)
    <3>1. m \in P /\ m < l
      BY DEF Below
    <3>2. m \in Top(P, c)
      BY <2>1, <3>1, TopIsBest
    <3> QED BY <3>1, <3>2 DEF Below
  <2>3. Below(Top(P, c), l) \subseteq Below(P, l)
    BY <1>1 DEF Below
  <2>4. Below(P, l) = Below(Top(P, c), l)
    BY <2>2, <2>3
  <2>5. Cardinality(Below(Top(P, c), l)) < t
    BY DEF Top
  <2> QED BY <2>1, <2>4, <2>5 DEF Top
<1> QED BY <1>3, <1>4, <1>5

LEMMA ChecksumOfView ==
  ASSUME VenueOK, feed = "kraken", NEW n \in 0 .. Made
  PROVE  Checksum(View(n)) = Checksum(VenueBook(n))
<1> DEFINE B == VenueBook(n)
           P == Present(B)
<1>1. B \in Books /\ View(n) = Capped(B) /\ P \subseteq Levels
  BY VenueIs, ViewIs DEF Present
<1>2. TopLevels \in Nat /\ Cap \in Nat /\ TopLevels <= Cap
  BY KrakenAssumption, CapIs
<1> HIDE DEF B
<1>3. /\ Present(Capped(B)) = Top(P, Cap)
      /\ \A l \in Levels : Capped(B)[l] = IF l \in Top(P, Cap) THEN B[l] ELSE 0
  BY <1>1, CappedIs
<1>4. \A levels : Best(levels, TopLevels) = Top(Present(levels), TopLevels)
  BY DEF Best, Top, Below
<1>5. Top(Top(P, Cap), TopLevels) = Top(P, TopLevels) /\ Top(P, TopLevels) \subseteq Top(P, Cap)
  BY <1>1, <1>2, TopOfTop
<1>6. Best(Capped(B), TopLevels) = Best(B, TopLevels) /\ Best(B, TopLevels) \subseteq Top(P, Cap)
  BY <1>3, <1>4, <1>5
<1>7. Top(P, Cap) \subseteq Levels
  BY <1>1 DEF Top
<1>8. \A l \in Best(B, TopLevels) : Capped(B)[l] = B[l]
  BY <1>3, <1>6, <1>7
<1>9. Checksum(Capped(B)) = Checksum(B)
  BY <1>6, <1>8 DEF Checksum
<1> QED BY <1>1, <1>9 DEF B

-----------------------------------------------------------------------------
(* The steps of the venue and of the session. *)

LEMMA SyncInit ==
  ASSUME Init
  PROVE  SyncInv
<1>1. VenueOK /\ Made = 0
  BY VenueStarts DEF Init
<1>2. /\ wire = <<>> /\ sent = 0 /\ lostTo = 0 /\ mended = 0 /\ ~up
      /\ book = [sync |-> "Unsynced", levels |-> Empty]
      /\ feed \in {"coinbase", "kraken"} /\ rest = NoFetch /\ lastCheck = "none"
  BY DEF Init, ChannelInit, CoinbaseInit, KrakenInit
<1>3. WireIsSeq /\ Frames = {}
  BY <1>2, <<>> \in Seq({}) DEF WireIsSeq, Frames
<1>4. Numbers /\ FramesOK /\ OrderOK
  BY <1>1, <1>2, <1>3 DEF Numbers, FramesOK, OrderOK
<1>5. Whole
  BY <1>3 DEF Whole, Awaited
<1>6. IsBook(book) /\ book.sync # "Synced"
  BY <1>2 DEF IsBook
<1>7. DownOK /\ RestCovers /\ Checked /\ BookAgrees
  BY <1>2, <1>6 DEF DownOK, RestCovers, Checked, BookAgrees
<1> QED BY <1>1, <1>2, <1>3, <1>4, <1>5, <1>6, <1>7 DEF SyncInv, WireInv, BookOK

\* Nothing moves that the book or the wire is about, but the venue may, and a
\* fetch may begin or fail.
LEMMA QuietSync ==
  ASSUME SyncInv, VenueGrows, Made' \in {Made, Made + 1},
         UNCHANGED <<feed, wire, up, book, sent, lostTo, mended, lastCheck>>,
         rest' \in {rest, NoFetch} \/ (up /\ rest' = Made)
  PROVE  SyncInv'
<1>1. /\ Made \in Nat /\ sent \in Nat /\ sent <= Made /\ mended \in 0 .. sent
      /\ \A i \in Frames : IsUpdate(i) => mended < wire[i].first
  BY NumbersAre DEF SyncInv, WireInv, FramesOK
<1>2. WireInv' /\ \A p : AtPos(0, p) => AtPos(0, p)'
  BY <1>1, WireStays DEF SyncInv
<1>3. Frames' = Frames /\ \A i : (IsUpdate(i)' <=> IsUpdate(i)) /\ (IsSnapshot(i)' <=> IsSnapshot(i))
  BY DEF Frames, IsUpdate, IsSnapshot
<1>4. Caught' => Caught
  BY <1>3 DEF Caught
<1>5. BookAgrees'
  BY <1>2, <1>4, AgreesHolds DEF SyncInv
<1>6. BookOK' /\ DownOK' /\ Checked'
  BY DEF SyncInv, BookOK, IsBook, DownOK, Checked
<1>7. RestCovers'
  <2>1. CASE rest' \in {rest, NoFetch}
    BY <1>3, <2>1 DEF SyncInv, RestCovers, NoFetch
  <2>2. CASE rest' = Made
    <3>1. \A k \in rest' + 1 .. sent' : FALSE
      BY <1>1, <2>2
    <3> QED BY <1>1, <2>2, <3>1 DEF RestCovers
  <2> QED BY <2>1, <2>2
<1> QED BY <1>2, <1>5, <1>6, <1>7 DEF SyncInv

LEMMA GrowSync ==
  ASSUME SyncInv, up, NEW f, wire' = Append(wire, f),
         UNCHANGED <<feed, books, touched, up, book, lostTo, mended, rest, lastCheck>>,
         \/ f = UpdateFrame(sent + 1, Made) /\ sent < Made /\ sent' = Made
         \/ f.type \notin {"update", "snapshot"} /\ sent' = sent
  PROVE  SyncInv'
<1>1. VenueGrows /\ Made' = Made
  BY VenueRests DEF SyncInv, WireInv
<1>2. /\ Made \in Nat /\ sent \in Nat /\ sent <= Made /\ lostTo \in Nat /\ sent' \in Nat /\ sent <= sent'
      /\ sent' \in sent .. Made
  BY NumbersAre DEF SyncInv
<1>3. \/ f.type = "update" /\ UpdateIs(f)' /\ f.first = sent + 1 /\ f.final = sent' /\ sent' \in sent .. Made
      \/ f.type \notin {"update", "snapshot"} /\ sent' = sent
  <2>1. CASE f = UpdateFrame(sent + 1, Made) /\ sent < Made /\ sent' = Made
    <3>1. /\ f.type = "update" /\ f.first = sent + 1 /\ f.final = Made
          /\ f.body = Body(sent + 1, Made)
      BY <2>1 DEF UpdateFrame, FrameOf, Body
    <3> SUFFICES ASSUME NEW m \in Nat, m = Made, NEW s \in Nat, s = sent
                 PROVE  UpdateIs(f)'
      BY <1>2, <2>1, <3>1
    <3>2. \A a, b \in Nat : 1 <= a /\ b <= Made => Body(a, b)' = Body(a, b)
      BY <1>1, BodyKept
    <3>3. Body(s + 1, m)' = Body(s + 1, m)
      BY <3>2
    <3>4. f.first \in Nat /\ f.final \in Nat /\ f.first = s + 1 /\ f.final = m /\ s < m
      BY <2>1, <3>1
    <3> QED BY <2>1, <3>1, <3>3, <3>4 DEF UpdateIs
  <2>2. CASE f.type \notin {"update", "snapshot"} /\ sent' = sent
    BY <2>2
  <2> QED BY <2>1, <2>2
<1>4. WireInv' /\ \A p : AtPos(0, p) => AtPos(0, p)'
  BY <1>1, <1>3, WireGrows DEF SyncInv
<1>5. /\ Len(wire) \in Nat /\ Len(wire') = Len(wire) + 1
      /\ \A i \in 1 .. Len(wire) : wire'[i] = wire[i]
      /\ wire'[Len(wire) + 1] = f
  BY WireAppend DEF SyncInv, WireInv
<1>6. \A i \in Frames : /\ i \in Frames' /\ wire'[i] = wire[i]
                        /\ IsUpdate(i)' <=> IsUpdate(i)
                        /\ IsSnapshot(i)' <=> IsSnapshot(i)
  BY <1>5 DEF Frames, IsUpdate, IsSnapshot
<1>7. Caught' => Caught
  BY <1>6 DEF Caught
<1>8. BookAgrees'
  BY <1>1, <1>4, <1>7, AgreesHolds DEF SyncInv
<1>9. BookOK' /\ DownOK' /\ Checked'
  BY DEF SyncInv, BookOK, IsBook, DownOK, Checked
<1>10. RestCovers'
  <2> SUFFICES ASSUME feed = "coinbase", rest # NoFetch, NEW k \in rest + 1 .. sent'
               PROVE  k <= lostTo \/ \E i \in Frames' : IsUpdate(i)' /\ wire'[i].first <= k
    BY DEF SyncInv, RestCovers
  <2>1. rest \in Nat /\ k \in Int
    BY <1>2 DEF SyncInv, RestCovers
  <2>2. CASE k <= sent
    <3>1. k \in rest + 1 .. sent
      BY <1>2, <2>1, <2>2
    <3>2. k <= lostTo \/ \E i \in Frames : IsUpdate(i) /\ wire[i].first <= k
      BY <3>1 DEF SyncInv, RestCovers
    <3> QED BY <1>6, <3>2
  <2>3. CASE sent < k
    <3>1. f.type = "update" /\ f.first = sent + 1
      BY <1>2, <1>3, <2>1, <2>3
    <3> DEFINE n == Len(wire) + 1
    <3>2. n \in Frames' /\ wire'[n] = f
      BY <1>5 DEF Frames
    <3>4. \A i : IsUpdate(i)' <=> wire'[i].type = "update"
      BY DEF IsUpdate
    <3> HIDE DEF n
    <3>5. wire'[n].first <= k
      BY <1>2, <2>1, <2>3, <3>1, <3>2
    <3> QED BY <3>1, <3>2, <3>4, <3>5
  <2>4. k <= sent \/ sent < k
    BY <1>2, <2>1
  <2> QED BY <2>2, <2>3, <2>4
<1> QED BY <1>4, <1>8, <1>9, <1>10 DEF SyncInv

LEMMA OmitSync ==
  ASSUME SyncInv, VenueOmit, UNCHANGED <<rest, lastCheck>>
  PROVE  SyncInv'
<1>1. /\ sent < Made /\ sent' = Made /\ lostTo' = Made /\ up
      /\ UNCHANGED <<feed, books, touched, wire, up, book, mended>>
  BY DEF VenueOmit
<1>2. VenueGrows /\ Made' = Made
  BY <1>1, VenueRests DEF SyncInv, WireInv
<1>3. /\ Made \in Nat /\ sent \in Nat /\ mended \in Nat /\ mended <= sent /\ lostTo \in Nat /\ lostTo <= sent
  BY NumbersAre DEF SyncInv
<1>4. WireInv'
  BY <1>1, <1>2, WireOmits DEF SyncInv
<1>5. BookAgrees'
  <2>1. ~(lostTo' <= mended')
    BY <1>1, <1>3
  <2> QED BY <2>1 DEF BookAgrees
<1>6. BookOK' /\ DownOK'
  BY <1>1 DEF SyncInv, BookOK, IsBook, DownOK
<1>7. Checked'
  BY <1>1, <1>3 DEF SyncInv, Checked
<1>8. RestCovers'
  <2>1. rest \in Nat => \A k \in rest + 1 .. sent' : k <= lostTo'
    BY <1>1, <1>3
  <2> QED BY <1>1, <2>1 DEF SyncInv, RestCovers
<1> QED BY <1>1, <1>4, <1>5, <1>6, <1>7, <1>8 DEF SyncInv

\* The snapshot a session begins with is the venue's when it began.
LEMMA ShowsAll ==
  VenueOK => SetBody(Empty, SnapshotFrame.body) = View(Made)
BY SnapshotShows

LEMMA ShowsNext ==
  (VenueOK => SetBody(Empty, SnapshotFrame.body) = View(Made))'
BY ShowsAll, PTL

LEMMA SnapshotSent ==
  ASSUME VenueGrows, Made' = Made, sent' = Made
  PROVE  /\ SnapshotFrame' = SnapshotFrame /\ SnapshotFrame.type = "snapshot" /\ SnapshotFrame.final = Made
         /\ SnapshotIs(SnapshotFrame)'
<1>1. SnapshotFrame.type = "snapshot" /\ SnapshotFrame.final = Made /\ Made \in Nat /\ VenueOK'
  BY VenueIs DEF SnapshotFrame, FrameOf, VenueGrows
<1>2. SnapshotFrame' = SnapshotFrame
  <2> SUFFICES ASSUME NEW m, m = Made PROVE SnapshotFrame' = SnapshotFrame
    OBVIOUS
  <2> DEFINE listed(v) == FrameOf("snapshot", m, m, <<SetToSeq({[level |-> l, qty |-> v[l]] : l \in Present(v)})>>)
  <2>1. SnapshotFrame = listed(View(m))
    BY DEF SnapshotFrame
  <2>2. SnapshotFrame' = listed(View(m)')
    BY DEF SnapshotFrame, FrameOf, Present, Levels
  <2>3. View(m)' = View(m)
    BY <1>1, Shown
  <2> QED BY <2>1, <2>2, <2>3
<1>3. (SnapshotFrame.final = Made)'
  BY DEF SnapshotFrame, FrameOf
<1>4. SnapshotIs(SnapshotFrame)'
  <2>1. SetBody(Empty, SnapshotFrame.body)' = View(Made)'
    BY <1>1, ShowsNext
  <2>2. (SnapshotFrame.final \in 0 .. sent)'
    BY <1>1, <1>3
  <2>3. View(SnapshotFrame.final)' = View(Made)'
    BY <1>3
  <2> QED BY <2>1, <2>2, <2>3 DEF SnapshotIs
<1> QED BY <1>1, <1>2, <1>4

\* A session begins with the snapshot, and a trade before or after it.
LEMMA BeginSync ==
  ASSUME SyncInv, NEW greeting, Subscribe(greeting), UNCHANGED <<rest, lastCheck>>, NEW f,
         f.type \notin {"snapshot", "update"},
         greeting \in {<<SnapshotFrame>>, <<SnapshotFrame, f>>, <<f, SnapshotFrame>>}
  PROVE  SyncInv'
<1> DEFINE snap == SnapshotFrame
<1>1. /\ ~up /\ up' /\ sent' = Made /\ wire' = greeting
      /\ UNCHANGED <<feed, books, touched, book, lostTo, mended>>
  BY DEF Subscribe
<1>2. VenueGrows /\ Made' = Made
  BY <1>1, VenueRests DEF SyncInv, WireInv
<1>3. /\ Made \in Nat /\ sent \in Nat /\ sent <= Made /\ mended \in Nat /\ mended <= sent
      /\ lostTo \in Nat /\ lostTo <= sent
  BY NumbersAre DEF SyncInv
<1>4. snap' = snap /\ snap.type = "snapshot" /\ snap.final = Made /\ SnapshotIs(snap)'
  BY <1>1, <1>2, SnapshotSent
<1> HIDE DEF snap
<1>5. /\ WireIsSeq'
      /\ \A i \in Frames' : wire'[i] = snap \/ wire'[i] = f
      /\ \A i, j \in Frames' : wire'[i] = snap /\ wire'[j] = snap => i = j
      /\ \E i \in Frames' : wire'[i] = snap
  <2>1. snap # f
    BY <1>4
  <2>2. CASE wire' = <<snap>>
    <3>1. wire' \in Seq({snap})
      BY <2>2
    <3>2. Frames' = {1} /\ wire'[1] = snap
      BY <2>2 DEF Frames
    <3> QED BY <3>1, <3>2 DEF WireIsSeq
  <2>3. CASE wire' = <<snap, f>>
    <3>1. wire' \in Seq({snap, f})
      BY <2>3
    <3>2. Frames' = {1, 2} /\ wire'[1] = snap /\ wire'[2] = f
      BY <2>3 DEF Frames
    <3> QED BY <2>1, <3>1, <3>2 DEF WireIsSeq
  <2>4. CASE wire' = <<f, snap>>
    <3>1. wire' \in Seq({snap, f})
      BY <2>4
    <3>2. Frames' = {1, 2} /\ wire'[1] = f /\ wire'[2] = snap
      BY <2>4 DEF Frames
    <3> QED BY <2>1, <3>1, <3>2 DEF WireIsSeq
  <2> QED BY <1>1, <2>2, <2>3, <2>4 DEF snap
<1>6. /\ \A i \in Frames' : ~IsUpdate(i)'
      /\ \A i \in Frames' : IsSnapshot(i)' <=> wire'[i] = snap
  BY <1>4, <1>5 DEF IsUpdate, IsSnapshot
<1>7. \A i \in Frames' : IsSnapshot(i)' => SnapshotIs(wire[i])' /\ wire'[i].final = sent'
  <2> SUFFICES ASSUME NEW i \in Frames', wire'[i] = snap
               PROVE  SnapshotIs(wire[i])' /\ wire'[i].final = sent'
    BY <1>6
  <2>1. SnapshotIs(wire[i])' <=> SnapshotIs(snap)'
    BY <1>4 DEF SnapshotIs
  <2> QED BY <1>1, <1>4, <2>1
<1>8. WireInv'
  <2>1. \A i, j \in Frames' : IsSnapshot(i)' /\ IsSnapshot(j)' => i = j
    BY <1>5, <1>6
  <2>2. sent' \in sent .. Made
    BY <1>1, <1>3
  <2> QED BY <1>1, <1>2, <1>5, <1>6, <1>7, <2>1, <2>2, WireBegins DEF SyncInv
<1>9. BookAgrees'
  <2> SUFFICES ASSUME book.sync = "Synced", lostTo <= mended, Caught' PROVE BookAgrees'
    BY <1>1 DEF BookAgrees
  <2>1. PICK i \in Frames' : IsSnapshot(i)' /\ wire'[i].final = Made
    BY <1>1, <1>5, <1>6, <1>7
  <2>2. Made <= mended
    BY <1>1, <2>1 DEF Caught
  <2>3. sent = Made /\ Caught
    BY <1>1, <1>3, <2>2 DEF Caught
  <2>4. PICK p : AtPos(0, p) /\ Agrees(book.levels, p)
    BY <2>3 DEF SyncInv, BookAgrees
  <2>5. wire = <<>> /\ p \in Nat /\ p <= sent
    BY <1>1, <1>3, <2>4 DEF SyncInv, DownOK, AtPos
  <2>6. p = sent
    <3>1. Frames = {}
      BY <2>5 DEF Frames
    <3>2. \A k \in p + 1 .. sent : FALSE
      BY <2>4, <3>1 DEF AtPos, Covered
    <3>3. p < sent => p + 1 \in p + 1 .. sent
      BY <1>3, <2>5
    <3> QED BY <1>3, <2>5, <3>2, <3>3
  <2>7. AtPos(0, p)'
    <3>1. p \in lostTo' .. sent'
      BY <1>1, <1>3, <2>3, <2>4, <2>6 DEF AtPos
    <3>2. \A k \in p + 1 .. sent' : FALSE
      BY <1>1, <1>3, <2>3, <2>6
    <3> QED BY <1>6, <3>1, <3>2 DEF AtPos
  <2>8. Agrees(book.levels, p)'
    BY <1>1, <1>2, <1>3, <2>4, <2>5, BookStays
  <2> QED BY <2>7, <2>8 DEF BookAgrees
<1>10. BookOK' /\ DownOK' /\ Checked'
  BY <1>1 DEF SyncInv, BookOK, IsBook, DownOK, Checked
<1>11. RestCovers'
  BY <1>1 DEF SyncInv, DownOK, RestCovers, NoFetch
<1> QED BY <1>1, <1>8, <1>9, <1>10, <1>11 DEF SyncInv

\* A session ends, and what was on the way never comes.
LEMMA EndSync ==
  ASSUME SyncInv, Hangup, UNCHANGED <<rest, lastCheck>>, feed = "coinbase" => rest = NoFetch
  PROVE  SyncInv'
<1>1. /\ up /\ ~up' /\ wire' = <<>>
      /\ UNCHANGED <<feed, books, touched, sent, book, lostTo, mended>>
  BY DEF Hangup, venueVars
<1>2. VenueGrows /\ Made' = Made
  BY <1>1, VenueRests DEF SyncInv, WireInv
<1>3. /\ Made \in Nat /\ sent \in Nat /\ sent <= Made /\ mended \in Nat /\ mended <= sent
      /\ lostTo \in Nat /\ lostTo <= sent
  BY NumbersAre DEF SyncInv
<1>4. Frames' = {} /\ WireIsSeq'
  BY <1>1, <<>> \in Seq({}) DEF Frames, WireIsSeq
<1>5. WireInv'
  <2>1. sent' \in sent .. Made
    BY <1>1, <1>3
  <2> QED BY <1>1, <1>2, <1>4, <2>1, WireBegins DEF SyncInv
<1>6. BookAgrees'
  <2> SUFFICES ASSUME book.sync = "Synced", lostTo <= mended, sent <= mended PROVE BookAgrees'
    BY <1>1 DEF BookAgrees, Caught
  <2>1. \A i \in Frames : IsSnapshot(i) => wire[i].final <= mended
    BY <1>3 DEF SyncInv, WireInv, FramesOK, SnapshotIs
  <2>2. PICK p : AtPos(0, p) /\ Agrees(book.levels, p)
    BY <1>1, <2>1 DEF SyncInv, BookAgrees, Caught
  <2>3. p \in Nat /\ p <= sent /\ lostTo <= p
    BY <1>3, <2>2 DEF AtPos
  <2>4. \A k : ~Covered(0, k)
    BY <1>3 DEF SyncInv, WireInv, FramesOK, UpdateIs, Covered
  <2>5. p = sent
    <3>1. p < sent => p + 1 \in p + 1 .. sent
      BY <1>3, <2>3
    <3> QED BY <1>3, <2>2, <2>3, <2>4, <3>1 DEF AtPos
  <2>6. AtPos(0, p)'
    <3>1. p \in lostTo' .. sent' /\ \A k \in p + 1 .. sent' : FALSE
      BY <1>1, <1>3, <2>3, <2>5
    <3> QED BY <1>4, <3>1 DEF AtPos
  <2>7. Agrees(book.levels, p)'
    BY <1>1, <1>2, <1>3, <2>2, <2>3, BookStays
  <2> QED BY <2>6, <2>7 DEF BookAgrees
<1>7. BookOK' /\ DownOK' /\ Checked'
  BY <1>1 DEF SyncInv, BookOK, IsBook, DownOK, Checked
<1>8. RestCovers'
  BY <1>1 DEF RestCovers
<1> QED BY <1>1, <1>5, <1>6, <1>7, <1>8 DEF SyncInv

-----------------------------------------------------------------------------
(* The steps that read, lose or fetch. *)

\* The first frame is about nothing the book lacks.
LEMMA PosSkip ==
  ASSUME WireInv, NEW p, AtPos(0, p), wire # <<>>, ~IsUpdate(1)
  PROVE  AtPos(1, p)
<1>1. \A i \in Frames : 0 < i /\ IsUpdate(i) => 1 < i
  BY NumbersAre DEF Frames
<1>2. \A i \in Frames : 1 < i => 0 < i
  BY DEF Frames
<1> QED BY <1>1, <1>2 DEF AtPos, Covered

\* The updates the mended losses reach are not on the way.
LEMMA MendedPast ==
  ASSUME WireInv, NEW p, AtPos(0, p)
  PROVE  mended <= p
<1>1. p \in Nat /\ mended \in Nat /\ mended <= sent /\ sent \in Nat
  BY NumbersAre DEF AtPos
<1> SUFFICES ASSUME p < mended PROVE FALSE
  BY <1>1
<1>2. p + 1 \in p + 1 .. sent
  BY <1>1
<1>3. PICK i \in Frames : IsUpdate(i) /\ wire[i].first <= p + 1
  BY <1>2 DEF AtPos, Covered
<1>4. mended < wire[i].first /\ wire[i].first \in Nat
  BY <1>1, <1>3 DEF WireInv, FramesOK, UpdateIs
<1> QED BY <1>1, <1>3, <1>4

LEMMA ShiftedFrames ==
  ASSUME WireInv, wire # <<>>, wire' = Tail(wire)
  PROVE  /\ 1 \in Frames
         /\ \A i \in Frames : IsSnapshot(i) => i = 1 \/ \E j \in Frames' : IsSnapshot(j)' /\ wire'[j] = wire[i]
<1>1. /\ Len(wire) \in Nat /\ Len(wire') = Len(wire) - 1 /\ 1 <= Len(wire)
      /\ \A i \in 1 .. Len(wire') : i + 1 \in 1 .. Len(wire) /\ wire'[i] = wire[i + 1]
  <2>1. PICK S : wire \in Seq(S)
    BY DEF WireInv, WireIsSeq
  <2>2. 1 <= Len(wire)
    BY <2>1
  <2> QED BY <2>2, WireTail DEF WireInv
<1>2. ASSUME NEW i \in Frames, IsSnapshot(i), i # 1
      PROVE  \E j \in Frames' : IsSnapshot(j)' /\ wire'[j] = wire[i]
  <2>1. PICK j \in Frames' : j + 1 = i
    <3>1. i - 1 \in Frames' /\ (i - 1) + 1 = i
      BY <1>1, <1>2 DEF Frames
    <3> QED BY <3>1
  <2>2. wire'[j] = wire[i]
    BY <1>1, <2>1 DEF Frames
  <2>3. IsSnapshot(j)' <=> wire'[j].type = "snapshot"
    BY DEF IsSnapshot
  <2> QED BY <1>2, <2>2, <2>3 DEF IsSnapshot
<1> QED BY <1>1, <1>2 DEF Frames

\* A frame comes off the wire: what every such step keeps.
LEMMA TakenSync ==
  ASSUME SyncInv, up, wire # <<>>, wire' = Tail(wire),
         UNCHANGED <<feed, books, touched, sent, up, rest>>,
         lostTo' \in lostTo .. sent, mended' \in 0 .. sent,
         \A i \in Frames : 1 < i /\ IsUpdate(i) => mended' < wire[i].first,
         feed = "coinbase" => rest = NoFetch
  PROVE  /\ VenueGrows /\ Made' = Made
         /\ WireInv' /\ DownOK' /\ RestCovers'
         /\ \A p : AtPos(1, p) /\ lostTo' <= p => AtPos(0, p)'
<1>1. VenueGrows /\ Made' = Made
  BY VenueRests DEF SyncInv, WireInv
<1>2. WireInv' /\ \A p : AtPos(1, p) /\ lostTo' <= p => AtPos(0, p)'
  BY <1>1, WireShrinks DEF SyncInv
<1>3. DownOK' /\ RestCovers'
  BY DEF DownOK, RestCovers
<1> QED BY <1>1, <1>2, <1>3

\* A message that is not about the book is read; a Gap is seen, or none.
LEMMA PassSync ==
  ASSUME SyncInv, up, wire # <<>>, wire[1].type \notin {"snapshot", "update"},
         NEW b, TakeFrame(b), b \in {book, ApplyGap(book)}, UNCHANGED <<rest, lastCheck>>,
         feed = "coinbase" => rest = NoFetch
  PROVE  SyncInv'
<1>1. /\ wire' = Tail(wire) /\ book' = b /\ mended' = mended
      /\ UNCHANGED <<feed, books, touched, sent, up, lostTo>>
  BY DEF TakeFrame, venueVars
<1>2. /\ sent \in Nat /\ lostTo \in Nat /\ lostTo <= sent /\ mended \in 0 .. sent /\ Made \in Nat /\ sent <= Made
      /\ \A i \in Frames : IsUpdate(i) => mended < wire[i].first
  BY NumbersAre DEF SyncInv, WireInv, FramesOK
<1>3. /\ VenueGrows /\ Made' = Made /\ WireInv' /\ DownOK' /\ RestCovers'
      /\ \A p : AtPos(1, p) /\ lostTo' <= p => AtPos(0, p)'
  <2>1. lostTo' \in lostTo .. sent
    BY <1>1, <1>2
  <2> QED BY <1>1, <1>2, <2>1, TakenSync
<1>4. BookOK'
  BY <1>1, BookEvents DEF SyncInv, BookOK, IsBook
<1>5. BookAgrees'
  <2>1. CASE b = ApplyGap(book)
    <3>1. book'.sync # "Synced"
      BY <1>1, <2>1, BookEvents DEF SyncInv
    <3> QED BY <3>1 DEF BookAgrees
  <2>2. CASE b = book
    <3> SUFFICES ASSUME book.sync = "Synced", lostTo <= mended, Caught'
                 PROVE  BookAgrees'
      BY <1>1, <2>2 DEF BookAgrees
    <3>1. ~IsUpdate(1) /\ ~IsSnapshot(1)
      BY DEF IsUpdate, IsSnapshot
    <3>2. Caught
      BY <1>1, <3>1, ShiftedFrames DEF SyncInv, Caught
    <3>3. PICK p : AtPos(0, p) /\ Agrees(book.levels, p)
      BY <3>2 DEF SyncInv, BookAgrees
    <3>4. p \in Nat /\ lostTo <= p /\ p <= Made
      BY <1>2, <3>3 DEF AtPos
    <3>5. AtPos(0, p)'
      BY <1>1, <1>3, <3>1, <3>3, <3>4, PosSkip DEF SyncInv
    <3>6. Agrees(book.levels, p)'
      BY <1>1, <1>3, <2>2, <3>3, <3>4, BookStays
    <3> QED BY <3>5, <3>6 DEF BookAgrees
  <2> QED BY <2>1, <2>2
<1>6. Checked'
  BY <1>1 DEF SyncInv, Checked
<1> QED BY <1>1, <1>3, <1>4, <1>5, <1>6 DEF SyncInv

\* An update is read: what is left on the way follows it.
LEMMA ReadUpdateSync ==
  ASSUME SyncInv, up, wire # <<>>, wire[1].type = "update", TakeFrame(ApplyUpdate(book, wire[1])),
         rest' = rest, feed = "coinbase" => rest = NoFetch,
         \/ lastCheck' = lastCheck
         \/ feed = "kraken" /\ lastCheck' = Compare(ApplyUpdate(book, wire[1]), wire[1])
  PROVE  SyncInv'
<1> DEFINE f == wire[1]
           b == ApplyUpdate(book, f)
<1>1. /\ wire' = Tail(wire) /\ book' = b /\ mended' = mended
      /\ UNCHANGED <<feed, books, touched, sent, up, lostTo>>
  BY DEF TakeFrame, venueVars
<1>2. /\ sent \in Nat /\ lostTo \in Nat /\ lostTo <= sent /\ mended \in 0 .. sent /\ Made \in Nat /\ sent <= Made
      /\ \A i \in Frames : IsUpdate(i) => mended < wire[i].first
  BY NumbersAre DEF SyncInv, WireInv, FramesOK
<1>3. /\ VenueGrows /\ Made' = Made /\ WireInv' /\ DownOK' /\ RestCovers'
      /\ \A p : AtPos(1, p) /\ lostTo' <= p => AtPos(0, p)'
  <2>1. lostTo' \in lostTo .. sent
    BY <1>1, <1>2
  <2> QED BY <1>1, <1>2, <2>1, TakenSync
<1>4. 1 \in Frames /\ IsUpdate(1) /\ ~IsSnapshot(1)
  BY <1>1, ShiftedFrames DEF SyncInv, IsUpdate, IsSnapshot
<1>5. /\ b.sync = book.sync /\ IsBook(b)
      /\ book.sync = "Synced" => b.levels = After(book.levels, f)
  BY BookEvents DEF SyncInv
<1> HIDE DEF b
<1>6. ASSUME book.sync = "Synced", lostTo <= mended
      PROVE  \E q : q = f.final /\ AtPos(1, q) /\ Agrees(b.levels, q)
  <2>1. \A i \in Frames : ~IsSnapshot(i)
    <3> SUFFICES ASSUME NEW i \in Frames, IsSnapshot(i) PROVE FALSE
      OBVIOUS
    <3>1. i # 1
      BY <1>4
    <3>2. 1 < i
      BY <3>1 DEF Frames
    <3> QED BY <1>4, <3>2 DEF SyncInv, WireInv, OrderOK
  <2>2. Caught
    BY <2>1 DEF Caught
  <2>3. PICK p : AtPos(0, p) /\ Agrees(book.levels, p)
    BY <1>6, <2>2 DEF SyncInv, BookAgrees
  <2>4. 0 + 1 = 1 /\ 0 \in Nat /\ 0 + 1 <= Len(wire)
    BY <1>4 DEF Frames
  <2>5. \E q : /\ AtPos(1, q) /\ Agrees(After(book.levels, f), q)
               /\ IsUpdate(1) => q = f.final
    <3> DEFINE L == book.levels
    <3>1. Agrees(L, p)
      BY <2>3
    <3> HIDE DEF L
    <3>2. \E q : /\ AtPos(0 + 1, q) /\ Agrees(After(L, wire[0 + 1]), q)
                 /\ IsUpdate(0 + 1) => q = wire[0 + 1].final
      BY <1>4, <2>3, <2>4, <3>1, PosStep DEF SyncInv
    <3> QED BY <2>4, <3>2 DEF L
  <2> QED BY <1>4, <1>5, <1>6, <2>5
<1>7. BookAgrees'
  <2> SUFFICES ASSUME book.sync = "Synced", lostTo <= mended PROVE BookAgrees'
    BY <1>1, <1>5 DEF BookAgrees
  <2>1. PICK q : AtPos(1, q) /\ Agrees(b.levels, q)
    BY <1>6
  <2>2. q \in Nat /\ lostTo <= q /\ q <= Made
    BY <1>2, <2>1 DEF AtPos
  <2>3. AtPos(0, q)'
    BY <1>1, <1>3, <2>1, <2>2
  <2>4. Agrees(book.levels, q)'
    BY <1>1, <1>3, <2>1, <2>2, BookStays
  <2> QED BY <2>3, <2>4 DEF BookAgrees
<1>8. Checked'
  <2>1. CASE lastCheck' = lastCheck
    BY <1>1, <2>1 DEF SyncInv, Checked
  <2>2. CASE feed = "kraken" /\ lastCheck' = Compare(b, f)
    <3> SUFFICES ASSUME lastCheck' = "mismatch", lostTo <= mended PROVE FALSE
      BY <1>1, <1>2, <2>2 DEF Checked
    <3>1. lastCheck # "mismatch"
      BY <1>2 DEF SyncInv, Checked
    <3>2. b.sync = "Synced" /\ Checksum(b.levels) # Checksum(VenueBook(f.final))
      BY <2>2, <3>1 DEF Compare
    <3>3. AtPos(1, f.final) /\ b.levels = View(f.final)
      BY <1>5, <1>6, <2>2, <3>2 DEF Agrees
    <3>4. f.final \in 0 .. Made
      BY <1>2, <3>3 DEF AtPos
    <3> QED BY <2>2, <3>2, <3>3, <3>4, ChecksumOfView DEF SyncInv, WireInv
  <2> QED BY <2>1, <2>2 DEF b
<1>9. BookOK'
  BY <1>1, <1>5 DEF BookOK, IsBook
<1> QED BY <1>1, <1>3, <1>7, <1>8, <1>9 DEF SyncInv

\* A snapshot is read: it mends every loss before it, and what is on the way
\* is later.
LEMMA ReadSnapshotSync ==
  ASSUME SyncInv, up, wire # <<>>, wire[1].type = "snapshot",
         TakeFrame(ApplySnapshot(book, After(Empty, wire[1]))),
         rest' = rest, feed = "coinbase" => rest = NoFetch,
         \/ feed = "coinbase" /\ lastCheck' = lastCheck
         \/ feed = "kraken" /\ lastCheck' = Compare(ApplySnapshot(book, After(Empty, wire[1])), wire[1])
  PROVE  SyncInv'
<1> DEFINE f == wire[1]
           L == After(Empty, f)
           b == ApplySnapshot(book, L)
<1>1. /\ wire' = Tail(wire) /\ book' = b /\ mended' = f.final
      /\ UNCHANGED <<feed, books, touched, sent, up, lostTo>>
  BY DEF TakeFrame, venueVars
<1>2. /\ sent \in Nat /\ lostTo \in Nat /\ lostTo <= sent /\ Made \in Nat /\ sent <= Made
  BY NumbersAre DEF SyncInv
<1>3. 1 \in Frames /\ IsSnapshot(1)
  BY <1>1, ShiftedFrames DEF SyncInv, IsSnapshot
<1>4. f.final \in 0 .. sent /\ L = View(f.final)
  BY <1>3 DEF SyncInv, WireInv, FramesOK, SnapshotIs, After, IsSnapshot
<1>5. \A i \in Frames : 1 < i /\ IsUpdate(i) => f.final < wire[i].first
  BY <1>3 DEF SyncInv, WireInv, OrderOK
<1> HIDE DEF L
<1>6. b = [sync |-> "Synced", levels |-> L]
  BY BookEvents DEF SyncInv
<1>7. b.levels = L /\ b.sync = "Synced" /\ IsBook(b)
  <2> HIDE DEF b
  <2> QED BY <1>6 DEF IsBook
<1> HIDE DEF b
<1>8. /\ VenueGrows /\ Made' = Made /\ WireInv' /\ DownOK' /\ RestCovers'
      /\ \A p : AtPos(1, p) /\ lostTo' <= p => AtPos(0, p)'
  <2>1. lostTo' \in lostTo .. sent
    BY <1>1, <1>2
  <2> QED BY <1>1, <1>2, <1>4, <1>5, <2>1, TakenSync
<1>9. BookAgrees'
  <2> SUFFICES ASSUME lostTo <= f.final PROVE BookAgrees'
    BY <1>1 DEF BookAgrees
  <2>1. PICK n : n = f.final /\ AtPos(1, n) /\ Agrees(L, n)
    BY <1>3, SnapPos DEF SyncInv, L
  <2>2. n \in Nat /\ n <= Made /\ lostTo' <= n
    BY <1>1, <1>2, <1>4, <2>1
  <2>3. AtPos(0, n)'
    BY <1>8, <2>1, <2>2
  <2>4. Agrees(book.levels, n)'
    <3>1. book'.levels = L
      BY <1>1, <1>7
    <3> QED BY <1>8, <2>1, <2>2, <3>1, BookStays
  <2> QED BY <2>3, <2>4 DEF BookAgrees
<1>10. Checked'
  <2>1. CASE feed = "coinbase" /\ lastCheck' = lastCheck
    BY <2>1 DEF SyncInv, Checked
  <2>2. CASE feed = "kraken" /\ lastCheck' = Compare(b, f)
    <3>1. f.final \in 0 .. Made
      BY <1>2, <1>4
    <3>2. Checksum(b.levels) = Checksum(VenueBook(f.final))
      BY <1>4, <1>7, <2>2, <3>1, ChecksumOfView DEF SyncInv, WireInv
    <3> QED BY <1>7, <2>2, <3>2 DEF Compare, Checked
  <2> QED BY <2>1, <2>2 DEF b, L
<1>11. BookOK'
  BY <1>1, <1>7 DEF BookOK, IsBook
<1> QED BY <1>1, <1>8, <1>9, <1>10, <1>11 DEF SyncInv

\* A frame is lost between the wire and the book.
LEMMA DropSync ==
  ASSUME SyncInv, DropFrame, UNCHANGED <<rest, lastCheck>>, feed = "coinbase" => rest = NoFetch
  PROVE  SyncInv'
<1> DEFINE f == wire[1]
<1>1. /\ up /\ wire # <<>> /\ wire' = Tail(wire)
      /\ lostTo' = IF f.type \in {"snapshot", "update"} /\ lostTo < f.final THEN f.final ELSE lostTo
      /\ UNCHANGED <<feed, books, touched, sent, up, book, mended>>
  BY DEF DropFrame, venueVars
<1>2. /\ sent \in Nat /\ lostTo \in Nat /\ lostTo <= sent /\ mended \in 0 .. sent /\ Made \in Nat /\ sent <= Made
      /\ \A i \in Frames : IsUpdate(i) => mended < wire[i].first
  BY NumbersAre DEF SyncInv, WireInv, FramesOK
<1>3. 1 \in Frames
  BY <1>1, ShiftedFrames DEF SyncInv
<1>4. /\ IsUpdate(1) => f.final \in Nat /\ f.first \in Nat /\ f.first <= f.final /\ f.final <= sent
      /\ IsSnapshot(1) => f.final \in Nat /\ f.final <= sent
  BY <1>2, <1>3 DEF SyncInv, WireInv, FramesOK, UpdateIs, SnapshotIs
<1>5. /\ lostTo' \in lostTo .. sent
      /\ IsUpdate(1) \/ IsSnapshot(1) => f.final <= lostTo'
  BY <1>1, <1>2, <1>4 DEF IsUpdate, IsSnapshot
<1>6. /\ VenueGrows /\ Made' = Made /\ WireInv' /\ DownOK' /\ RestCovers'
      /\ \A p : AtPos(1, p) /\ lostTo' <= p => AtPos(0, p)'
  BY <1>1, <1>2, <1>5, TakenSync
<1>7. BookAgrees'
  <2> SUFFICES ASSUME book.sync = "Synced", lostTo' <= mended, Caught' PROVE BookAgrees'
    BY <1>1 DEF BookAgrees
  <2>1. ~IsUpdate(1)
    BY <1>2, <1>3, <1>4, <1>5
  <2>2. IsSnapshot(1) => f.final <= mended
    BY <1>2, <1>4, <1>5
  <2>3. Caught
    BY <1>1, <2>2, ShiftedFrames DEF SyncInv, Caught
  <2>4. lostTo <= mended
    BY <1>2, <1>5
  <2>5. PICK p : AtPos(0, p) /\ Agrees(book.levels, p)
    BY <2>3, <2>4 DEF SyncInv, BookAgrees
  <2>6. p \in Nat /\ p <= Made /\ lostTo' <= p
    <3>1. mended <= p
      BY <2>5, MendedPast DEF SyncInv
    <3>2. p \in Nat /\ p <= Made
      BY <1>2, <2>5 DEF AtPos
    <3> QED BY <1>2, <1>5, <3>1, <3>2
  <2>7. AtPos(0, p)'
    BY <1>1, <1>6, <2>1, <2>5, <2>6, PosSkip DEF SyncInv
  <2>8. Agrees(book.levels, p)'
    BY <1>1, <1>6, <2>5, <2>6, BookStays
  <2> QED BY <2>7, <2>8 DEF BookAgrees
<1>8. BookOK'
  BY <1>1 DEF SyncInv, BookOK, IsBook
<1>9. Checked'
  BY <1>1, <1>2, <1>5 DEF SyncInv, Checked
<1> QED BY <1>1, <1>6, <1>7, <1>8, <1>9 DEF SyncInv

\* A fetched book, whatever it is newer than, is brought in step by what is on
\* the way.
LEMMA FetchedSync ==
  ASSUME SyncInv, feed = "coinbase", NEW n, Fetched(n), lastCheck' = lastCheck
  PROVE  SyncInv'
<1> DEFINE B == VenueBook(n)
           b == ApplySnapshot(book, B)
<1>1. /\ rest # NoFetch /\ n \in rest .. Made /\ book' = b
      /\ mended' = IF n <= Reached THEN n ELSE Reached
      /\ rest' = NoFetch
      /\ UNCHANGED <<feed, books, touched, sent, wire, up, lostTo>>
  BY DEF Fetched, venueVars
<1>2. /\ sent \in Nat /\ lostTo \in Nat /\ lostTo <= sent /\ Made \in Nat /\ sent <= Made
      /\ rest \in Nat /\ n \in Nat /\ n <= Made /\ rest <= n /\ up
  BY <1>1, NumbersAre DEF SyncInv, RestCovers, DownOK
<1>3. /\ Reached \in 0 .. sent
      /\ \A i \in Frames : IsUpdate(i) => Reached < wire[i].first /\ wire[i].first \in Nat
  BY <1>2, ReachedIs DEF SyncInv, WireInv, FramesOK, UpdateIs
<1>4. b = [sync |-> "Synced", levels |-> B]
  BY BookEvents DEF SyncInv
<1> HIDE DEF B
<1>5. b.levels = B /\ b.sync = "Synced" /\ IsBook(b)
  <2> HIDE DEF b
  <2> QED BY <1>4 DEF IsBook
<1> HIDE DEF b
<1>6. VenueGrows /\ Made' = Made
  BY <1>1, VenueRests DEF SyncInv, WireInv
<1>7. WireInv' /\ \A p : AtPos(0, p) => AtPos(0, p)'
  <2>1. mended' \in 0 .. sent /\ mended' <= Reached
    BY <1>1, <1>2, <1>3
  <2>2. \A i \in Frames : IsUpdate(i) => mended' < wire[i].first
    BY <1>2, <1>3, <2>1
  <2> QED BY <1>1, <1>6, <2>1, <2>2, WireStays DEF SyncInv
<1>8. BookAgrees'
  <2> SUFFICES ASSUME lostTo <= mended' PROVE BookAgrees'
    BY <1>1 DEF BookAgrees
  <2>1. Reached <= n
    <3> SUFFICES ASSUME n < Reached PROVE FALSE
      BY <1>2, <1>3
    <3>1. n + 1 \in rest + 1 .. sent /\ ~(n + 1 <= lostTo)
      BY <1>1, <1>2, <1>3
    <3>2. PICK i \in Frames : IsUpdate(i) /\ wire[i].first <= n + 1
      BY <1>1, <3>1 DEF SyncInv, RestCovers
    <3> QED BY <1>2, <1>3, <3>2
  <2>2. mended' = Reached
    BY <1>1, <1>2, <1>3, <2>1
  <2>3. PICK p : p = Reached /\ p \in Nat /\ p <= n /\ p <= Made
    BY <1>2, <1>3, <2>1
  <2>4. AtPos(0, p)
    BY <2>2, <2>3, ReachedPos DEF SyncInv
  <2>5. Agrees(B, p)
    <3>1. Cap = Prices
      BY CapIs
    <3>2. SetBody(VenueBook(n), Body(p + 1, Made)) = View(Made)
      BY <1>2, <2>3, <3>1, FetchedLeads DEF SyncInv, WireInv
    <3> QED BY <3>2 DEF Agrees, B
  <2>6. Agrees(book.levels, p)'
    <3>1. book'.levels = B
      BY <1>1, <1>5
    <3> QED BY <1>6, <2>3, <2>5, <3>1, BookStays
  <2> QED BY <1>7, <2>4, <2>6 DEF BookAgrees
<1>9. BookOK' /\ DownOK' /\ RestCovers' /\ Checked'
  <2>1. BookOK'
    BY <1>1, <1>5 DEF BookOK, IsBook
  <2>2. DownOK' /\ RestCovers'
    BY <1>1, <1>2 DEF DownOK, RestCovers
  <2>3. Checked'
    BY <1>1 DEF SyncInv, Checked
  <2> QED BY <2>1, <2>2, <2>3
<1> QED BY <1>1, <1>7, <1>8, <1>9 DEF SyncInv

-----------------------------------------------------------------------------
LEMMA SharedSync ==
  ASSUME SyncInv, UNCHANGED <<rest, lastCheck>>, (\E l \in Levels : VenueUpdate(l)) \/ VenueSend \/ VenueOmit
  PROVE  SyncInv'
<1>1. CASE \E l \in Levels : VenueUpdate(l)
  <2> PICK l \in Levels : VenueUpdate(l)
    BY <1>1
  <2>1. UNCHANGED <<feed, wire, up, book, sent, lostTo, mended>>
    BY DEF VenueUpdate
  <2>2. VenueGrows /\ Made' = Made + 1
    BY <2>1, VenueMoves DEF SyncInv, WireInv
  <2> QED BY <2>1, <2>2, QuietSync
<1>2. CASE VenueSend
  <2>1. /\ up /\ sent < Made /\ sent' = Made
        /\ UNCHANGED <<feed, books, touched, up, book, lostTo, mended>>
    BY <1>2 DEF VenueSend, CanSend
  <2> DEFINE f == UpdateFrame(sent + 1, Made)
  <2>2. wire' = Append(wire, f)
    BY <1>2 DEF VenueSend
  <2>3. f = UpdateFrame(sent + 1, Made)
    OBVIOUS
  <2> HIDE DEF f
  <2> QED BY <2>1, <2>2, <2>3, GrowSync
<1> QED BY <1>1, <1>2, OmitSync

\* A trade or a heartbeat is sent.
LEMMA MessageSync ==
  ASSUME SyncInv, UNCHANGED <<rest, lastCheck>>, up, NEW type, NEW id, type \notin {"snapshot", "update"},
         wire' = Append(wire, Message(type, id)),
         UNCHANGED <<feed, books, touched, sent, up, book, lostTo, mended>>
  PROVE  SyncInv'
<1> DEFINE f == Message(type, id)
<1>1. f.type \notin {"update", "snapshot"}
  BY DEF Message, FrameOf
<1>2. wire' = Append(wire, f)
  OBVIOUS
<1> HIDE DEF f
<1> QED BY <1>1, <1>2, GrowSync

LEMMA CoinbaseSyncStep ==
  ASSUME SyncInv, feed = "coinbase", CoinbaseNext, lastCheck' = lastCheck
  PROVE  SyncInv'
<1>1. CASE /\ (\E l \in Levels : VenueUpdate(l)) \/ VenueSend \/ VenueOmit
           /\ UNCHANGED coinbaseVars
  BY <1>1, SharedSync DEF coinbaseVars, restVars
<1>2. CASE Trade \/ FetchRest \/ FetchFailed
  <2>1. /\ UNCHANGED <<feed, books, touched, wire, up, book, sent, lostTo, mended>>
        /\ rest' \in {rest, NoFetch} \/ (up /\ rest' = Made)
    BY <1>2 DEF Trade, FetchRest, FetchFailed, channelVars, venueVars, restVars
  <2>2. VenueGrows /\ Made' = Made
    BY <2>1, VenueRests DEF SyncInv, WireInv
  <2> QED BY <2>1, <2>2, QuietSync
<1>3. CASE (\E id \in TradeIds : SendMatch(id)) \/ SendHeartbeat
  <2>1. PICK type, id : type \in {"match", "heartbeat"} /\ wire' = Append(wire, Message(type, id))
    BY <1>3 DEF SendMatch, SendHeartbeat
  <2>2. up /\ UNCHANGED <<feed, books, touched, sent, up, book, lostTo, mended, rest>>
    BY <1>3 DEF SendMatch, SendHeartbeat, CanSend, venueVars, restVars, coinbaseVars
  <2> QED BY <2>1, <2>2, MessageSync
<1>4. CASE ConnectCoinbase
  <2> DEFINE f == Message("last_match", traded)
  <2>1. Subscribe(<<SnapshotFrame, f>>) \/ Subscribe(<<f, SnapshotFrame>>)
    BY <1>4 DEF ConnectCoinbase
  <2>2. rest' = rest
    BY <1>4 DEF ConnectCoinbase
  <2>3. f.type \notin {"snapshot", "update"}
    BY DEF Message, FrameOf
  <2> HIDE DEF f
  <2> QED BY <2>1, <2>2, <2>3, BeginSync
<1>5. CASE DisconnectCoinbase
  BY <1>5, EndSync DEF DisconnectCoinbase, coinbaseVars, restVars
<1>6. CASE ReadSnapshot
  BY <1>6, ReadSnapshotSync DEF ReadSnapshot, Reading, Front1, restVars
<1>7. CASE ReadL2update
  BY <1>7, ReadUpdateSync DEF ReadL2update, Reading, Front1, coinbaseVars, restVars
<1>8. CASE ReadMatch \/ ReadLastMatch \/ ReadHeartbeat
  <2>1. /\ up /\ wire # <<>> /\ wire[1].type \notin {"snapshot", "update"} /\ rest = NoFetch /\ rest' = rest
        /\ TakeFrame(book) \/ TakeFrame(ApplyGap(book))
    BY <1>8 DEF ReadMatch, ReadLastMatch, ReadHeartbeat, Reading, Front1, Emit, restVars
  <2> QED BY <2>1, PassSync
<1>9. CASE DropCoinbase
  BY <1>9, DropSync DEF DropCoinbase, coinbaseVars, restVars
<1>10. CASE \E n \in 0 .. MaxUpdates[feed] : Fetched(n)
  BY <1>10, FetchedSync
<1> QED BY <1>1, <1>2, <1>3, <1>4, <1>5, <1>6, <1>7, <1>8, <1>9, <1>10 DEF CoinbaseNext, ReadCoinbase

LEMMA KrakenSyncStep ==
  ASSUME SyncInv, feed = "kraken", KrakenNext, UNCHANGED coinbaseVars
  PROVE  SyncInv'
<1>1. rest' = rest
  BY DEF coinbaseVars, restVars
<1>2. CASE /\ (\E l \in Levels : VenueUpdate(l)) \/ VenueSend \/ VenueOmit
           /\ UNCHANGED krakenVars
  BY <1>1, <1>2, SharedSync DEF krakenVars
<1>3. CASE TradeKraken
  <2>1. /\ wire' = Append(wire, Message("trade", traded + 1)) /\ up
        /\ UNCHANGED <<feed, books, touched, sent, up, book, lostTo, mended, lastCheck>>
    BY <1>3 DEF TradeKraken, CanSend, krakenVars
  <2> QED BY <1>1, <2>1, MessageSync
<1>4. CASE ConnectKraken
  <2>1. Subscribe(<<SnapshotFrame>>) /\ lastCheck' = lastCheck
    BY <1>4 DEF ConnectKraken, krakenVars
  <2> DEFINE f == Message("trade", 0)
  <2>2. f.type \notin {"snapshot", "update"}
    BY DEF Message, FrameOf
  <2> HIDE DEF f
  <2> QED BY <1>1, <2>1, <2>2, BeginSync
<1>5. CASE Hangup /\ UNCHANGED krakenVars
  BY <1>1, <1>5, EndSync DEF krakenVars
<1>6. CASE ReadBookSnapshot
  BY <1>1, <1>6, ReadSnapshotSync DEF ReadBookSnapshot, Front1
<1>7. CASE ReadBookUpdate
  BY <1>1, <1>7, ReadUpdateSync DEF ReadBookUpdate, Front1
<1>8. CASE ReadTrade
  BY <1>1, <1>8, PassSync DEF ReadTrade, Front1, krakenVars
<1>9. CASE DropFrame /\ UNCHANGED krakenVars
  BY <1>1, <1>9, DropSync DEF krakenVars
<1> QED BY <1>2, <1>3, <1>4, <1>5, <1>6, <1>7, <1>8, <1>9 DEF KrakenNext

LEMMA IdleSync ==
  ASSUME SyncInv, UNCHANGED vars
  PROVE  SyncInv'
<1>1. UNCHANGED <<feed, books, touched, wire, up, book, sent, lostTo, mended, rest, lastCheck>>
  BY DEF vars, channelVars, venueVars, coinbaseVars, restVars, krakenVars
<1>2. VenueGrows /\ Made' = Made
  BY <1>1, VenueRests DEF SyncInv, WireInv
<1> QED BY <1>1, <1>2, QuietSync

\* The book, the frames on the way and what is lost keep together on both feeds.
THEOREM SyncInvariant == Spec => []SyncInv
<1>1. SyncInv /\ [Next]_vars => SyncInv'
  <2>1. CASE OfCoinbase(CoinbaseNext)
    BY <2>1, CoinbaseSyncStep DEF OfCoinbase, krakenVars
  <2>2. CASE OfKraken(KrakenNext)
    BY <2>2, KrakenSyncStep DEF OfKraken
  <2> QED BY <2>1, <2>2, IdleSync DEF Next
<1> QED BY <1>1, SyncInit, PTL DEF Spec

\* A synced book of either feed that lost no frame since its last snapshot
\* becomes the view of the venue, whatever it was fetched or reconnected among:
\* rest_inner of conn.rs and the codecs of coinbase.rs and kraken.rs.
THEOREM InStepTheorem == Spec => []InStep
<1>1. SyncInv => InStep
  BY InStepFollows DEF SyncInv
<1> QED BY <1>1, SyncInvariant, PTL

\* verify_kraken_crc of run.rs raises no false alarm: a mismatch means a loss
\* since the snapshot, for any depth the checksum is within.
THEOREM MismatchIsLossTheorem == Spec => []MismatchIsLoss
<1>1. SyncInv => MismatchIsLoss
  BY DEF SyncInv, Checked, MismatchIsLoss
<1> QED BY <1>1, SyncInvariant, PTL
=============================================================================
