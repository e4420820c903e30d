------------------------------- MODULE Payload ------------------------------
(***************************************************************************)
(* One frame through a codec: the fast parser, which reads the bytes in    *)
(* the order it expects them, emitting events as it goes, and, when the    *)
(* bytes do not have that shape, the slow one over the parsed JSON         *)
(* (process_payload of conn.rs when live, replay_books of run.rs again).   *)
(*                                                                         *)
(* A frame gives each of its fields a form: plain; odd, valid JSON that    *)
(* only the slow path reads; wrong, missing or of another type; huge, a    *)
(* decimal that no Fixed holds; stranger, a symbol not subscribed to.  A   *)
(* parser is the steps it takes: fields it reads, events it pushes, and    *)
(* the codec state it changes, which no error undoes.                      *)
(***************************************************************************)
EXTENDS Integers, Sequences, SequencesExt, FiniteSets

CONSTANTS MaxPayloads       \* bound: frames
ASSUME PayloadAssumption == MaxPayloads \in Nat

VARIABLES
  venue,        \* whose frames these are
  live,         \* capture: the codec, and the events emitted
  replayed,     \* the same of replay
  slowOnly,     \* history: the same of a codec that has the slow path only
  payloads      \* frames so far

payloadVars == <<venue, live, replayed, slowOnly, payloads>>

-----------------------------------------------------------------------------
(* Steps *)

Read(fields) == [i \in DOMAIN fields |-> [do |-> "read", what |-> fields[i]]]
Push(kind) == <<[do |-> "push", what |-> kind]>>
Change(operation) == <<[do |-> operation, what |-> "id"]>>

\* Two levels, each pushed once it is read.
PushLevels(kind) ==
  Read(<<"level1">>) \o Push(kind) \o Read(<<"level2">>) \o Push(kind)

\* Coinbase, fast path.
FastL2update == Read(<<"time", "product_id", "changes">>) \o PushLevels("Set")

\* Mutant: the trade id is noted as soon as it is read.
FastMatchEager ==
  Read(<<"time", "trade_id">>) \o Change("match")
    \o Read(<<"side", "size", "price", "product_id", "sequence">>)

FastMatch ==
  Read(<<"time", "trade_id", "side", "size", "price", "product_id", "sequence">>) \o Change("match")
FastHeartbeat ==
  Read(<<"time", "last_trade_id", "product_id", "sequence">>) \o Change("heartbeat")
\* emit_levels, by way of fast_levels for either side: the bracket opens
\* before the levels are read.
EmitLevels ==
  Push("Clear") \o Push("SnapBegin") \o PushLevels("SnapLevel") \o Push("SnapEnd")
FastSnapshot == Read(<<"time", "product_id", "bids", "asks">>) \o EmitLevels

\* Coinbase, slow path.
SlowL2update == Read(<<"time", "product_id", "changes">>) \o PushLevels("Set")
SlowMatch ==
  Read(<<"time", "trade_id", "side", "size", "price", "product_id", "sequence">>) \o Change("match")
SlowHeartbeat ==
  Read(<<"time", "last_trade_id", "product_id", "sequence">>) \o Change("heartbeat")
SlowSnapshot == Read(<<"time", "product_id", "bids", "asks">>) \o EmitLevels

\* Kraken, which keeps no state; fast path.
FastBookSnapshot ==
  Read(<<"type", "data", "symbol">>) \o Push("Clear") \o Push("SnapBegin")
    \o PushLevels("SnapLevel") \o Read(<<"checksum">>) \o Push("SnapEnd")
FastBookUpdate ==
  Read(<<"type", "data", "symbol">>) \o PushLevels("Set")
    \o Read(<<"checksum", "timestamp">>) \o Push("Checksum")
FastTradeKraken ==
  Read(<<"type", "data", "symbol", "side", "trade_id", "timestamp", "price", "qty">>) \o Push("Trade")

\* Kraken, slow path: the entries are deserialized before the first is used.
SlowBookSnapshot == Read(<<"type", "data", "checksum", "symbol">>) \o EmitLevels
SlowBookUpdate ==
  Read(<<"type", "data", "checksum", "symbol", "timestamp">>) \o PushLevels("Set")
    \o Push("Checksum")
SlowTradeKraken ==
  Read(<<"type", "data", "trade_id", "symbol", "side", "timestamp", "price", "qty">>) \o Push("Trade")

\* Binance: the levels are pushed first, and finish_depth settles what
\* becomes of them.
FastDepth == Read(<<"data", "time", "symbol", "id">>) \o PushLevels("Set") \o Change("depth")
FastTradeBinance ==
  Read(<<"data", "symbol", "trade_id", "time", "side", "price", "qty">>) \o Change("trade")
SlowDepth == Read(<<"data", "time", "symbol", "id">>) \o PushLevels("Set") \o Change("depth")
SlowTradeBinance ==
  Read(<<"data", "symbol", "trade_id", "time", "side", "price", "qty">>) \o Change("trade")

Types ==
  [coinbase |-> {"l2update", "match", "last_match", "heartbeat", "snapshot"},
   kraken |-> {"bookSnapshot", "bookUpdate", "tradeKraken"},
   binance |-> {"depth", "tradeBinance"}]

Parsers ==
  [l2update |-> [fast |-> FastL2update, slow |-> SlowL2update],
   match |-> [fast |-> FastMatch, slow |-> SlowMatch],
   last_match |-> [fast |-> FastMatch, slow |-> SlowMatch],
   heartbeat |-> [fast |-> FastHeartbeat, slow |-> SlowHeartbeat],
   snapshot |-> [fast |-> FastSnapshot, slow |-> SlowSnapshot],
   bookSnapshot |-> [fast |-> FastBookSnapshot, slow |-> SlowBookSnapshot],
   bookUpdate |-> [fast |-> FastBookUpdate, slow |-> SlowBookUpdate],
   tradeKraken |-> [fast |-> FastTradeKraken, slow |-> SlowTradeKraken],
   depth |-> [fast |-> FastDepth, slow |-> SlowDepth],
   tradeBinance |-> [fast |-> FastTradeBinance, slow |-> SlowTradeBinance]]

-----------------------------------------------------------------------------
(* Frames *)

LevelFields == {"level1", "level2"}
Forms(field) ==
  {"plain", "odd", "wrong"}
    \cup (IF field \in LevelFields \cup {"size", "price", "qty"} THEN {"huge"} ELSE {})
    \cup (IF field \in {"product_id", "symbol"} THEN {"stranger"} ELSE {})

FieldsOf(type) ==
  {s.what : s \in {t \in ToSet(Parsers[type].fast) \cup ToSet(Parsers[type].slow) : t.do = "read"}}

\* A frame with at most two fields that are not plain; `jump` is how far its
\* id is beyond the last.
TwoFields(fields, a, b) ==
  {[x \in fields |-> IF x = a THEN f ELSE IF x = b THEN g ELSE "plain"] :
     f \in Forms(a), g \in Forms(b)}
Frames(type) ==
  LET fields == FieldsOf(type)
  IN  [type : {type}, jump : 0 .. 2,
       form : UNION {UNION {TwoFields(fields, a, b) : a \in fields} : b \in fields}]

-----------------------------------------------------------------------------
(* One parse *)

\* The error of a field on a path, or none.
ErrorOf(path, form) ==
  CASE form = "wrong" \/ (form = "odd" /\ path = "fast") -> "Structure"
    [] form = "huge" -> "Number"
    [] form = "stranger" -> "UnknownInstrument"
    [] OTHER -> "none"

NoId == -1

\* emit_match with note_trade: the Gap before the Trade; a last_match sets the
\* baseline and reports nothing.
EmitMatch(s, id, checked) ==
  [s EXCEPT !.trade = IF id > @ THEN id ELSE @,
            !.out = @ \o (IF checked /\ s.trade # NoId /\ id > s.trade + 1 THEN <<"Gap">> ELSE <<>>)
                      \o <<"Trade">>]

\* emit_heartbeat with note_heartbeat: the Gap after the Heartbeat.
EmitHeartbeat(s, id) ==
  LET behind == s.trade # NoId /\ id > s.trade
  IN  [s EXCEPT !.trade = IF behind THEN id ELSE @,
                !.out = @ \o <<"Heartbeat">> \o (IF behind THEN <<"Gap">> ELSE <<>>)]

\* finish_trade: the id becomes the last, also when it is lower.
FinishTrade(s, id) ==
  [s EXCEPT !.trade = id,
            !.out = @ \o (IF s.trade # NoId /\ id > s.trade + 1 THEN <<"Gap">> ELSE <<>>)
                      \o <<"Trade">>]

\* finish_depth: levels before the anchor, stale ones and those beyond a gap
\* are taken back.
FinishDepth(s, id, start) ==
  LET taken == SubSeq(s.out, 1, start)
  IN  CASE ~s.synced -> [s EXCEPT !.out = taken, !.depth = IF id > @ THEN id ELSE @]
        [] s.synced /\ id <= s.depth -> [s EXCEPT !.out = taken]
        [] s.synced /\ id = s.depth + 1 -> [s EXCEPT !.depth = id]
        [] OTHER -> [s EXCEPT !.out = Append(taken, "Gap"), !.depth = id, !.synced = FALSE]

Step(frame, path, id, start, s, step) ==
  IF s.err # "none" THEN s
  ELSE CASE step.do = "read" -> [s EXCEPT !.err = ErrorOf(path, frame.form[step.what])]
         [] step.do = "push" -> [s EXCEPT !.out = Append(@, step.what)]
         [] step.do = "match" -> EmitMatch(s, id, frame.type = "match")
         [] step.do = "trade" -> FinishTrade(s, id)
         [] step.do = "heartbeat" -> EmitHeartbeat(s, id)
         [] step.do = "depth" -> FinishDepth(s, id, start)

\* parse and parse_slow restore the buffer on an error, and nothing else.
Truncated(s, start) ==
  IF s.err = "none" THEN s ELSE [s EXCEPT !.out = SubSeq(s.out, 1, start)]

\* The steps of a parser, one after the other.
RunSteps(frame, path, id, start, s, steps) ==
  LET run[k \in 0 .. Len(steps)] ==
        IF k = 0 THEN s ELSE Step(frame, path, id, start, run[k - 1], steps[k])
  IN  run[Len(steps)]

\* parse or parse_slow of a frame by the codec c.
Parse(c, frame, path, id) ==
  LET start == Len(c.out)
      steps == IF path = "fast" THEN Parsers[frame.type].fast ELSE Parsers[frame.type].slow
  IN  Truncated(RunSteps(frame, path, id, start, [c EXCEPT !.err = "none"], steps), start)

\* process_payload: on a Structure error the slow path has its turn; on any
\* other the frame is dropped.
ProcessPayload(c, frame, id) ==
  LET fast == Parse(c, frame, "fast", id)
  IN  IF fast.err = "Structure" THEN Parse(fast, frame, "slow", id) ELSE fast

\* Mutant: replay has no second path.
ReplayPayloadOnce(c, frame, id) == Parse(c, frame, "fast", id)

\* The same policy in replay_books, which empties its buffer for every record
\* and hands on what is in it.
ReplayPayload(c, frame, id) ==
  LET fast == Parse([c EXCEPT !.out = <<>>], frame, "fast", id)
      last == IF fast.err = "Structure" THEN Parse([fast EXCEPT !.out = <<>>], frame, "slow", id)
              ELSE fast
  IN  [last EXCEPT !.out = c.out \o (IF last.err = "none" THEN @ ELSE <<>>)]

-----------------------------------------------------------------------------
\* A codec of a new session, or one that a REST snapshot has anchored at 0.
PayloadInit ==
  /\ venue \in DOMAIN Types
  /\ live \in [trade : {NoId}, depth : {0}, synced : BOOLEAN, out : {<<>>}, err : {"none"}]
  /\ replayed = live /\ slowOnly = live
  /\ payloads = 0

\* The id is the one the venue sends, whatever this codec has made of the
\* frames before; `jump` leaves some out.
Receive(frame) ==
  /\ payloads < MaxPayloads
  /\ payloads' = payloads + 1
  /\ LET id == payloads + frame.jump
     IN  /\ live' = ProcessPayload(live, frame, id)
         /\ replayed' = ReplayPayload(replayed, frame, id)
         /\ slowOnly' = Parse(slowOnly, frame, "slow", id)
  /\ UNCHANGED venue

PayloadNext == \E type \in Types[venue] : \E frame \in Frames(type) : Receive(frame)

PayloadSpec == PayloadInit /\ [][PayloadNext]_payloadVars

-----------------------------------------------------------------------------
(* Properties *)

Unerring(c) == [c EXCEPT !.err = "none"]

\* A frame has its effect once or not at all, as if the slow path alone had
\* read it: an abandoned first parse leaves no event behind, and no trade id
\* or update id that the second would take for one already seen, which would
\* lose a Gap and its resync.
OneEffect == Unerring(live) = Unerring(slowOnly)

\* Replay emits the events and reaches the codec state that capture did.
ReplayIsLive == Unerring(replayed) = Unerring(live)
=============================================================================
