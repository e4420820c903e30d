----------------------------- MODULE BlockCodec -----------------------------
(***************************************************************************)
(* A block of events as bytes (block.rs over varint.rs of crates/store):   *)
(* every column a stream of varints of its own encoding, one after the     *)
(* other; since version 2 the header tells how long each of them is, so    *)
(* that a reader can decode the columns it wants and skip the rest.  The   *)
(* CRC covers the body alone: what guards the header is checks of sanity.  *)
(*                                                                         *)
(* A byte of a varint carries one of Group values, for 2^7, and the last   *)
(* byte of the longest varint one bit: a word has 2 * Group^9 values with  *)
(* ten bytes, as u64 does.                                                 *)
(***************************************************************************)
EXTENDS Integers, Sequences, SequencesExt

CONSTANTS
  Group,                  \* values that a byte of a varint carries
  LongestVarint,          \* bytes of the longest varint
  Narrow,                 \* values of `instrument`, for 2^32
  Inputs,                 \* the events a writer may append
  MaxBlock                \* bound: events in the block
ASSUME BlockAssumption ==
  Group \in Nat \ {0, 1} /\ LongestVarint \in Nat \ {0} /\ MaxBlock \in Nat

Columns == <<"recv_mono", "price", "qty", "instrument">>      \* then the byte column
Power[k \in 0 .. LongestVarint - 1] == IF k = 0 THEN 1 ELSE Group * Power[k - 1]
Word == 2 * Power[LongestVarint - 1]

ASSUME InputsAssumption ==
  /\ Narrow \in 1 .. Word
  /\ Inputs \subseteq [recv_mono : 0 .. Word - 1, price : 0 .. Word - 1, qty : 0 .. Word - 1,
                       instrument : 0 .. Narrow - 1, kind : 0 .. 2 * Group - 1]

VARIABLES
  events,       \* handed to the writer so far
  block,        \* [version, n, lens, body], or NoBlock
  struck        \* history: the header has been damaged since it was written

blockVars == <<events, block, struck>>
NoBlock == [version |-> 0, n |-> 0, lens |-> <<>>, body |-> <<>>]

-----------------------------------------------------------------------------
(* varint.rs.  Signed numbers are words read as two's complement. *)

Wrap(x) == x % Word
Signed(u) == IF 2 * u >= Word THEN u - Word ELSE u
Zigzag(u) == IF Signed(u) < 0 THEN -2 * Signed(u) - 1 ELSE 2 * u
Unzigzag(u) == IF u % 2 = 0 THEN u \div 2 ELSE Wrap(-((u + 1) \div 2))

PutUvarint[v \in 0 .. Word - 1] ==
  IF v < Group THEN <<v>> ELSE <<Group + (v % Group)>> \o PutUvarint[v \div Group]

\* What the bytes from pos to end say, the lowest first.
UvarintValue(b, pos, end) ==
  LET value[k \in 0 .. end - 1] ==        \* of the last k + 1 of them
        (b[end - k] % Group) + (IF k = 0 THEN 0 ELSE Group * value[k - 1])
  IN  value[end - pos]

\* The varint at pos, or not ok: cut off, too long, or more than a word.
TakeUvarint(b, pos) ==
  LET ends == {i \in pos .. Len(b) : b[i] < Group}
      end == IF ends = {} THEN 0 ELSE CHOOSE i \in ends : \A j \in ends : i <= j
      bad == \/ ends = {}
             \/ end - pos + 1 > LongestVarint
             \/ end - pos + 1 = LongestVarint /\ b[end] > 1
  IN  IF bad THEN [ok |-> FALSE, value |-> 0, pos |-> pos]
      ELSE [ok |-> TRUE, value |-> UvarintValue(b, pos, end), pos |-> end + 1]

ValueAt(vals, i) == IF i < 1 THEN 0 ELSE vals[i]
Delta(vals, i) == Wrap(ValueAt(vals, i) - ValueAt(vals, i - 1))
DeltaOfDelta(vals, i) == Wrap(Delta(vals, i) - (IF i < 2 THEN 0 ELSE Delta(vals, i - 1)))

\* encode_dod_u64, encode_delta_i64, encode_zz_i64, encode_v_u32: the number
\* written for the i-th value.
Coded(column, vals, i) ==
  CASE column = "recv_mono" -> Zigzag(DeltaOfDelta(vals, i))
    [] column = "price" -> Zigzag(Delta(vals, i))
    [] column = "qty" -> Zigzag(vals[i])
    [] column = "instrument" -> vals[i]

Encode(column, vals) ==
  FlattenSeq([i \in DOMAIN vals |-> PutUvarint[Coded(column, vals, i)]])

\* Mutant: the sum of a value and its delta is not reduced to a word.
NextDodWide(s, u) ==
  LET delta == Wrap(s.delta + Unzigzag(u)) IN [value |-> s.value + delta, delta |-> delta]

\* decode_dod_u64: the next value, and its distance from the last.
NextDod(s, u) ==
  LET delta == Wrap(s.delta + Unzigzag(u)) IN [value |-> Wrap(s.value + delta), delta |-> delta]

\* The value a varint stands for, given the one before it.
NextValue(column, s, u) ==
  CASE column = "recv_mono" -> NextDod(s, u)
    [] column = "price" -> [value |-> Wrap(s.value + Unzigzag(u)), delta |-> 0]
    [] column = "qty" -> [value |-> Unzigzag(u), delta |-> 0]
    [] column = "instrument" -> [value |-> u, delta |-> 0]

\* One value more, if its varint is there and is a value of the column.
TakeValue(column, b, s) ==
  LET t == TakeUvarint(b, s.pos)
      v == NextValue(column, [value |-> ValueAt(s.out, Len(s.out)), delta |-> s.delta], t.value)
  IN  IF s.ok /\ t.ok /\ (column = "instrument" => v.value < Narrow)
      THEN [ok |-> TRUE, pos |-> t.pos, delta |-> v.delta, out |-> Append(s.out, v.value)]
      ELSE [s EXCEPT !.ok = FALSE]

\* n values of a column from pos on.
Decode(column, b, pos, n) ==
  LET taken[k \in 0 .. n] ==
        IF k = 0 THEN [ok |-> TRUE, pos |-> pos, delta |-> 0, out |-> <<>>]
        ELSE TakeValue(column, b, taken[k - 1])
  IN  taken[n]

-----------------------------------------------------------------------------
(* block.rs *)

Values(column) == [i \in DOMAIN events |-> events[i][column]]
KindBytes == [i \in DOMAIN events |-> events[i].kind]
Streams ==
  Append([c \in DOMAIN Columns |-> Encode(Columns[c], Values(Columns[c]))], KindBytes)

Corrupt == [ok |-> FALSE]

\* col_offsets: where the c-th stream starts; the one after the last, the end.
Start(lens, c) ==
  LET start[k \in 1 .. Len(Columns) + 2] ==
        IF k = 1 THEN 1 ELSE start[k - 1] + lens[k - 1]
  IN  start[c]

\* parse_header.
HeaderOk(b) ==
  /\ b.n > 0
  /\ b.version = 2 =>
       /\ Start(b.lens, Len(Columns) + 2) = Len(b.body) + 1
       /\ b.lens[Len(Columns) + 1] = b.n

\* Mutant: a stream may be longer than its values.
DecodeColLax(b, c) ==
  LET s == SubSeq(b.body, Start(b.lens, c), Start(b.lens, c) + b.lens[c] - 1)
      d == Decode(Columns[c], s, 1, b.n)
  IN  IF d.ok THEN [ok |-> TRUE, out |-> d.out] ELSE Corrupt

\* decode_col: the values of a column, which are to fill its stream.
DecodeCol(b, c) ==
  LET s == SubSeq(b.body, Start(b.lens, c), Start(b.lens, c) + b.lens[c] - 1)
      d == Decode(Columns[c], s, 1, b.n)
  IN  IF d.ok /\ d.pos = Len(s) + 1 THEN [ok |-> TRUE, out |-> d.out] ELSE Corrupt

\* decode_varint_columns_sequential: each column where the last one ended.
TakeColumn(b, s, c) ==
  LET d == Decode(Columns[c], b.body, s.pos, b.n)
  IN  IF s.ok /\ d.ok THEN [ok |-> TRUE, pos |-> d.pos, cols |-> Append(s.cols, d.out)]
      ELSE [s EXCEPT !.ok = FALSE]

DecodeSequential(b) ==
  LET taken[c \in 0 .. Len(Columns)] ==
        IF c = 0 THEN [ok |-> TRUE, pos |-> 1, cols |-> <<>>]
        ELSE TakeColumn(b, taken[c - 1], c)
      s == taken[Len(Columns)]
  IN  IF s.ok /\ Len(b.body) - s.pos + 1 = b.n
        THEN [ok |-> TRUE, cols |-> Append(s.cols, SubSeq(b.body, s.pos, s.pos + b.n - 1))]
        ELSE Corrupt

ByteColumn(b) == SubSeq(b.body, Start(b.lens, Len(Columns) + 1), Len(b.body))

\* decode_block: every column, or an error.
DecodeBlock(b) ==
  CASE ~HeaderOk(b) -> Corrupt
    [] HeaderOk(b) /\ b.version = 1 -> DecodeSequential(b)
    [] OTHER ->
         IF \A c \in DOMAIN Columns : DecodeCol(b, c).ok
           THEN [ok |-> TRUE,
                 cols |-> Append([c \in DOMAIN Columns |-> DecodeCol(b, c).out], ByteColumn(b))]
           ELSE Corrupt

\* decode_block_columns: the selected columns; the others are not looked at,
\* unless the block is too old to tell where they end.
DecodeBlockColumns(b, sel) ==
  IF ~HeaderOk(b) THEN Corrupt
  ELSE IF b.version = 1 THEN
    LET all == DecodeSequential(b)
    IN  IF all.ok THEN [ok |-> TRUE, cols |-> [c \in sel |-> all.cols[c]]] ELSE Corrupt
  ELSE IF \A c \in sel \cap DOMAIN Columns : DecodeCol(b, c).ok
    THEN [ok |-> TRUE, cols |-> [c \in sel |-> IF c \in DOMAIN Columns THEN DecodeCol(b, c).out
                                               ELSE ByteColumn(b)]]
    ELSE Corrupt

-----------------------------------------------------------------------------
BlockInit == events = <<>> /\ block = NoBlock /\ struck = FALSE

AppendToBlock(e) ==
  /\ block = NoBlock /\ Len(events) < MaxBlock
  /\ events' = Append(events, e)
  /\ UNCHANGED <<block, struck>>

\* encode_block; version 1 is what its predecessor wrote.
EncodeBlock(version) ==
  /\ block = NoBlock /\ events # <<>>
  /\ block' = [version |-> version, n |-> Len(events), body |-> FlattenSeq(Streams),
               lens |-> IF version = 2 THEN [c \in DOMAIN Streams |-> Len(Streams[c])] ELSE <<>>]
  /\ UNCHANGED <<events, struck>>

\* An entry or two of the length table, or the count, change on the disk.
StrikeHeader ==
  /\ block # NoBlock /\ ~struck
  /\ struck' = TRUE
  /\ \/ \E n \in 1 .. MaxBlock : block' = [block EXCEPT !.n = n]
     \/ \E c, d \in DOMAIN block.lens : \E by \in 1 .. block.lens[d] :
          LET lens == [block.lens EXCEPT ![c] = block.lens[c] + by, ![d] = block.lens[d] - by]
          IN  c # d /\ block' = [block EXCEPT !.lens = lens]
  /\ UNCHANGED events

BlockNext ==
  \/ \E e \in Inputs : AppendToBlock(e)
  \/ \E version \in {1, 2} : EncodeBlock(version)
  \/ StrikeHeader

BlockSpec == BlockInit /\ [][BlockNext]_blockVars

-----------------------------------------------------------------------------
(* Properties *)

Written == Append([c \in DOMAIN Columns |-> Values(Columns[c])], KindBytes)

\* A block of either version gives back the events it was made of, to a scan of
\* all columns and to one of any selection of them (which skips the others by
\* the length table), also where times go back, deltas overflow a word and
\* numbers are at the ends of their range.
ScanIsWritten ==
  block # NoBlock /\ ~struck =>
    /\ DecodeBlock(block) = [ok |-> TRUE, cols |-> Written]
    /\ \A sel \in SUBSET (1 .. Len(Columns) + 1) :
         DecodeBlockColumns(block, sel) = [ok |-> TRUE, cols |-> [c \in sel |-> Written[c]]]

\* The header has no CRC, yet a full scan never takes a damaged count or
\* length table for a good one: it reads the events written, or reports the
\* block corrupt.
LengthTableIsGuarded ==
  block.version = 2 /\ DecodeBlock(block).ok =>
    DecodeBlock(block).cols = Written
=============================================================================
