----------------------------- MODULE LadderBook -----------------------------
(***************************************************************************)
(* LadderBook of crates/lob/src/ladder.rs, the book replay runs on: one    *)
(* sorted vector of levels per side with the best level last, searched by  *)
(* bisection and truncated at the front.  A book without a depth limit is  *)
(* carried along to say what truncation may lose.                          *)
(***************************************************************************)
EXTENDS Integers, FiniteSets, Sequences, SequencesExt, Book

CONSTANTS Prices, Quantities, MaxDepth

ASSUME LadderAssumption ==
  Prices \subseteq Int /\ Quantities \subseteq Nat /\ MaxDepth \in Nat

VARIABLES
  ladder,       \* the sync state and the vectors of both sides
  topChanged,   \* top_changed of the last Apply::Mutated, else FALSE
  full,         \* history: the same book without max_depth
  beyond        \* history: the best price of each side that was beyond
                \* max_depth in `full` since it was last cleared, if any

vars == <<ladder, topChanged, full, beyond>>

Sides == {"bid", "ask"}
NoLevels == [side \in Sides |-> <<>>]
NoneBeyond == [side \in Sides |-> {}]

Worse(side, p, q) == IF side = "bid" THEN p < q ELSE p > q

\* find: the index of the level of `price`, or where it would be inserted,
\* counted from 0.
Find(v, side, price) ==
  LET bisect[range \in (0 .. Len(v)) \X (0 .. Len(v))] ==
        LET mid == (range[1] + range[2]) \div 2
        IN  IF range[1] = range[2] THEN range[1]
            ELSE IF Worse(side, v[mid + 1][1], price) THEN bisect[<<mid + 1, range[2]>>]
            ELSE bisect[<<range[1], mid>>]
  IN  bisect[<<0, Len(v)>>]

\* Mutant: the levels at the end go, the best ones.
TruncateBack(v) ==
  IF MaxDepth = 0 \/ Len(v) <= MaxDepth THEN v ELSE SubSeq(v, 1, MaxDepth)

\* Mutant: a level too many stays.
TruncateLate(v) ==
  IF MaxDepth = 0 \/ Len(v) <= MaxDepth + 1 THEN v
  ELSE SubSeq(v, Len(v) - MaxDepth, Len(v))

\* truncate: the levels at the front go, the worst ones.
Truncate(v) ==
  IF MaxDepth = 0 \/ Len(v) <= MaxDepth THEN v
  ELSE SubSeq(v, Len(v) - MaxDepth + 1, Len(v))

\* The vector set_level leaves before truncation.
Updated(v, side, price, qty) ==
  LET i == Find(v, side, price) + 1
  IN  IF i <= Len(v) /\ v[i][1] = price
      THEN IF qty = 0 THEN RemoveAt(v, i) ELSE [v EXCEPT ![i] = <<price, qty>>]
      ELSE IF qty = 0 THEN v ELSE InsertAt(v, i, <<price, qty>>)

Top(v) == IF v = <<>> THEN <<>> ELSE Last(v)

Levels(v) == {v[i] : i \in DOMAIN v}
PricesOf(v) == {l[1] : l \in Levels(v)}

-----------------------------------------------------------------------------
Init ==
  /\ ladder = [sync |-> "Unsynced", levels |-> NoLevels]
  /\ topChanged = FALSE
  /\ full = [sync |-> "Unsynced", levels |-> NoLevels]
  /\ beyond = NoneBeyond

\* The levels of `full` a limit would hide.
Hidden(v) == {v[i][1] : i \in {k \in DOMAIN v : k + MaxDepth <= Len(v)}}
BestOf(side, prices) == {p \in prices : \A q \in prices : ~Worse(side, p, q)}

\* Does the book apply a level event of this kind, or drop it?
Taken(kind) ==
  \/ kind = "Set" /\ ladder.sync = "Synced"
  \/ kind = "SnapLevel" /\ ladder.sync = "Filling"

ApplyLevel(kind, side, price, qty) ==
  LET set == Updated(ladder.levels[side], side, price, qty)
      fullSet == Updated(full.levels[side], side, price, qty)
  IN  /\ ladder' = ApplyCommon(ladder, kind,
                     [ladder.levels EXCEPT ![side] = Truncate(set)], NoLevels)
      /\ full' = ApplyCommon(full, kind, [full.levels EXCEPT ![side] = fullSet], NoLevels)
      /\ beyond' = [beyond EXCEPT ![side] = IF MaxDepth = 0 THEN {} ELSE
                       BestOf(side, @ \cup Hidden(full'.levels[side]))]
      /\ topChanged' =
           /\ Taken(kind)
           /\ kind = "SnapLevel" \/ Top(ladder.levels[side]) # Top(ladder'.levels[side])

ApplyMark(kind) ==
  /\ ladder' = ApplyCommon(ladder, kind, ladder.levels, NoLevels)
  /\ full' = ApplyCommon(full, kind, full.levels, NoLevels)
  /\ beyond' = IF kind \in {"SnapBegin", "Clear"} THEN NoneBeyond ELSE beyond
  /\ topChanged' = FALSE

Next ==
  \/ \E kind \in {"Set", "SnapLevel"}, side \in Sides, p \in Prices, q \in Quantities :
       ApplyLevel(kind, side, p, q)
  \/ \E kind \in Kinds \ {"Set", "SnapLevel"} : ApplyMark(kind)

Spec == Init /\ [][Next]_vars

-----------------------------------------------------------------------------
(* Properties *)

\* What a truncated book shows is true: every level it shows is a level of
\* the untruncated book, and it lacks none that is better than every level
\* that has been beyond max_depth since the book was last cleared.
TruncatedIsTrue ==
  \A side \in Sides :
    LET shown == Levels(ladder.levels[side])
        all == Levels(full.levels[side])
    IN  /\ shown \subseteq all
        /\ \A l \in all \ shown : \E p \in beyond[side] : ~Worse(side, p, l[1])

\* The ladder and the map agree on every event: levels, sync state and
\* top_changed, so that top_n_into and state_digest give the same of both.
AsMap(v) == [p \in PricesOf(v) |-> (CHOOSE l \in Levels(v) : l[1] = p)[2]]
Map == INSTANCE BTreeBook WITH
  book <- [sync |-> ladder.sync, levels |-> [s \in Sides |-> AsMap(ladder.levels[s])]]
MapSpec == Map!Spec
=============================================================================
