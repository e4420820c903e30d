----------------------------- MODULE BTreeBook ------------------------------
(***************************************************************************)
(* BTreeBook of crates/lob/src/btree.rs: one ordered map of price levels   *)
(* per side, here a partial function from prices to quantities, truncated  *)
(* to its best levels when a depth is configured.  It is the reference for *)
(* the contiguous LadderBook.                                              *)
(***************************************************************************)
EXTENDS Integers, FiniteSets, Functions, Book

CONSTANTS
  Prices,       \* the prices events carry
  Quantities,   \* the quantities events carry, 0 to remove a level
  MaxDepth      \* max_depth, 0 for none

VARIABLES
  book,         \* the sync state and the levels of both sides
  topChanged    \* top_changed of the last Apply::Mutated, else FALSE

Sides == {"bid", "ask"}
NoLevels == [side \in Sides |-> [p \in {} |-> 0]]

\* p ranks before q on its side, from worst to best.
Worse(side, p, q) == IF side = "bid" THEN p < q ELSE p > q

Best(side, map) ==
  {<<p, map[p]>> : p \in {q \in DOMAIN map : \A r \in DOMAIN map : ~Worse(side, q, r)}}

\* truncate: the best MaxDepth levels stay.
Truncate(side, map) ==
  IF MaxDepth = 0 THEN map
  ELSE Restrict(map, {p \in DOMAIN map :
         Cardinality({q \in DOMAIN map : Worse(side, p, q)}) < MaxDepth})

\* set_level: the levels it leaves.
SetLevel(levels, side, price, qty) ==
  LET map == levels[side]
      set == IF qty = 0 THEN Restrict(map, DOMAIN map \ {price})
             ELSE [p \in DOMAIN map \cup {price} |-> IF p = price THEN qty ELSE map[p]]
  IN  [levels EXCEPT ![side] = Truncate(side, set)]

Init ==
  /\ book = [sync |-> "Unsynced", levels |-> NoLevels]
  /\ topChanged = FALSE

\* An event that sets a level.  A level of a snapshot always reports a
\* changed top.
ApplyLevel(kind, side, price, qty) ==
  /\ book' = ApplyCommon(book, kind, SetLevel(book.levels, side, price, qty), NoLevels)
  /\ topChanged' =
       \/ /\ kind = "Set" /\ book.sync = "Synced"
          /\ Best(side, book.levels[side]) # Best(side, book'.levels[side])
       \/ kind = "SnapLevel" /\ book.sync = "Filling"

\* Any other event, and L2Book::clear, which does what a Clear does.
ApplyMark(kind) ==
  /\ book' = ApplyCommon(book, kind, book.levels, NoLevels)
  /\ topChanged' = FALSE

Next ==
  \/ \E kind \in {"Set", "SnapLevel"}, side \in Sides, p \in Prices, q \in Quantities :
       ApplyLevel(kind, side, p, q)
  \/ \E kind \in Kinds \ {"Set", "SnapLevel"} : ApplyMark(kind)

Spec == Init /\ [][Next]_<<book, topChanged>>
=============================================================================
