-------------------------------- MODULE Book --------------------------------
(***************************************************************************)
(* The sync state machine every book of crates/lob shares: apply_common of *)
(* book.rs.  A book is a record of its sync state and its levels; what the *)
(* levels are, and how one is set, is the affair of the implementation:    *)
(* `mutated` is what set_level would make of them, `cleared` an empty book.*)
(* The counter of dropped events is only reported and is left out.         *)
(***************************************************************************)

SyncStates == {"Unsynced", "Filling", "Synced"}

\* The kinds of events apply_common tells apart, Checksum, Trade and
\* Heartbeat being one: none of them touches the book.
Kinds == {"Set", "SnapBegin", "SnapLevel", "SnapEnd", "Clear", "Gap", "NotBook"}

ApplyCommon(book, kind, mutated, cleared) ==
  CASE kind = "Set" /\ book.sync = "Synced" -> [book EXCEPT !.levels = mutated]
    [] kind = "SnapBegin" -> [sync |-> "Filling", levels |-> cleared]
    [] kind = "SnapLevel" /\ book.sync = "Filling" -> [book EXCEPT !.levels = mutated]
    [] kind = "SnapEnd" /\ book.sync = "Filling" -> [book EXCEPT !.sync = "Synced"]
    [] kind = "Clear" -> [sync |-> "Unsynced", levels |-> cleared]
    [] kind = "Gap" -> [book EXCEPT !.sync = "Unsynced"]
    [] OTHER -> book
=============================================================================
