------------------------------ MODULE MCAtRest ------------------------------
(***************************************************************************)
(* Four machines of the data at rest for TLC in one run, side by side: a   *)
(* behaviour is one of the raw logs and their replay (CaptureReplay), or   *)
(* of a store segment (StoreSegment), or of a block and its header         *)
(* (BlockCodec), or of the snapshot index and the export (PitIndex);       *)
(* `part` says which.  They share no variable, so nothing is said of their *)
(* interplay.                                                              *)
(***************************************************************************)
EXTENDS CaptureReplay, StoreSegment, BlockCodec, PitIndex

VARIABLE part

\* Zero, one and the ends of the signed and the unsigned range of five bits.
Edges == {0, 1, 15, 16, 31}
MCInputs ==
  [recv_mono : Edges, price : {0, 16}, qty : {1, 15, 16}, instrument : {0, 7}, kind : {5}]

AtRestInit ==
  /\ part \in {"log", "segment", "block", "index"}
  /\ Init /\ StoreInit /\ BlockInit /\ PitInit

AtRestNext ==
  \/ part = "log" /\ Next /\ UNCHANGED <<part, storeVars, blockVars, pitVars>>
  \/ part = "segment" /\ StoreNext /\ UNCHANGED <<part, vars, blockVars, pitVars>>
  \/ part = "block" /\ BlockNext /\ UNCHANGED <<part, vars, storeVars, pitVars>>
  \/ part = "index" /\ PitNext /\ UNCHANGED <<part, vars, storeVars, blockVars>>

AtRestSpec == AtRestInit /\ [][AtRestNext]_<<part, vars, storeVars, blockVars, pitVars>>
=============================================================================
