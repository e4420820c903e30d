------------------------------- MODULE MCLive -------------------------------
(***************************************************************************)
(* Three machines of the capture process for TLC in one run, side by side: *)
(* a behaviour is one of the supervisor and its tasks (CaptureProcess), or *)
(* of a codec reading frames (Payload), or of a book taking the events     *)
(* (LadderBook); `part` says which.  They share no variable, so nothing is *)
(* said of their interplay; CaptureFairness constrains the first only,     *)
(* since no property of the others is a liveness property.                 *)
(***************************************************************************)
EXTENDS CaptureProcess, Payload, LadderBook

VARIABLE part

MCOrder == <<"binance", "kraken">>

LiveInit ==
  /\ part \in {"capture", "payload", "book"}
  /\ CaptureInit /\ Init
  /\ PayloadInit /\ (part # "payload" => venue = "coinbase" /\ ~live.synced)

LiveNext ==
  \/ part = "capture" /\ CaptureNext /\ UNCHANGED <<part, payloadVars, vars>>
  \/ part = "payload" /\ PayloadNext /\ UNCHANGED <<part, captureVars, vars>>
  \/ part = "book" /\ Next /\ UNCHANGED <<part, captureVars, payloadVars>>

LiveSpec ==
  LiveInit /\ [][LiveNext]_<<part, captureVars, payloadVars, vars>> /\ CaptureFairness
=============================================================================
