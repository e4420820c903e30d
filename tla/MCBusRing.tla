------------------------------ MODULE MCBusRing -----------------------------
(* BusRing for TLC: a ring requested with one slot, so of capacity two, and *)
(* enough publishes to lap the consumer three times.  One consumer is enough: *)
(* a consumer writes nothing another thread reads, and BusRingProofs proves  *)
(* the safety properties for any set of them.                               *)
EXTENDS BusRing

CONSTANTS c1, w1, w2

MCConsumers == {c1}
MCWords == {w1, w2}
MCCap == Capacity(1)
=============================================================================
