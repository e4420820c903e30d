---------------------------- MODULE MCBusRingWeak ---------------------------
(* BusRingWeak for TLC: two slots, two words, and enough publishes to lap a *)
(* consumer that starts at any of the first ones.                           *)
EXTENDS BusRingWeak
=============================================================================
