------------------------------ MODULE MCTimers ------------------------------
(* A small instance of Timers for TLC: MCTimers.cfg gives the constants. *)
EXTENDS Timers
=============================================================================
