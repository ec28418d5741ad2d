------------------------------ MODULE MCPdcpRx ------------------------------
(* A small instance of PdcpRx for TLC. *)
EXTENDS PdcpRx

\* Every kind of bearer and every kind of t-Reordering, not each with each.
SomeConfigs ==
  {[rb |-> "am", t_reordering |-> "finite"], [rb |-> "um", t_reordering |-> "finite"],
   [rb |-> "srb", t_reordering |-> "infinity"], [rb |-> "um", t_reordering |-> "ms0"]}
=============================================================================
