------------------------------ MODULE MCPdcpTx ------------------------------
(* A small instance of PdcpTx for TLC. *)
EXTENDS PdcpTx

AllConfigs == [mode : {"um", "am"}, discard_timer : {"finite", "infinity"}]
Reports    == {{}, {1}}
=============================================================================
