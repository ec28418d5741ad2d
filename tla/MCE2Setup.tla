------------------------------ MODULE MCE2Setup ------------------------------
(* Small instances of E2Setup. *)
EXTENDS E2Setup

=============================================================================
