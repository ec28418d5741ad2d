------------------------------ MODULE MCE2Agent ------------------------------
(* Small instances of E2Agent for TLC. *)
EXTENDS E2Agent, TLC

CONSTANTS k1, k2, a1, a2

Rep(a) == [id |-> a, kind |-> "report"]
Ins(a) == [id |-> a, kind |-> "insert"]

MCKeys == {k1, k2}
MCActionIds == {a1, a2}
\* A report and an insert action, either of which may be refused on its own.
MCRequests == {<<Rep(a1), Ins(a2)>>}
=============================================================================
