----------------------------- MODULE MCXAppBase -----------------------------
(* Small instances of XAppBase for TLC. *)
EXTENDS XAppBase

CONSTANTS s1, s2, s3

TwoSubs == {s1, s2}
ThreeSubs == {s1, s2, s3}
=============================================================================
