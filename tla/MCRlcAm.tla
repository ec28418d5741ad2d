------------------------------- MODULE MCRlcAm -------------------------------
(* Small instances of RlcAm. *)
EXTENDS RlcAm

\* SDUs of two bytes go in segments when a grant has room for one.
Settling == {<<2, 1>>, <<1, 2>>}

\* With four sequence numbers, five SDUs use one of them again.
Mixed == Settling \cup {<<1, 1, 1, 1, 1>>}
=============================================================================
