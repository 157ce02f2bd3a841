------------------------------- MODULE MCSession -------------------------------
(***************************************************************************)
(* Instances of Session for TLC.                                           *)
(***************************************************************************)
EXTENDS SessionInv

CONSTANTS s1, s2, c1, c2, c3

\* s1 dials s2 and, when that connection is gone, dials again; s2 dials s1.
DialedBy   == [c \in Connection |-> IF c = c2 THEN s2 ELSE s1]
AcceptedBy == [c \in Connection |-> IF c = c2 THEN s1 ELSE s2]
===============================================================================
