------------------------------ MODULE MCRendering ------------------------------
(***************************************************************************)
(* Instances of Rendering for TLC.                                         *)
(***************************************************************************)
EXTENDS RenderingInv

OneEach       == [s \in Site |-> 1]
TwoByTheFirst == [s \in Site |-> IF s = 1 THEN 2 ELSE 1]
=============================================================================
