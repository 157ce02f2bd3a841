------------------------------- MODULE MCAccure -------------------------------
(***************************************************************************)
(* Instances of Accure for TLC.                                            *)
(***************************************************************************)
EXTENDS AccureDelivery, TLC

CONSTANTS s1, s2, s3

Integrity     == [s \in Site |-> "Integrity"]
Accessibility == [s \in Site |-> "Accessibility"]

WriteOfS1 == {[site |-> s1, right |-> "Write"]}
AdminOfS1AndWriteOfS2 ==
  {[site |-> s1, right |-> "Admin"], [site |-> s2, right |-> "Write"]}

\* Who issues how many operations.
TwoEach         == [s \in Site |-> 2]
TwoEachButByS1  == [s \in Site |-> IF s = s1 THEN 0 ELSE 2]
TwoAndThree     == [s \in Site |-> IF s = s1 THEN 2 ELSE 3]   \* takes several minutes
OneByS1         == [s \in Site |-> IF s = s1 THEN 1 ELSE 0]
OneByS2         == [s \in Site |-> IF s = s2 THEN 1 ELSE 0]

\* s2 and s3 can be exchanged where they have the same bounds and strategy.
Administrators == Permutations({s2, s3})
===============================================================================
