----------------------------- MODULE RenderingInv -----------------------------
(***************************************************************************)
(* The inductive invariant behind what Rendering says of texts.            *)
(***************************************************************************)
EXTENDS Rendering

TextTyped ==
  /\ issued \subseteq Edit
  /\ log \in [Site -> Seq(Edit)]
  /\ valid \in [Site -> SUBSET Dot]

\* Sites hold edits that were issued, and believe none valid but those they hold.
OnlyIssued ==
  \A s \in Site : Range(log[s]) \subseteq issued /\ valid[s] \subseteq DotsIn(log[s])

\* What makes a dot a name: no two edits share one, and no log has one twice.
DotsName ==
  /\ \A e, d \in issued : e.dot = d.dot => e = d
  /\ \A s \in Site : \A i, j \in DOMAIN log[s] : log[s][i].dot = log[s][j].dot => i = j

IssuedBy(s) == {e \in issued : e.dot.site = s}

\* The number a site takes next is still free: it counts its own edits.
NumbersTaken ==
  \A s \in Site :
    /\ IsFiniteSet(IssuedBy(s))
    /\ \A e \in IssuedBy(s) : e.dot.n <= Cardinality(IssuedBy(s))

RenderingIInv == TextTyped /\ OnlyIssued /\ DotsName /\ NumbersTaken
=============================================================================
