------------------------------- MODULE Validity -------------------------------
(***************************************************************************)
(* When an operation is valid (accure-core/src/validity.rs), and the       *)
(* rebuild of a site's validity register (rebuild_validity in              *)
(* integrate.rs).                                                          *)
(*                                                                         *)
(*   pol       the policy operations of the site's log, in arrival order   *)
(*   docs      the document operations of the log; no definition depends   *)
(*             on their order                                              *)
(*   V         the dots whose register entry is TRUE.  Every operation of  *)
(*             the log has an entry, so a dot of the log outside V is      *)
(*             FALSE and a dot outside the log has no entry.               *)
(*   strategy  the site's conflict resolution strategy                     *)
(***************************************************************************)
EXTENDS Ops, PolicyDag, Functions

PoliciesOn(pol, t) == {p \in Range(pol) : TupleOf(p) = t}

(***************************************************************************)
(* State.g[t]: what effect_policy's add_node and add_edge calls have built *)
(* from the operations of t received so far, in any order.                 *)
(***************************************************************************)
DagOf(pol, t) ==
  LET ops == PoliciesOn(pol, t)
  IN  [nodes |-> DotsOf(ops) \union UNION {p.deps : p \in ops},
       edges |-> UNION {{<< dep, p.dot >> : dep \in p.deps} : p \in ops}]

\* The effect the strategy prefers between concurrent opposite operations.
Favoured(strategy) == IF strategy = "Integrity" THEN "Deny" ELSE "Allow"

\* Slip: the comparison the wrong way round; the older operation wins.
OpWinsAgainst_Inverted(strategy, a, b) == a.effect # Favoured(strategy)
OpWinsAgainst_OlderWins(strategy, a, b) == a.dot.n <= b.dot.n

OpWinsAgainst(strategy, a, b) == a.effect = Favoured(strategy)

Concurrent(g, d1, d2) ==
  d1 # d2 /\ d1 \notin Ancestors(g, d2) /\ d2 \notin Ancestors(g, d1)

(***************************************************************************)
(* Algorithm 1: a policy operation must win against every valid concurrent *)
(* operation of opposite effect, and all it depends on must be valid.      *)
(***************************************************************************)
IsValidPolicy(op, pol, V, strategy) ==
  LET g == DagOf(pol, TupleOf(op))
      conflicts == {c \in PoliciesOn(pol, TupleOf(op)) :
                      c.effect # op.effect /\ Concurrent(g, c.dot, op.dot)}
  IN  /\ \A c \in conflicts : c.dot \in V => OpWinsAgainst(strategy, op, c)
      /\ op.deps \subseteq V

(***************************************************************************)
(* The effect of the deepest of some operations; between operations at the *)
(* same level the favoured effect counts, and when there is none the       *)
(* initial policy allows.                                                  *)
(***************************************************************************)
Deepest(g, ops) ==
  LET levels == {Level(g, p.dot) : p \in ops}
  IN  {p \in ops : LET l == Level(g, p.dot) IN \A k \in levels : k <= l}

DeepestAllows(g, ops, strategy) ==
  \/ ops = {}
  \/ IF strategy = "Integrity"
       THEN \A p \in Deepest(g, ops) : p.effect = "Allow"
       ELSE \E p \in Deepest(g, ops) : p.effect = "Allow"

ValidOn(pol, V, t) == {p \in PoliciesOn(pol, t) : p.dot \in V}

\* Does the site hold the right, as far as this log and register say?
Eval(pol, V, strategy, site, right) ==
  LET t == [site |-> site, right |-> right]
  IN  DeepestAllows(DagOf(pol, t), ValidOn(pol, V, t), strategy)

\* Slips: > for >= in the comparison with last_dot_seen; a deny that covers
\* no more than an allow does.
Covers_Strictly(p, d) ==
  d \in p.missing_dots \/ p.last_dot_seen > d.n \/ p.effect = "Deny"
Covers_DenyLikeAllow(p, d) == d \in p.missing_dots \/ p.last_dot_seen >= d.n

(***************************************************************************)
(* Policy operation p on (d.site, "Write") decides over the document       *)
(* operation with dot d: an allow over those its author had seen, a deny   *)
(* over every one.                                                         *)
(***************************************************************************)
Covers(p, d) ==
  \/ d \in p.missing_dots
  \/ p.last_dot_seen >= d.n
  \/ p.effect = "Deny"

(***************************************************************************)
(* Algorithm 2: the deepest valid policy operation that covers d must      *)
(* allow it, and no dependency of d that the log holds may be invalid.     *)
(***************************************************************************)
IsValidDocument(d, pol, docs, V, strategy) ==
  LET t == [site |-> d.dot.site, right |-> "Write"]
      covering == {p \in ValidOn(pol, V, t) : Covers(p, d.dot)}
  IN  /\ DeepestAllows(DagOf(pol, t), covering, strategy)
      /\ \A x \in d.deps :
           x \in DotsOf(Range(pol)) \union DotsOf(docs) => x \in V

(***************************************************************************)
(* rebuild_validity.  One sweep re-evaluates the log's operations in order *)
(* and stores each result at once, so that later ones see it.  Sweeps are  *)
(* repeated until one changes nothing, at most 4 * len + 8 times.  Policy  *)
(* operations never read a document operation's entry, so the documents    *)
(* are evaluated once, against the policies' final entries; Stable in      *)
(* Accure checks that the limit is never what ends the sweeps.             *)
(***************************************************************************)
Reevaluate(op, pol, V, strategy) ==
  IF IsValidPolicy(op, pol, V, strategy) THEN V \union {op.dot} ELSE V \ {op.dot}

\* swept[i] is the register after the first i operations.
Sweep(pol, V, strategy) ==
  LET swept[i \in 0 .. Len(pol)] ==
        IF i = 0 THEN V ELSE Reevaluate(pol[i], pol, swept[i - 1], strategy)
  IN  swept[Len(pol)]

\* Slip: a single sweep.
SweepLimit_One(pol) == 1

SweepLimit(pol) == 4 * Len(pol) + 8

\* sweeps[k][W] is the register left by the rounds from k on, when W is that
\* before round k.
SweepUntilStable(pol, V, strategy) ==
  LET sweeps[k \in 1 .. SweepLimit(pol)] ==
        [W \in SUBSET DotsOf(Range(pol)) |->
           LET new == Sweep(pol, W, strategy)
           IN  IF new = W \/ k = SweepLimit(pol) THEN new ELSE sweeps[k + 1][new]]
  IN  sweeps[1][V]

RebuildValidity(pol, docs, V, strategy) ==
  LET policyEntries == SweepUntilStable(pol, V \intersect DotsOf(Range(pol)), strategy)
      valid == {p \in Range(pol) : p.dot \in policyEntries}
  IN  DotsOf(valid) \union
        DotsOf({d \in docs : IsValidDocument(d, pol, docs, DotsOf(valid), strategy)})
=============================================================================
