------------------------------ MODULE AccureProps ------------------------------
(***************************************************************************)
(* What the protocol core promises, and what its documentation says of it. *)
(***************************************************************************)
EXTENDS Accure

IsValid(s, o) ==
  IF o \in documents[s]
    THEN IsValidDocument(o, policies[s], documents[s], valid[s], Strategy[s])
    ELSE IsValidPolicy(o, policies[s], valid[s], Strategy[s])

(***************************************************************************)
(* After every step of a site its register agrees with is_valid on every   *)
(* operation of its log: the sweeps of rebuild_validity end at a fixed     *)
(* point, never at their limit, and effect_document need not rebuild.      *)
(***************************************************************************)
Stable ==
  \A s \in Site : \A o \in Range(policies[s]) \union documents[s] :
    o.dot \in valid[s] <=> IsValid(s, o)

(***************************************************************************)
(* No register holds two operations on the same tuple, issued without      *)
(* knowledge of each other, one allowing and one denying.  "Issued without *)
(* knowledge" is read off the logs here, so this is about current_top_     *)
(* level_deps and the graph as much as about is_valid_policy.              *)
(***************************************************************************)
NoValidConflict ==
  \A s \in Site : \A e, f \in policyLog :
    /\ TupleOf(e.op) = TupleOf(f.op)
    /\ {e.op.dot, f.op.dot} \subseteq valid[s]
    /\ e.op.dot \notin f.past
    /\ f.op.dot \notin e.past
    => e.op.effect = f.op.effect \/ e = f

(***************************************************************************)
(* A site that holds a denial of writing against r shows none of r's       *)
(* edits, those received before the denial and those still arriving alike: *)
(* eval and is_valid_document, written apart, agree on it.                 *)
(***************************************************************************)
DeniedWritesErased ==
  \A s, r \in Site :
    ~EvalAt(s, r, "Write") =>
      \A d \in documents[s] : d.dot.site = r => d.dot \notin valid[s]

(***************************************************************************)
(* An allow covers exactly the edits of its target that its author had     *)
(* received (last_dot_seen and missing_dots stand for that set although    *)
(* policy operations use up the same numbers), so it never lets through an *)
(* edit made without its author's knowledge.                               *)
(***************************************************************************)
AllowCoversWhatWasSeen ==
  \A e \in policyLog, d \in docLog :
    e.op.effect = "Allow" /\ e.op.target = d.op.dot.site =>
      (Covers(e.op, d.op.dot) <=> d.op.dot \in e.past)

(***************************************************************************)
(* Whatever an operation depends on precedes it in the log of every site   *)
(* that holds it, and is a policy operation on the tuple it is about: the  *)
(* graph of a tuple has no node without an operation (is_valid_policy and  *)
(* is_valid_document default an absent dependency in opposite ways).       *)
(***************************************************************************)
DepsDelivered ==
  \A s \in Site :
    /\ \A i \in DOMAIN policies[s] : \A x \in policies[s][i].deps :
         \E j \in 1 .. i - 1 : /\ policies[s][j].dot = x
                               /\ TupleOf(policies[s][j]) = TupleOf(policies[s][i])
    /\ \A d \in documents[s] : \A x \in d.deps :
         \E p \in PoliciesOn(policies[s], [site |-> d.dot.site, right |-> "Write"]) :
           p.dot = x

(***************************************************************************)
(* A dot names one operation, whatever site, list or tuple it belongs to   *)
(* (alloc_n: "globally unique within the site"); State.op, the register    *)
(* and the graphs are keyed by it.                                         *)
(***************************************************************************)
DotsUnique ==
  \A e, f \in policyLog \union docLog : e.op.dot = f.op.dot => e = f

(***************************************************************************)
(* Convergence.  Two sites with the same strategy that have received the   *)
(* same operations agree on which of them are valid -- "random             *)
(* interleavings of document + policy ops [...] must produce identical     *)
(* final state on every site after sync" (README.md:116).                  *)
(***************************************************************************)
SameOps(s, r) ==
  /\ Range(policies[s]) = Range(policies[r])
  /\ documents[s] = documents[r]

Convergence ==
  \A s, r \in Site :
    Strategy[s] = Strategy[r] /\ SameOps(s, r) => valid[s] = valid[r]

(***************************************************************************)
(* Two decisions cross in a tuple when each issued a favoured operation f  *)
(* on top of an unfavoured u of its own line, and each f is concurrent     *)
(* with the other's u: each line then refutes the other, and the line that *)
(* arrives first is the one that stays.                                    *)
(***************************************************************************)
Crossed(s) ==
  LET pol == Range(policies[s])
      favoured == {p \in pol : p.effect = Favoured(Strategy[s])}
  IN  \E f1, f2 \in favoured :
        /\ TupleOf(f1) = TupleOf(f2)
        /\ LET g == DagOf(policies[s], TupleOf(f1))
           IN  \E u1, u2 \in PoliciesOn(policies[s], TupleOf(f1)) \ favoured :
                 /\ u1.dot \in Ancestors(g, f1.dot)
                 /\ u2.dot \in Ancestors(g, f2.dot)
                 /\ Concurrent(g, u1.dot, f2.dot)
                 /\ Concurrent(g, u2.dot, f1.dot)

(***************************************************************************)
(* Crossed decisions are all that stands in the way of convergence: with   *)
(* none of them the outcome does not depend on the order of arrival.       *)
(***************************************************************************)
ConvergesUnlessCrossed ==
  \A s, r \in Site :
    Strategy[s] = Strategy[r] /\ SameOps(s, r) /\ ~Crossed(s) => valid[s] = valid[r]

-----------------------------------------------------------------------------
\* The operation a step of update_policy has just issued, if it was one.
IssuedNow == {e.op : e \in policyLog' \ policyLog}

\* After the step its author considers the right it is about granted.
Granted(p) ==
  LET s == p.dot.site
  IN  Eval(policies'[s], valid'[s], Strategy[s], p.target, p.right)

(***************************************************************************)
(* A command for the effect the strategy favours is in force at the        *)
(* issuing site as soon as update_policy returns, whatever the site has    *)
(* received before.                                                        *)
(***************************************************************************)
FavouredCommandTakesEffect ==
  [][\A p \in IssuedNow :
       p.effect = Favoured(Strategy[p.dot.site]) => (Granted(p) <=> p.effect = "Allow")]_vars

(***************************************************************************)
(* A valid allow of writing redoes every edit of its target that the       *)
(* issuing site has received, except those whose own dependencies are      *)
(* undone (README.md:135: "Both peers' edits redone").                     *)
(***************************************************************************)
ReallowRedoesSeenWrites ==
  [][\A p \in IssuedNow :
       LET s == p.dot.site
       IN  /\ p.effect = "Allow"
           /\ p.right = "Write"
           /\ p.dot \in valid'[s]
           => \A d \in documents[s] :
                d.dot.site = p.target /\ d.deps \subseteq valid'[s] => d.dot \in valid'[s]]_vars

(***************************************************************************)
(* An edit that passes update_document's check of the Write right is a     *)
(* valid operation at its author: denies cover what is "concurrent"        *)
(* (validity.rs:163), and an edit made after the author has received an    *)
(* allow that lifts the deny is not.                                       *)
(***************************************************************************)
AcceptedWriteVisible ==
  [][\A e \in docLog' \ docLog : e.op.dot \in valid'[e.op.dot.site]]_vars
=============================================================================
