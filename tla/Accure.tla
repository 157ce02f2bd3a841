-------------------------------- MODULE Accure --------------------------------
(***************************************************************************)
(* The ACCURE protocol core (accure-core/src/integrate.rs and state.rs): a *)
(* set of sites that allow and deny rights, edit the shared document, and  *)
(* re-derive which operations are valid from the log each has received.    *)
(*                                                                         *)
(* The sites replicate two Automerge lists, policy_log and doc_log, that   *)
(* all of them loaded from the same bytes (new_state_from_bytes), so that  *)
(* no append is lost.  Automerge itself is external: the model keeps, for  *)
(* every entry ever appended, the entries its author had at that time, and *)
(* Automerge hands an entry to a site only after those (a change is        *)
(* applied after the changes it depends on).  Entries may arrive at        *)
(* different sites in every order this leaves open.  A sync message that   *)
(* carries several entries amounts to receiving them one after the other   *)
(* without a pause: effect_policy rebuilds the register after each.        *)
(***************************************************************************)
EXTENDS Validity

CONSTANTS
  Strategy,        \* the --strategy each server was started with
  CommandTuples,   \* the access tuples the clients' allow and deny name
  MaxPolicyOps,    \* bounds: how many policy and document operations
  MaxDocOps        \*   each site issues

ASSUME SiteAssumption     == IsFiniteSet(Site)
ASSUME StrategyAssumption == Strategy \in [Site -> Strategies]
ASSUME CommandAssumption  == CommandTuples \subseteq AccessTuple
ASSUME BoundAssumption    ==
  MaxPolicyOps \in [Site -> Nat] /\ MaxDocOps \in [Site -> Nat]

VARIABLES
  policyLog,   \* every entry ever appended to an Automerge policy_log, with its past
  docLog,      \* the same for doc_log
  policies,    \* the policy operations of each site's State.log, in arrival order
  documents,   \* the document operations of each site's State.log
  valid,       \* the dots whose entry in each site's State.valid is TRUE
  nextN        \* State.next_n: the highest number a site knows of each site

vars == << policyLog, docLog, policies, documents, valid, nextN >>

PolicyEntry == [op : PolicyOp, past : SUBSET Dot]
DocEntry    == [op : DocOp, past : SUBSET Dot]

PolicyDots(s) == DotsOf(Range(policies[s]))
Seen(s)       == PolicyDots(s) \union DotsOf(documents[s])
AllDots       == {e.op.dot : e \in policyLog \union docLog}

TypeOK ==
  /\ policyLog \subseteq PolicyEntry
  /\ docLog \subseteq DocEntry
  /\ policies \in [Site -> Seq(PolicyOp)]
  /\ documents \in [Site -> SUBSET DocOp]
  /\ valid \in [Site -> SUBSET Dot]
  /\ nextN \in [Site -> [Site -> Nat]]
  /\ \A s \in Site : valid[s] \subseteq Seen(s)

Init ==
  /\ policyLog = {}
  /\ docLog = {}
  /\ policies = [s \in Site |-> << >>]
  /\ documents = [s \in Site |-> {}]
  /\ valid = [s \in Site |-> {}]
  /\ nextN = [s \in Site |-> [r \in Site |-> 0]]

-----------------------------------------------------------------------------
(***************************************************************************)
(* Numbers.  alloc_n serves policy and document operations from one        *)
(* counter, which it stores incremented; note_n moves a counter up to a    *)
(* number seen in the log.                                                 *)
(***************************************************************************)
\* Slip: the number before the increment.
AllocN_Before(s) == nextN[s][s]

AllocN(s) == nextN[s][s] + 1

\* The counters when alloc_n returns.
Allocated(s) == [nextN EXCEPT ![s][s] = AllocN(s)]

NoteN(s, d, counters) ==
  nextN' = [counters EXCEPT ![s][d.site] = IF d.n > @ THEN d.n ELSE @]

(***************************************************************************)
(* What a new policy operation records: the author's last document number  *)
(* of the target, those below it that the author has not received, and the *)
(* valid operations at the deepest level of the tuple's graph.             *)
(***************************************************************************)
SeenDocNumbers(s, r) == {d.dot.n : d \in {x \in documents[s] : x.dot.site = r}}

LastDotForWriteTuple(s, target) ==
  LET seen == SeenDocNumbers(s, target)
  IN  IF seen = {} THEN 0 ELSE CHOOSE n \in seen : \A m \in seen : m <= n

DeriveMissingDots(s, target) ==
  LET last == LastDotForWriteTuple(s, target)
  IN  {[site |-> target, n |-> k] : k \in (1 .. last) \ SeenDocNumbers(s, target)}

\* Slip: dependencies taken from every tuple.
CurrentTopLevelDeps_AnyTuple(s, t) ==
  {d \in UNION {DotsOf(PoliciesOn(policies[s], u)) : u \in CommandTuples} : d \in valid[s]}

CurrentTopLevelDeps(s, t) ==
  LET g == DagOf(policies[s], t)
  IN  {d \in AtLevel(g, MaxLevel(g)) : d \in valid[s]}

EvalAt(s, site, right) == Eval(policies[s], valid[s], Strategy[s], site, right)

OwnOps(s, log) == {e \in log : e.op.dot.site = s}

-----------------------------------------------------------------------------
(***************************************************************************)
(* update_policy: a client of s allows or denies a right.  It is refused   *)
(* when s has no Admin right in its own eyes.                              *)
(***************************************************************************)
NewPolicyOp(s, t, e) ==
  [dot           |-> [site |-> s, n |-> AllocN(s)],
   target        |-> t.site,
   right         |-> t.right,
   effect        |-> e,
   deps          |-> CurrentTopLevelDeps(s, t),
   last_dot_seen |-> LastDotForWriteTuple(s, t.site),
   missing_dots  |-> DeriveMissingDots(s, t.site)]

\* effect_policy: p joins the log and its graph, and the register is rebuilt.
EffectPolicy(s, p, counters) ==
  /\ policies' = [policies EXCEPT ![s] = Append(@, p)]
  /\ NoteN(s, p.dot, counters)
  /\ valid' = [valid EXCEPT ![s] =
                 RebuildValidity(Append(policies[s], p), documents[s], @, Strategy[s])]
  /\ UNCHANGED documents

UpdatePolicy(s, t, e) ==
  /\ Cardinality(OwnOps(s, policyLog)) < MaxPolicyOps[s]
  /\ EvalAt(s, s, "Admin")
  /\ LET p == NewPolicyOp(s, t, e)
     IN  /\ policyLog' = policyLog \union {[op |-> p, past |-> Seen(s)]}
         /\ EffectPolicy(s, p, Allocated(s))
  /\ UNCHANGED docLog

(***************************************************************************)
(* update_document: a client of s edits the text.  effect_document enters  *)
(* the new operation's own validity and rebuilds nothing else.             *)
(***************************************************************************)
\* Slip: edits have numbers of their own.
NewDocOp_OwnNumbers(s) ==
  [dot  |-> [site |-> s, n |-> Cardinality(OwnOps(s, docLog)) + 1],
   deps |-> CurrentTopLevelDeps(s, [site |-> s, right |-> "Write"])]

NewDocOp(s) ==
  [dot  |-> [site |-> s, n |-> AllocN(s)],
   deps |-> CurrentTopLevelDeps(s, [site |-> s, right |-> "Write"])]

EffectDocument(s, d, counters) ==
  /\ documents' = [documents EXCEPT ![s] = @ \union {d}]
  /\ NoteN(s, d.dot, counters)
  /\ UNCHANGED policies

UpdateDocument(s) ==
  /\ Cardinality(OwnOps(s, docLog)) < MaxDocOps[s]
  /\ EvalAt(s, s, "Write")
  /\ LET d == NewDocOp(s)
     IN  /\ docLog' = docLog \union {[op |-> d, past |-> Seen(s)]}
         /\ EffectDocument(s, d, Allocated(s))
         /\ valid' = [valid EXCEPT ![s] =
              IF IsValidDocument(d, policies[s], documents[s], @, Strategy[s])
                THEN @ \union {d.dot} ELSE @]
  /\ UNCHANGED policyLog

-----------------------------------------------------------------------------
(***************************************************************************)
(* rebuild_from_automerge after Automerge has merged one more entry.  An   *)
(* operation whose dot is in the log already is passed over.               *)
(***************************************************************************)
Deliverable(s, e) == e.past \subseteq Seen(s)

\* Slip: passed over when the register, not the log, has the operation.
NewPolicy_Invalid(s, e) == Deliverable(s, e) /\ e.op.dot \notin valid[s]

NewPolicy(s, e)   == Deliverable(s, e) /\ e.op.dot \notin PolicyDots(s)
NewDocument(s, e) == Deliverable(s, e) /\ e.op.dot \notin DotsOf(documents[s])

\* The closing rebuild_validity finds the fixed point effect_policy has left.
ReceivePolicy(s, e) ==
  /\ NewPolicy(s, e)
  /\ EffectPolicy(s, e.op, nextN)
  /\ UNCHANGED << policyLog, docLog >>

ReceiveDocument(s, e) ==
  /\ NewDocument(s, e)
  /\ EffectDocument(s, e.op, nextN)
  /\ valid' = [valid EXCEPT ![s] =
                 RebuildValidity(policies[s], documents[s] \union {e.op}, @, Strategy[s])]
  /\ UNCHANGED << policyLog, docLog >>

Receive(s) ==
  \/ \E e \in policyLog : ReceivePolicy(s, e)
  \/ \E e \in docLog : ReceiveDocument(s, e)

Next ==
  \E s \in Site :
    \/ \E t \in CommandTuples, e \in Effect : UpdatePolicy(s, t, e)
    \/ UpdateDocument(s)
    \/ Receive(s)

Spec == Init /\ [][Next]_vars
=============================================================================
