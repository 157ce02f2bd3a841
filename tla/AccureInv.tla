------------------------------- MODULE AccureInv -------------------------------
(***************************************************************************)
(* The inductive invariant behind TypeOK, DotsUnique, DepsDelivered and    *)
(* AllowCoversWhatWasSeen.  None of its parts looks at the register: they  *)
(* say how logs, numbers and causal pasts fit together.                    *)
(***************************************************************************)
EXTENDS AccureProps

AllEntries == policyLog \union docLog

\* A site's log holds nothing that was not appended to the replicated lists.
Recorded ==
  \A s \in Site : /\ Range(policies[s]) \subseteq {e.op : e \in policyLog}
                  /\ documents[s] \subseteq {e.op : e \in docLog}

\* A log holds an operation once.
OnceEach ==
  \A s \in Site : \A i, j \in DOMAIN policies[s] :
    policies[s][i].dot = policies[s][j].dot => i = j

\* A site has everything it issued itself in its log.
OwnKept ==
  /\ \A e \in policyLog : e.op \in Range(policies[e.op.dot.site])
  /\ \A e \in docLog : e.op \in documents[e.op.dot.site]

\* next_n is never behind the log (what note_n is for).
Counted == \A s \in Site : \A d \in Seen(s) : d.n <= nextN[s][d.site]

KindsApart == \A e \in policyLog, f \in docLog : e.op.dot # f.op.dot

\* Pasts hold appended entries only, and with an entry its own past.
PastKnown  == \A e \in AllEntries : e.past \subseteq AllDots
PastClosed == \A e, f \in AllEntries : f.op.dot \in e.past => f.past \subseteq e.past

\* So do the logs of the sites.
SeenClosed ==
  \A s \in Site : \A e \in AllEntries : e.op.dot \in Seen(s) => e.past \subseteq Seen(s)

\* A site numbers its operations in the order it issues them.
NumbersFollowPast ==
  \A e, f \in AllEntries :
    e.op.dot.site = f.op.dot.site /\ e.op.dot.n < f.op.dot.n => e.op.dot \in f.past

\* last_dot_seen is the number of an edit in the past of the operation, no
\* edit of the target in that past has a higher one, and missing_dots stay below.
LastSeenKnown ==
  \A e \in policyLog :
    /\ e.op.last_dot_seen # 0 =>
         \E d \in docLog : /\ d.op.dot = [site |-> e.op.target, n |-> e.op.last_dot_seen]
                           /\ d.op.dot \in e.past
    /\ \A x \in e.op.missing_dots : x.n <= e.op.last_dot_seen

LastSeenIsLast ==
  \A e \in policyLog, d \in docLog :
    d.op.dot.site = e.op.target /\ d.op.dot \in e.past =>
      d.op.dot.n <= e.op.last_dot_seen

\* A dependency is a policy operation on the right tuple, in the past.
DependsOn(x, t, e) ==
  \E f \in policyLog : f.op.dot = x /\ TupleOf(f.op) = t /\ x \in e.past

DepsInPast ==
  /\ \A e \in policyLog : \A x \in e.op.deps : DependsOn(x, TupleOf(e.op), e)
  /\ \A e \in docLog : \A x \in e.op.deps :
       DependsOn(x, [site |-> e.op.dot.site, right |-> "Write"], e)

\* The parts about the lists and logs as a whole.
Causality ==
  /\ Counted
  /\ DotsUnique
  /\ PastKnown
  /\ PastClosed
  /\ SeenClosed
  /\ NumbersFollowPast

(***************************************************************************)
(* Everything the theorems of AccureProofs rest on, inductive as a    *)
(* whole: entries keep faith with their pasts, and logs with the entries.  *)
(***************************************************************************)
IInv ==
  /\ TypeOK
  /\ Recorded
  /\ OnceEach
  /\ OwnKept
  /\ KindsApart
  /\ Causality
  /\ LastSeenKnown
  /\ LastSeenIsLast
  /\ DepsInPast
  /\ DepsDelivered
=============================================================================
