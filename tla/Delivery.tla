------------------------------- MODULE Delivery -------------------------------
(***************************************************************************)
(* What the servers' replication promises, whatever carries it: entries    *)
(* are appended with what their author holds as their past, and a server   *)
(* comes to hold further entries never before their past and never loses   *)
(* one.  Accure takes this for granted in its Receive, Session builds it   *)
(* from sync messages; both implement it.                                  *)
(***************************************************************************)
CONSTANT Server

VARIABLES
  entries,   \* every entry so far, [id, past]
  holds      \* the ids of the entries each server holds

Ids == {e.id : e \in entries}

Closed(X) == \A e \in entries : e.id \in X => e.past \subseteq X

\* The servers may start with documents that are not empty.
Init == \A s \in Server : holds[s] \subseteq Ids /\ Closed(holds[s])

Append(s) ==
  \E e \in entries' \ entries :
    /\ e.id \notin Ids
    /\ e.past = holds[s]
    /\ entries' = entries \union {e}
    /\ holds' = [holds EXCEPT ![s] = @ \union {e.id}]

Receive(s) ==
  /\ holds[s] \subseteq holds'[s]
  /\ holds'[s] \subseteq Ids
  /\ Closed(holds'[s])
  /\ holds' = [holds EXCEPT ![s] = holds'[s]]
  /\ UNCHANGED entries

Next == \E s \in Server : Append(s) \/ Receive(s)

Spec == Init /\ [][Next]_<< entries, holds >>
=============================================================================
