-------------------------------- MODULE Servers --------------------------------
(***************************************************************************)
(* The servers' Automerge documents and what of them is read back into     *)
(* State.log (main.rs and peer.rs of accure-server, the list functions and *)
(* rebuild_from_automerge of accure-core/src/integrate.rs).  Accure takes  *)
(* for granted that all sites append to the same lists; here every server  *)
(* has the document its start gave it, and may be restarted.               *)
(*                                                                         *)
(* A document holds list objects and appended entries.  Two list objects   *)
(* put under the same key by documents that did not know each other        *)
(* conflict: all are kept, and reading the key yields the one whose        *)
(* creator has the greater actor id, at every site alike.  policy_log and  *)
(* doc_log are created together, so one of each is enough here.  Actor ids *)
(* are random; the model hands out numbers in any order.  Of an operation  *)
(* only its dot matters.                                                   *)
(***************************************************************************)
EXTENDS Naturals, FiniteSets

CONSTANTS
  Server,
  Actors,       \* bound: the actor ids, one for each start of a server
  MaxOps,       \* bound: operations a server issues in one run
  MaxRestarts   \* bound: restarts in all

ASSUME ServersAssumption ==
  /\ Actors \subseteq Nat \ {0}
  /\ {MaxOps, MaxRestarts} \subseteq Nat

VARIABLES
  actor,     \* the actor id of each server's run (0: not started)
  lists,     \* the list objects in its document, named by their creators
  entries,   \* the entries in its document
  log,       \* those that are in State.log
  nextN,     \* the server's own counter in State.next_n
  restarts   \* how many restarts there have been

vars == << actor, lists, entries, log, nextN, restarts >>

\* by tells apart the entries of two runs of one server with the same dot.
Dot   == [site : Server, n : Nat \ {0}]
Entry == [dot : Dot, list : Nat, by : Actors]

DotsOf(es) == {e.dot : e \in es}

TypeOK ==
  /\ actor \in [Server -> Actors \union {0}]
  /\ lists \in [Server -> SUBSET Nat]
  /\ entries \in [Server -> SUBSET Entry]
  /\ log \in [Server -> SUBSET Entry]
  /\ nextN \in [Server -> Nat]
  /\ restarts \in Nat
  /\ \A s \in Server : log[s] \subseteq entries[s]

Init ==
  /\ actor = [s \in Server |-> 0]
  /\ lists = [s \in Server |-> {}]
  /\ entries = [s \in Server |-> {}]
  /\ log = [s \in Server |-> {}]
  /\ nextN = [s \in Server |-> 0]
  /\ restarts = 0

Greatest(S) == CHOOSE x \in S : \A y \in S : y <= x

\* ensure_policy_log, ensure_doc_log; the slip stays with the list the server made.
Winner_Own(s, known) == actor[s]

Winner(s, known) == Greatest(known)

\* Slip: the log is still there after a restart.
Begin_KeepingLog(s, a) ==
  /\ \A r \in Server : a # actor[r] /\ a \notin lists[r] /\ a \notin {e.by : e \in entries[r]}
  /\ actor' = [actor EXCEPT ![s] = a]
  /\ lists' = [lists EXCEPT ![s] = {a}]
  /\ entries' = [entries EXCEPT ![s] = {}]
  /\ nextN' = [nextN EXCEPT ![s] = 0]
  /\ UNCHANGED log

\* new_shared_doc and new_state_from_bytes.
Begin(s, a) ==
  /\ \A r \in Server : a # actor[r] /\ a \notin lists[r] /\ a \notin {e.by : e \in entries[r]}
  /\ actor' = [actor EXCEPT ![s] = a]
  /\ lists' = [lists EXCEPT ![s] = {a}]
  /\ entries' = [entries EXCEPT ![s] = {}]
  /\ log' = [log EXCEPT ![s] = {}]
  /\ nextN' = [nextN EXCEPT ![s] = 0]

Start(s, a) ==
  /\ actor[s] = 0
  /\ Begin(s, a)
  /\ UNCHANGED restarts

\* Nothing survives the end of the process.
Restart(s, a) ==
  /\ actor[s] # 0
  /\ restarts < MaxRestarts
  /\ Begin(s, a)
  /\ restarts' = restarts + 1

\* alloc_n.
AllocN(s) == nextN[s] + 1

\* update_policy and update_document: append to the list the key yields.
Issue(s) ==
  /\ actor[s] # 0
  /\ nextN[s] < MaxOps
  /\ LET e == [dot  |-> [site |-> s, n |-> AllocN(s)],
               list |-> Winner(s, lists[s]),
               by   |-> actor[s]]
     IN  /\ entries' = [entries EXCEPT ![s] = @ \union {e}]
         /\ log' = [log EXCEPT ![s] = @ \union {e}]
  /\ nextN' = [nextN EXCEPT ![s] = @ + 1]
  /\ UNCHANGED << actor, lists, restarts >>

(***************************************************************************)
(* A sync message from r, with everything r's document had that s's had    *)
(* not; then rebuild_from_automerge reads the lists the keys yield now and *)
(* takes over the entries whose dots were not in the log before.           *)
(***************************************************************************)
Readable(known, es, s) == {e \in es : e.list = Winner(s, known)}

\* Slip: note_n is left to the site that issued the operation.
NoteAll_Others(s, es) == nextN' = nextN

NoteAll(s, es) ==
  nextN' = [nextN EXCEPT ![s] = Greatest({@} \union {e.dot.n : e \in {x \in es : x.dot.site = s}})]

Merge(s, r) ==
  /\ actor[s] # 0 /\ actor[r] # 0
  /\ << lists[r], entries[r] >> # << lists[s] \intersect lists[r], entries[s] \intersect entries[r] >>
  /\ lists' = [lists EXCEPT ![s] = @ \union lists[r]]
  /\ entries' = [entries EXCEPT ![s] = @ \union entries[r]]
  /\ LET new == {e \in Readable(lists'[s], entries'[s], s) : e.dot \notin DotsOf(log[s])}
     IN  /\ log' = [log EXCEPT ![s] = @ \union new]
         /\ NoteAll(s, new)
  /\ UNCHANGED << actor, restarts >>

Next ==
  \E s \in Server :
    \/ \E a \in Actors : Start(s, a) \/ Restart(s, a)
    \/ Issue(s)
    \/ \E r \in Server : Merge(s, r)

Spec == Init /\ [][Next]_vars

-----------------------------------------------------------------------------
(***************************************************************************)
(* "share the same root objects so concurrent appends survive sync"        *)
(* (integrate.rs:239-241): an operation that has reached a server's        *)
(* document is in its log.                                                 *)
(***************************************************************************)
AppendsSurvive == \A s \in Server : entries[s] \subseteq log[s]

(***************************************************************************)
(* Even when every server starts with lists of its own, what is appended   *)
(* to the list that wins against all others reaches every log it can: the  *)
(* lists found so far may lose, the winning one never does.                *)
(***************************************************************************)
Winning(e) == \A s \in Server : \A l \in lists[s] : l <= e.list

WinningListSurvives ==
  restarts = 0 => \A s \in Server : \A e \in entries[s] : Winning(e) => e \in log[s]

(***************************************************************************)
(* With restarts too, an operation on the list a server reads is missing   *)
(* from its log only when another one has taken its dot, and its counter   *)
(* is not behind any of its own operations in the log ("so we never re-use *)
(* a number", state.rs:114, from then on).                                 *)
(***************************************************************************)
MissingOnlyByDot ==
  \A s \in Server :
    /\ \A e \in entries[s] :
         (\A l \in lists[s] : l <= e.list) => e.dot \in DotsOf(log[s])
    /\ \A e \in log[s] : e.dot.site = s => e.dot.n <= nextN[s]
=============================================================================
