------------------------------ MODULE ServersInv ------------------------------
(***************************************************************************)
(* The inductive invariant behind WinningListSurvives and MissingOnlyByDot.*)
(***************************************************************************)
EXTENDS Servers

Unstarted == \A s \in Server : actor[s] = 0 => lists[s] = {} /\ entries[s] = {}

\* A key of a started server's document yields one of finitely many lists.
ListsBounded ==
  \A s \in Server : /\ actor[s] # 0 => lists[s] # {}
                    /\ \E b \in Nat : \A l \in lists[s] : l <= b

NumbersBounded ==
  \A s \in Server : nextN[s] <= MaxOps /\ \A e \in entries[s] : e.dot.n <= MaxOps

\* An entry comes with the list it was appended to.
ListsCome == \A s \in Server : \A e \in entries[s] : e.list \in lists[s]

\* Until a server is restarted, every entry is still in its issuer's document,
\* the issuer's counter is not behind it, and its dot is its own.
NeverReused ==
  restarts = 0 =>
    \A s \in Server : \A e \in entries[s] :
      /\ e \in entries[e.dot.site]
      /\ e.dot.n <= nextN[e.dot.site]
      /\ \A f \in entries[s] : f.dot = e.dot => f = e

ServersIInv ==
  /\ TypeOK
  /\ Unstarted
  /\ ListsBounded
  /\ NumbersBounded
  /\ ListsCome
  /\ NeverReused
  /\ WinningListSurvives
  /\ MissingOnlyByDot
=============================================================================
