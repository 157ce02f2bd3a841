------------------------------ MODULE SessionInv ------------------------------
(***************************************************************************)
(* The inductive invariant behind BelievedThere, GapsUnderWay,             *)
(* SilenceMeansDelivered and SessionsDeliver: how the changes, the         *)
(* documents and what is on its way between two servers fit together.      *)
(***************************************************************************)
EXTENDS Session

\* A change is the only one with its id, and ids are given out in order.
IdsUnique == \A e, f \in entries : e.id = f.id => e = f

Numbered == \E k \in Nat : Appended = 1 .. k

\* Pasts and documents hold changes only, and with a change its own past.
PastsClosed == \A e \in entries : e.past \subseteq D!Ids /\ D!Closed(e.past)

DocsClosed == \A s \in Server : doc[s] \subseteq D!Ids /\ D!Closed(doc[s])

\* A server is sent nothing but changes that the sender's document has.
QueuesKnown == \A s \in Server : queue[s] \subseteq D!Ids

OnWire(c, s) == {wire[c][s][i] : i \in 1 .. Len(wire[c][s])}

MessagesHeld ==
  \A c \in Connection, s \in Server : \A m \in OnWire(c, s) :
    m.has \subseteq doc[s] /\ m.changes \subseteq doc[s]

LostKnown == \A m \in lost : m.carried \in D!Ids \union {Nothing}

\* What s has, or has been sent by anyone: no step takes anything out of it.
Reach(s) ==
  doc[s] \union queue[s]
    \union UNION {UnderWay(p, s) \union Lost(p, s) : p \in Server \ {s}}

\* With a change, its past too has been sent, on whatever connection.
ReachClosed == \A s \in Server : D!Closed(Reach(s))

\* A change is kept only as long as its past is not there.
QueueWaits ==
  \A s \in Server : \A e \in entries :
    e.id \in queue[s] => ~(e.past \subseteq doc[s] \union queue[s])

\* A peer whose answer is awaited, and whose heads are known, has been sent all
\* that the last message told it of.
ToldThere ==
  \A s \in Server : \A p \in Server \ {s} :
    view[s][p].waiting /\ view[s][p].theirs # {} =>
      view[s][p].told \subseteq doc[p] \union queue[p] \union UnderWay(s, p) \union Lost(s, p)

SessionIInv ==
  /\ TypeOK
  /\ IdsUnique
  /\ Numbered
  /\ PastsClosed
  /\ DocsClosed
  /\ QueuesKnown
  /\ MessagesHeld
  /\ LostKnown
  /\ BelievedThere
  /\ ToldThere
  /\ QueueWaits
  /\ ReachClosed
=============================================================================
