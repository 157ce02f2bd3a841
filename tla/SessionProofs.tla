----------------------------- MODULE SessionProofs -----------------------------
(***************************************************************************)
(* Proofs about Session for every set of servers and connections, every    *)
(* capacity and every bound on changes and faults.                         *)
(***************************************************************************)
EXTENDS SessionInv, SequenceTheorems, FiniteSetTheorems, TLAPS

-----------------------------------------------------------------------------
(***************************************************************************)
(* Facts about the operators.                                              *)
(***************************************************************************)

\* Past looks a change up by its id, which only one entry has.
LEMMA PastOf ==
  ASSUME IdsUnique, NEW e \in entries
  PROVE  Past(e.id) = e.past
<1>1. \A f \in entries : f.id = e.id => f = e
  BY DEF IdsUnique
<1>2. (CHOOSE f \in entries : f.id = e.id) = e
  BY <1>1
<1> QED BY <1>2 DEF Past

\* What is under way and what was lost, spelt out, in a state and in the next.
Sending(s, p, x) ==
  \E c \in Connection : Ends(c) = {s, p} /\ \E m \in OnWire(c, s) : x \in m.changes

\* What it means that a change is under way.
LEMMA InUnderWay == \A s, p, x : x \in UnderWay(s, p) <=> Sending(s, p, x)
<1> SUFFICES ASSUME NEW s, NEW p, NEW x PROVE x \in UnderWay(s, p) <=> Sending(s, p, x)
  OBVIOUS
<1>1. \A c : x \in UNION {wire[c][s][i].changes : i \in 1 .. Len(wire[c][s])} <=>
               \E m \in OnWire(c, s) : x \in m.changes
  BY DEF OnWire
<1>2. x \in UnderWay(s, p) <=>
        \E c \in {d \in Connection : Ends(d) = {s, p}} :
          x \in UNION {wire[c][s][i].changes : i \in 1 .. Len(wire[c][s])}
  BY DEF UnderWay
<1> QED BY <1>1, <1>2 DEF Sending

\* The same after a step.
LEMMA InUnderWayNext == (\A s, p, x : x \in UnderWay(s, p) <=> Sending(s, p, x))'
BY InUnderWay, PTL

\* What it means that a change is lost.
LEMMA InLost ==
  \A s, p, x : x \in Lost(s, p) <=> \E m \in lost : m.from = s /\ m.to = p /\ m.carried = x
BY DEF Lost

\* The same after a step.
LEMMA InLostNext ==
  (\A s, p, x : x \in Lost(s, p) <=> \E m \in lost : m.from = s /\ m.to = p /\ m.carried = x)'
BY InLost, PTL

\* Losing messages adds what they carried to what was lost, and forgets nothing.
LEMMA LosingAdds ==
  ASSUME NEW s, NEW p, NEW messages
  PROVE  /\ lost \subseteq Losing(s, p, messages)
         /\ \A m \in messages : \A x \in m.changes :
              [from |-> s, to |-> p, carried |-> x] \in Losing(s, p, messages)
         /\ \A n \in Losing(s, p, messages) :
              \/ n \in lost
              \/ /\ n.from = s /\ n.to = p
                 /\ n.carried = Nothing \/ \E m \in messages : n.carried \in m.changes
                 /\ n = [from |-> s, to |-> p, carried |-> n.carried]
<1>1. \A n : n \in Losing(s, p, messages) <=>
        \/ n \in lost
        \/ n \in [from : {s}, to : {p}, carried : UNION {m.changes : m \in messages}]
        \/ messages # {} /\ n = [from |-> s, to |-> p, carried |-> Nothing]
  BY DEF Losing
<1>2. \A n \in [from : {s}, to : {p}, carried : UNION {m.changes : m \in messages}] :
        /\ n.from = s /\ n.to = p /\ n = [from |-> s, to |-> p, carried |-> n.carried]
        /\ \E m \in messages : n.carried \in m.changes
  OBVIOUS
<1>3. \A m \in messages : \A x \in m.changes :
        [from |-> s, to |-> p, carried |-> x] \in
          [from : {s}, to : {p}, carried : UNION {n.changes : n \in messages}]
  OBVIOUS
<1> QED BY <1>1, <1>2, <1>3

\* A loss is recorded as one.
LEMMA LosingTyped ==
  ASSUME TypeOK, NEW s \in Server, NEW p \in Server, NEW messages,
         \A m \in messages : m.changes \subseteq Id
  PROVE  Losing(s, p, messages) \subseteq [from : Server, to : Server, carried : Id \union {Nothing}]
<1> DEFINE Records == [from : Server, to : Server, carried : Id \union {Nothing}]
<1>1. lost \subseteq Records
  BY DEF TypeOK
<1>2. [from : {s}, to : {p}, carried : UNION {m.changes : m \in messages}] \subseteq Records
  OBVIOUS
<1>3. [from |-> s, to |-> p, carried |-> Nothing] \in Records
  OBVIOUS
<1> QED BY <1>1, <1>2, <1>3 DEF Losing

\* A message that is sent joins those on the wire, the one read leaves them,
\* and of a broken wire those beyond a point are gone.
LEMMA AppendOnWire ==
  ASSUME NEW q \in Seq(Message), NEW m \in Message
  PROVE  /\ Append(q, m) \in Seq(Message) /\ Len(Append(q, m)) = Len(q) + 1
         /\ {Append(q, m)[i] : i \in 1 .. Len(Append(q, m))} = {q[i] : i \in 1 .. Len(q)} \union {m}
<1>1. /\ Append(q, m) \in Seq(Message)
      /\ Len(Append(q, m)) = Len(q) + 1
      /\ \A i \in 1 .. Len(q) : Append(q, m)[i] = q[i]
      /\ Append(q, m)[Len(q) + 1] = m
  BY AppendProperties
<1>2. Len(q) \in Nat
  OBVIOUS
<1>3. 1 .. Len(q) + 1 = (1 .. Len(q)) \union {Len(q) + 1}
  BY <1>2
<1> QED BY <1>1, <1>3

\* A message less on the wire.
LEMMA TailOnWire ==
  ASSUME NEW q \in Seq(Message), q # << >>
  PROVE  /\ Tail(q) \in Seq(Message) /\ Len(Tail(q)) <= Len(q)
         /\ Head(q) \in Message
         /\ {q[i] : i \in 1 .. Len(q)} =
              {Tail(q)[i] : i \in 1 .. Len(Tail(q))} \union {Head(q)}
<1>1. /\ Head(q) \in Message /\ Tail(q) \in Seq(Message)
      /\ Len(Tail(q)) = Len(q) - 1
      /\ \A i \in 1 .. Len(Tail(q)) : Tail(q)[i] = q[i + 1]
      /\ Head(q) = q[1]
      /\ Len(q) \in Nat /\ Len(q) >= 1
  BY HeadTailProperties
<1>2. \A i \in 1 .. Len(q) : i = 1 \/ (i - 1 \in 1 .. Len(Tail(q)) /\ Tail(q)[i - 1] = q[i])
  BY <1>1
<1>3. \A i \in 1 .. Len(Tail(q)) : i + 1 \in 1 .. Len(q) /\ Tail(q)[i] = q[i + 1]
  BY <1>1
<1>4. 1 \in 1 .. Len(q)
  BY <1>1
<1> QED BY <1>1, <1>2, <1>3, <1>4

\* The first k messages of a wire and those beyond.
LEMMA CutOnWire ==
  ASSUME NEW q \in Seq(Message), NEW k \in 0 .. Len(q)
  PROVE  /\ SubSeq(q, 1, k) \in Seq(Message) /\ Len(SubSeq(q, 1, k)) <= Len(q)
         /\ {q[i] : i \in 1 .. Len(q)} =
              {SubSeq(q, 1, k)[i] : i \in 1 .. Len(SubSeq(q, 1, k))} \union Beyond(q, k)
<1>1. /\ SubSeq(q, 1, k) \in Seq(Message)
      /\ Len(SubSeq(q, 1, k)) = k
      /\ \A i \in 1 .. k : SubSeq(q, 1, k)[i] = q[i]
      /\ Len(q) \in Nat /\ k \in Nat /\ k <= Len(q)
  BY SubSeqProperties
<1>2. 1 .. Len(q) = (1 .. k) \union (k + 1 .. Len(q))
  BY <1>1
<1> QED BY <1>1, <1>2 DEF Beyond

\* The two ends of a connection are different servers.
LEMMA EndsPeer ==
  ASSUME NEW c \in Connection, NEW s \in Ends(c)
  PROVE  /\ s \in Server /\ Peer(c, s) \in Server /\ s # Peer(c, s)
         /\ Ends(c) = {s, Peer(c, s)}
         /\ Peer(c, s) \in Ends(c)
         /\ Peer(c, Peer(c, s)) = s
BY ConnectionAssumption DEF Ends, Peer

\* Only Update makes entries, so the other steps keep what is said of them.
LEMMA EntriesKept ==
  ASSUME entries' = entries
  PROVE  /\ IdsUnique' <=> IdsUnique
         /\ Numbered' <=> Numbered
         /\ PastsClosed' <=> PastsClosed
         /\ D!Ids' = D!Ids
         /\ \A X : D!Closed(X)' <=> D!Closed(X)
BY DEF IdsUnique, Numbered, PastsClosed, Appended, D!Ids, D!Closed

\* An applied change is there with its past, and none is applied twice.
LEMMA AppliedClosed ==
  ASSUME IdsUnique, PastsClosed, NEW X \in SUBSET D!Ids
  PROVE  /\ D!Closed(Applied(X))
         /\ \A Y \in SUBSET X : D!Closed(Y) => Y \subseteq Applied(X)
<1>1. \A x \in X : \E e \in entries : e.id = x /\ Past(x) = e.past
  BY PastOf DEF D!Ids
<1>2. ASSUME NEW e \in entries, e.id \in Applied(X), NEW y \in e.past
      PROVE  y \in Applied(X)
  <2>1. e.past \subseteq X
    BY <1>2, PastOf DEF Applied
  <2>2. PICK f \in entries : f.id = y
    BY <1>2 DEF PastsClosed, D!Ids
  <2>3. f.past \subseteq e.past
    BY <1>2, <2>2 DEF PastsClosed, D!Closed
  <2> QED BY <1>2, <2>1, <2>2, <2>3, PastOf DEF Applied
<1>3. ASSUME NEW Y \in SUBSET X, D!Closed(Y), NEW y \in Y
      PROVE  y \in Applied(X)
  <2>1. PICK e \in entries : e.id = y /\ Past(y) = e.past
    BY <1>1
  <2> QED BY <1>3, <2>1 DEF D!Closed, Applied
<1> QED BY <1>2, <1>3 DEF D!Closed

\* Changes have numbers of their own, other than the one for an empty message.
LEMMA IdsTyped ==
  ASSUME TypeOK
  PROVE  D!Ids \subseteq Id /\ Nothing \notin D!Ids
<1>1. \A e \in entries : e.id \in Id
  BY DEF TypeOK
<1>2. 0 \notin Id
  BY NameAssumption, BoundAssumption DEF Id
<1> QED BY <1>1, <1>2 DEF D!Ids, Nothing

\* What a server holds, gets or has missed.
LEMMA InReach ==
  \A s, x : x \in Reach(s) <=>
    x \in doc[s] \/ x \in queue[s]
      \/ \E p \in Server \ {s} : x \in UnderWay(p, s) \/ x \in Lost(p, s)
BY DEF Reach

\* The same after a step.
LEMMA InReachNext ==
  (\A s, x : x \in Reach(s) <=>
     x \in doc[s] \/ x \in queue[s]
       \/ \E p \in Server \ {s} : x \in UnderWay(p, s) \/ x \in Lost(p, s))'
BY InReach, PTL

\* Nothing but changes is ever meant for a server.
LEMMA ReachKnown ==
  ASSUME SessionIInv
  PROVE  \A s \in Server : Reach(s) \subseteq D!Ids \union {Nothing}
<1> SUFFICES ASSUME NEW s \in Server, NEW x \in Reach(s) PROVE x \in D!Ids \union {Nothing}
  OBVIOUS
<1>1. CASE x \in doc[s] \/ x \in queue[s]
  BY <1>1 DEF SessionIInv, DocsClosed, QueuesKnown
<1>2. ASSUME NEW p \in Server, x \in UnderWay(p, s) PROVE x \in doc[p]
  BY <1>2, InUnderWay DEF Sending, SessionIInv, MessagesHeld
<1>3. ASSUME NEW p \in Server, x \in Lost(p, s) PROVE x \in D!Ids \union {Nothing}
  BY <1>3, InLost DEF SessionIInv, LostKnown
<1> QED BY <1>1, <1>2, <1>3, InReach DEF SessionIInv, DocsClosed

-----------------------------------------------------------------------------
(***************************************************************************)
(* What a step changes, in the form the actions share.                     *)
(***************************************************************************)

SetsView(s, p, v) == view' = [view EXCEPT ![s][p] = v]
SetsWire(c, s, q) == wire' = [wire EXCEPT ![c][s] = q]

\* One sync state is replaced.
LEMMA ViewSet ==
  ASSUME TypeOK, NEW s \in Server, NEW p \in Server, NEW v \in SyncState, SetsView(s, p, v)
  PROVE  /\ view' \in [Server -> [Server -> SyncState]]
         /\ \A a, b \in Server : view'[a][b] = IF a = s /\ b = p THEN v ELSE view[a][b]
BY DEF TypeOK, SetsView

\* The messages of one end of a connection are replaced.
LEMMA WireSet ==
  ASSUME TypeOK, NEW c \in Connection, NEW s \in Server, NEW q \in Seq(Message),
         Len(q) <= Capacity, SetsWire(c, s, q)
  PROVE  /\ wire' \in [Connection -> [Server -> Seq(Message)]]
         /\ \A d \in Connection, a \in Server :
              /\ Len(wire'[d][a]) <= Capacity
              /\ wire'[d][a] = IF d = c /\ a = s THEN q ELSE wire[d][a]
BY DEF TypeOK, SetsWire

\* A step after which no more is meant for s, and no less, keeps it closed.
LEMMA ReachClosedKept ==
  ASSUME SessionIInv, entries' = entries, NEW s \in Server,
         Reach(s) \subseteq Reach(s)', Reach(s)' \subseteq Reach(s) \union {Nothing}
  PROVE  D!Closed(Reach(s))'
<1>1. \A e \in entries : e.id # Nothing
  BY IdsTyped DEF SessionIInv, D!Ids
<1>2. D!Closed(Reach(s))
  BY DEF SessionIInv, ReachClosed
<1> QED BY <1>1, <1>2 DEF D!Closed

-----------------------------------------------------------------------------
(***************************************************************************)
(* The actions.                                                            *)
(***************************************************************************)

\* Ids are given out in order, so the next one is new.
LEMMA FreshId ==
  ASSUME TypeOK, Numbered, Cardinality(Appended) < MaxAppends
  PROVE  LET x == Cardinality(Appended) + 1
         IN  /\ x \in Id /\ x \notin D!Ids /\ x \notin Server /\ x # Nothing
             /\ \E k \in Nat : Appended \union {x} = 1 .. k
<1>1. PICK k \in Nat : Appended = 1 .. k
  BY DEF Numbered
<1>2. Cardinality(Appended) = k
  BY <1>1, FS_Interval
<1>3. D!Ids \subseteq Server \union (1 .. k)
  BY <1>1 DEF Appended, D!Ids
<1>4. k + 1 \notin Server /\ k + 1 \notin 1 .. k /\ k + 1 \in 1 .. MaxAppends
  BY <1>2, NameAssumption, BoundAssumption
<1>5. (1 .. k) \union {k + 1} = 1 .. k + 1
  OBVIOUS
<1> QED BY <1>1, <1>2, <1>3, <1>4, <1>5 DEF Id, Nothing

\* A client has brought about a change.
LEMMA UpdateKeeps ==
  ASSUME SessionIInv, NEW s \in Server, Update(s)
  PROVE  SessionIInv' /\ D!Append(s)
<1> DEFINE x == Cardinality(Appended) + 1
           n == [id |-> x, past |-> doc[s]]
<1>1. /\ x \in Id /\ x \notin D!Ids /\ x \notin Server /\ x # Nothing
      /\ \E k \in Nat : Appended \union {x} = 1 .. k
  BY FreshId DEF Update, SessionIInv
<1>2. /\ entries' = entries \union {n}
      /\ doc' = [doc EXCEPT ![s] = @ \union {x}]
      /\ UNCHANGED << queue, view, link, running, wire, garbled, lost >>
  BY DEF Update
<1> HIDE DEF x
<1>3. /\ \A r \in Server : doc'[r] = IF r = s THEN doc[r] \union {x} ELSE doc[r]
      /\ doc' \in [Server -> SUBSET Id]
  BY <1>1, <1>2 DEF SessionIInv, TypeOK
<1>4. /\ D!Ids' = D!Ids \union {x}
      /\ Appended' = Appended \union {x}
      /\ \A e \in entries : e.id # x
  <2>1. D!Ids' = {e.id : e \in entries \union {n}}
    BY <1>2 DEF D!Ids
  <2>2. D!Ids' = D!Ids \union {n.id}
    BY <2>1 DEF D!Ids
  <2>3. Appended = D!Ids \ Server /\ Appended' = D!Ids' \ Server
    BY DEF Appended, D!Ids
  <2> QED BY <1>1, <2>2, <2>3 DEF D!Ids
<1>5. TypeOK'
  BY <1>1, <1>2, <1>3 DEF SessionIInv, TypeOK
<1>6. IdsUnique' /\ Numbered'
  BY <1>1, <1>2, <1>4 DEF SessionIInv, IdsUnique, Numbered
<1>7. \A X : D!Closed(X) /\ x \notin X => D!Closed(X)'
  BY <1>2 DEF D!Closed
<1>8. PastsClosed'
  <2>1. \A e \in entries : e.past \subseteq D!Ids /\ D!Closed(e.past)
    BY DEF SessionIInv, PastsClosed
  <2>2. doc[s] \subseteq D!Ids /\ D!Closed(doc[s])
    BY DEF SessionIInv, DocsClosed
  <2> QED BY <1>1, <1>2, <1>4, <1>7, <2>1, <2>2 DEF PastsClosed
<1>9. DocsClosed'
  <2> SUFFICES ASSUME NEW r \in Server PROVE doc'[r] \subseteq D!Ids' /\ D!Closed(doc[r])'
    BY DEF DocsClosed
  <2>1. doc[r] \subseteq D!Ids /\ D!Closed(doc[r])
    BY DEF SessionIInv, DocsClosed
  <2>2. D!Closed(doc[r])'
    <3>1. \A e \in entries' : e.id \in doc'[r] => e.past \subseteq doc'[r]
      BY <1>1, <1>2, <1>3, <1>4, <2>1 DEF D!Closed
    <3> QED BY <3>1 DEF D!Closed
  <2> QED BY <1>3, <1>4, <2>1, <2>2
<1>10. QueuesKnown' /\ LostKnown' /\ MessagesHeld'
  BY <1>2, <1>3, <1>4 DEF SessionIInv, QueuesKnown, LostKnown, MessagesHeld, OnWire
<1>11. \A a, b \in Server : UnderWay(a, b)' = UnderWay(a, b) /\ Lost(a, b)' = Lost(a, b)
  BY <1>2 DEF UnderWay, Lost
<1>12. BelievedThere' /\ ToldThere'
  BY <1>2, <1>3, <1>11 DEF SessionIInv, BelievedThere, ToldThere
<1>15. QueueWaits'
  <2> SUFFICES ASSUME NEW r \in Server, NEW e \in entries', e.id \in queue[r],
                      e.past \subseteq doc'[r] \union queue[r]
               PROVE  FALSE
    BY <1>2 DEF QueueWaits
  <2>1. queue[r] \subseteq D!Ids
    BY DEF SessionIInv, QueuesKnown
  <2>2. e \in entries
    BY <1>1, <1>2, <2>1
  <2>3. e.past \subseteq D!Ids
    BY <2>2 DEF SessionIInv, PastsClosed
  <2>4. e.past \subseteq doc[r] \union queue[r]
    BY <1>1, <1>3, <2>3
  <2> QED BY <2>2, <2>4 DEF SessionIInv, QueueWaits
<1>13. ReachClosed'
  <2> SUFFICES ASSUME NEW r \in Server PROVE D!Closed(Reach(r))'
    BY DEF ReachClosed
  <2>1. Reach(r)' = IF r = s THEN Reach(r) \union {x} ELSE Reach(r)
    BY <1>2, <1>3, <1>11 DEF Reach
  <2>2. x \notin Reach(r) /\ D!Closed(Reach(r)) /\ doc[s] \subseteq Reach(s)
    BY <1>1, ReachKnown DEF SessionIInv, ReachClosed, Reach
  <2> QED BY <1>2, <1>4, <2>1, <2>2 DEF D!Closed
<1>14. D!Append(s)
  <2>1. n \in entries' \ entries
    BY <1>2, <1>4
  <2> QED BY <1>1, <1>2, <2>1 DEF D!Append
<1> QED BY <1>5, <1>6, <1>8, <1>9, <1>10, <1>12, <1>15, <1>13, <1>14 DEF SessionIInv

\* Nothing on its way changes when no wire and no loss does.
LEMMA TrafficUnchanged ==
  ASSUME SessionIInv, TypeOK', UNCHANGED << entries, doc, queue, view, wire, lost >>
  PROVE  SessionIInv'
<1>1. IdsUnique' /\ Numbered' /\ PastsClosed' /\ DocsClosed' /\ QueuesKnown'
  BY EntriesKept DEF SessionIInv, DocsClosed, QueuesKnown
<1>2. MessagesHeld' /\ LostKnown'
  BY EntriesKept DEF SessionIInv, MessagesHeld, OnWire, LostKnown
<1>3. \A a, b : UnderWay(a, b)' = UnderWay(a, b) /\ Lost(a, b)' = Lost(a, b)
  BY DEF UnderWay, Lost
<1>4. BelievedThere' /\ ToldThere' /\ QueueWaits'
  BY <1>3 DEF SessionIInv, BelievedThere, ToldThere, QueueWaits
<1>5. ReachClosed'
  <2>1. \A a : Reach(a)' = Reach(a)
    BY <1>3 DEF Reach
  <2> QED BY <2>1 DEF SessionIInv, ReachClosed, D!Closed
<1> QED BY <1>1, <1>2, <1>4, <1>5 DEF SessionIInv

\* Connections come and go without touching what is on its way.
LEMMA OpenKeeps ==
  ASSUME SessionIInv, NEW c \in Connection, Open(c)
  PROVE  SessionIInv'
<1>1. UNCHANGED << entries, doc, queue, view, wire, garbled, lost >>
  BY DEF Open, documents
<1>2. TypeOK'
  <2>1. /\ link' = [link EXCEPT ![c] = "up"]
        /\ running' = [running EXCEPT ![c] = Ends(c)]
    BY DEF Open
  <2>2. Ends(c) \subseteq Server
    BY ConnectionAssumption DEF Ends
  <2> QED BY <1>1, <2>1, <2>2 DEF SessionIInv, TypeOK
<1> QED BY <1>1, <1>2, TrafficUnchanged

\* A session ends; its tasks hold nothing that was not sent.
LEMMA EndSessionKeeps ==
  ASSUME SessionIInv, NEW c \in Connection, NEW s \in Ends(c), EndSession(c, s)
  PROVE  SessionIInv'
<1>1. UNCHANGED << entries, doc, queue, view, wire, garbled, lost >>
  BY DEF EndSession, documents
<1>2. TypeOK'
  <2>1. link' = link /\ running' = [running EXCEPT ![c] = @ \ {s}]
    BY DEF EndSession
  <2> QED BY <1>1, <2>1 DEF SessionIInv, TypeOK
<1> QED BY <1>1, <1>2, TrafficUnchanged

\* The message that generate_sync_message makes is on the wire or lost.
LEMMA GenerateFlow ==
  ASSUME SessionIInv, NEW c \in Connection, NEW s \in Ends(c), Generate(c, s)
  PROVE  LET p == Peer(c, s)
             m == MessageFor(s, p)
         IN  /\ TypeOK' /\ MessagesHeld' /\ LostKnown'
             /\ \A a, b \in Server : /\ UnderWay(a, b) \subseteq UnderWay(a, b)'
                                     /\ Lost(a, b) \subseteq Lost(a, b)'
             /\ m.changes \subseteq UnderWay(s, p)' \union Lost(s, p)'
             /\ \A a, b \in Server : \A x \in UnderWay(a, b)' \union Lost(a, b)' :
                  \/ x \in UnderWay(a, b) \union Lost(a, b) \union {Nothing}
                  \/ a = s /\ b = p /\ x \in m.changes
<1> DEFINE p == Peer(c, s)
           m == MessageFor(s, p)
<1>1. /\ s \in Server /\ p \in Server /\ s # p /\ Ends(c) = {s, p}
  BY EndsPeer
<1>2. /\ m \in Message /\ m.has = doc[s] /\ m.changes = ChangesFor(s, p)
      /\ m.changes \subseteq doc[s]
  BY <1>1 DEF SessionIInv, TypeOK, MessageFor, ChangesFor, Message
<1>3. /\ view' = [view EXCEPT ![s][p] = AfterGenerate(s, p)]
      /\ UNCHANGED << entries, doc, queue, link, running, garbled >>
      /\ \/ /\ Len(wire[c][s]) < Capacity
            /\ wire' = [wire EXCEPT ![c][s] = Append(@, m)]
            /\ lost' = lost
         \/ /\ lost' = Losing(s, p, {m})
            /\ wire' = wire
  BY DEF Generate, documents
<1> HIDE DEF m, p
<1>4. view' \in [Server -> [Server -> SyncState]]
  <2>1. AfterGenerate(s, p) \in SyncState
    <3>1. view[s][p] \in SyncState /\ doc[s] \in SUBSET Id
      BY <1>1 DEF SessionIInv, TypeOK
    <3>2. ChangesFor(s, p) \in SUBSET Id
      BY <3>1 DEF ChangesFor
    <3> QED BY <3>1, <3>2 DEF AfterGenerate, SyncState
  <2>2. TypeOK
    BY DEF SessionIInv
  <2>3. SetsView(s, p, AfterGenerate(s, p))
    BY <1>3 DEF SetsView
  <2> QED BY <1>1, <2>1, <2>2, <2>3, ViewSet
<1>5. CASE wire' = [wire EXCEPT ![c][s] = Append(@, m)] /\ lost' = lost /\ Len(wire[c][s]) < Capacity
  <2>1. /\ wire[c][s] \in Seq(Message)
        /\ Append(wire[c][s], m) \in Seq(Message)
        /\ Len(Append(wire[c][s], m)) <= Capacity
        /\ SetsWire(c, s, Append(wire[c][s], m))
    BY <1>1, <1>2, <1>5, BoundAssumption, AppendOnWire DEF SessionIInv, TypeOK, SetsWire
  <2>2. /\ wire' \in [Connection -> [Server -> Seq(Message)]]
        /\ \A d \in Connection, a \in Server :
              /\ Len(wire'[d][a]) <= Capacity
              /\ wire'[d][a] = IF d = c /\ a = s THEN Append(wire[c][s], m) ELSE wire[d][a]
    <3> DEFINE q == Append(wire[c][s], m)
    <3>1. TypeOK /\ q \in Seq(Message) /\ Len(q) <= Capacity /\ SetsWire(c, s, q)
      BY <2>1 DEF SessionIInv
    <3> HIDE DEF q
    <3>2. /\ wire' \in [Connection -> [Server -> Seq(Message)]]
          /\ \A d \in Connection, a \in Server :
                /\ Len(wire'[d][a]) <= Capacity
                /\ wire'[d][a] = IF d = c /\ a = s THEN q ELSE wire[d][a]
      BY <1>1, <3>1, WireSet
    <3> QED BY <3>2 DEF q
  <2>3. \A d \in Connection, a \in Server :
          OnWire(d, a)' = IF d = c /\ a = s THEN OnWire(d, a) \union {m} ELSE OnWire(d, a)
    <3>1. {Append(wire[c][s], m)[i] : i \in 1 .. Len(Append(wire[c][s], m))} =
            {wire[c][s][i] : i \in 1 .. Len(wire[c][s])} \union {m}
      BY <1>2, <2>1, AppendOnWire
    <3> TAKE d \in Connection, a \in Server
    <3>2. CASE d = c /\ a = s
      <4>1. wire'[c][s] = Append(wire[c][s], m)
        BY <1>1, <2>2
      <4>2. OnWire(c, s)' = {wire'[c][s][i] : i \in 1 .. Len(wire'[c][s])}
        BY DEF OnWire
      <4>3. OnWire(c, s)' = OnWire(c, s) \union {m}
        BY <3>1, <4>1, <4>2 DEF OnWire
      <4> QED BY <3>2, <4>3
    <3>3. CASE ~(d = c /\ a = s)
      BY <2>2, <3>3 DEF OnWire
    <3> QED BY <3>2, <3>3
  <2>4. TypeOK'
    BY <1>3, <1>4, <1>5, <2>2 DEF SessionIInv, TypeOK
  <2>5. MessagesHeld'
    BY <1>2, <1>3, <2>3 DEF SessionIInv, MessagesHeld
  <2>6. \A a, b : Lost(a, b)' = Lost(a, b)
    BY <1>5 DEF Lost
  <2>7. \A a, b \in Server : UnderWay(a, b) \subseteq UnderWay(a, b)'
    BY <2>3, InUnderWay, InUnderWayNext DEF Sending, Ends
  <2>8. m.changes \subseteq UnderWay(s, p)'
    BY <1>1, <2>3, InUnderWayNext DEF Sending, Ends
  <2>9. ASSUME NEW a \in Server, NEW b \in Server, NEW x \in UnderWay(a, b)'
        PROVE  x \in UnderWay(a, b) \/ (a = s /\ b = p /\ x \in m.changes)
    <3>1. PICK d \in Connection : Ends(d) = {a, b} /\ \E k \in OnWire(d, a)' : x \in k.changes
      BY <2>9, InUnderWayNext DEF Sending, Ends
    <3>2. CASE \E k \in OnWire(d, a) : x \in k.changes
      BY <3>1, <3>2, InUnderWay DEF Sending
    <3>3. CASE d = c /\ a = s /\ x \in m.changes
      BY <1>1, <3>1, <3>3
    <3> QED BY <2>3, <3>1, <3>2, <3>3
  <2>10. LostKnown'
    BY <1>3, <1>5 DEF SessionIInv, LostKnown, D!Ids
  <2> QED BY <2>4, <2>5, <2>6, <2>7, <2>8, <2>9, <2>10 DEF m, p
<1>6. CASE lost' = Losing(s, p, {m}) /\ wire' = wire
  <2>1. /\ lost \subseteq lost'
        /\ \A x \in m.changes : [from |-> s, to |-> p, carried |-> x] \in lost'
        /\ \A n \in lost' :
             \/ n \in lost
             \/ /\ n.from = s /\ n.to = p
                /\ n.carried = Nothing \/ n.carried \in m.changes
                /\ n = [from |-> s, to |-> p, carried |-> n.carried]
    BY <1>6, LosingAdds
  <2>2. m.changes \subseteq D!Ids /\ m.changes \subseteq Id
    BY <1>1, <1>2 DEF SessionIInv, DocsClosed, Message
  <2>3. TypeOK'
    <3>1. lost' \subseteq [from : Server, to : Server, carried : Id \union {Nothing}]
      BY <1>1, <1>6, <2>2, LosingTyped DEF SessionIInv
    <3> QED BY <1>3, <1>4, <1>6, <3>1 DEF SessionIInv, TypeOK
  <2>4. \A a, b : UnderWay(a, b)' = UnderWay(a, b)
    BY <1>6 DEF UnderWay
  <2>5. MessagesHeld'
    BY <1>3, <1>6 DEF SessionIInv, MessagesHeld, OnWire
  <2>6. LostKnown'
    BY <1>3, <2>1, <2>2 DEF SessionIInv, LostKnown, D!Ids
  <2>7. m.changes \subseteq Lost(s, p)'
    <3> SUFFICES ASSUME NEW x \in m.changes PROVE x \in Lost(s, p)'
      OBVIOUS
    <3>1. [from |-> s, to |-> p, carried |-> x] \in lost'
      BY <2>1
    <3> QED BY <3>1, InLostNext
  <2>8. \A a, b : Lost(a, b) \subseteq Lost(a, b)'
    BY <2>1, InLost, InLostNext
  <2>9. \A a, b : \A x \in Lost(a, b)' :
          x \in Lost(a, b) \union {Nothing} \/ (a = s /\ b = p /\ x \in m.changes)
    BY <2>1, InLost, InLostNext
  <2> QED BY <2>3, <2>4, <2>5, <2>6, <2>7, <2>8, <2>9 DEF m, p
<1> QED BY <1>3, <1>5, <1>6

\* A message is generated and put on its way.
LEMMA GenerateKeeps ==
  ASSUME SessionIInv, NEW c \in Connection, NEW s \in Ends(c), Generate(c, s)
  PROVE  SessionIInv'
<1> DEFINE p == Peer(c, s)
           m == MessageFor(s, p)
<1>1. /\ s \in Server /\ p \in Server /\ s # p
  BY EndsPeer
<1>2. /\ m.changes = ChangesFor(s, p)
      /\ view' = [view EXCEPT ![s][p] = AfterGenerate(s, p)]
      /\ UNCHANGED << entries, doc, queue >>
  BY DEF Generate, documents, MessageFor
<1>3. /\ TypeOK' /\ MessagesHeld' /\ LostKnown'
      /\ \A a, b \in Server : /\ UnderWay(a, b) \subseteq UnderWay(a, b)'
                              /\ Lost(a, b) \subseteq Lost(a, b)'
      /\ m.changes \subseteq UnderWay(s, p)' \union Lost(s, p)'
      /\ \A a, b \in Server : \A x \in UnderWay(a, b)' \union Lost(a, b)' :
           \/ x \in UnderWay(a, b) \union Lost(a, b) \union {Nothing}
           \/ a = s /\ b = p /\ x \in m.changes
  BY GenerateFlow
<1> HIDE DEF m, p
<1>4. /\ IdsUnique' /\ Numbered' /\ PastsClosed' /\ DocsClosed' /\ QueuesKnown'
      /\ QueueWaits'
  BY <1>2, EntriesKept DEF SessionIInv, DocsClosed, QueuesKnown, QueueWaits
<1>5. \A a, b \in Server :
        view'[a][b] = IF a = s /\ b = p THEN AfterGenerate(s, p) ELSE view[a][b]
  BY <1>1, <1>2 DEF SessionIInv, TypeOK
<1>6. /\ AfterGenerate(s, p).theirs = view[s][p].theirs
      /\ AfterGenerate(s, p).sent = view[s][p].sent \union m.changes
      /\ AfterGenerate(s, p).told = doc[s]
  BY <1>1, <1>2 DEF AfterGenerate, SessionIInv, TypeOK, SyncState
<1>7. BelievedThere'
  <2> SUFFICES ASSUME NEW a \in Server, NEW b \in Server \ {a}
               PROVE  /\ view'[a][b].theirs \subseteq doc[b]
                      /\ view'[a][b].sent \subseteq
                           doc[b] \union queue[b] \union UnderWay(a, b)' \union Lost(a, b)'
    BY <1>2 DEF BelievedThere
  <2>1. /\ view[a][b].theirs \subseteq doc[b]
        /\ view[a][b].sent \subseteq doc[b] \union queue[b] \union UnderWay(a, b) \union Lost(a, b)
    BY DEF SessionIInv, BelievedThere
  <2> QED BY <1>3, <1>5, <1>6, <2>1
<1>9. ToldThere'
  <2> SUFFICES ASSUME NEW a \in Server, NEW b \in Server \ {a},
                      view'[a][b].waiting, view'[a][b].theirs # {}
               PROVE  view'[a][b].told \subseteq
                        doc[b] \union queue[b] \union UnderWay(a, b)' \union Lost(a, b)'
    BY <1>2 DEF ToldThere
  <2>1. CASE a = s /\ b = p
    <3>1. view[s][p].theirs # {} /\ view'[a][b].told = doc[s]
      BY <1>1, <1>5, <1>6, <2>1
    <3>2. doc[s] \subseteq view[s][p].theirs \union view[s][p].sent \union m.changes
      BY <1>2, <3>1 DEF ChangesFor
    <3>3. /\ view[s][p].theirs \subseteq doc[p]
          /\ view[s][p].sent \subseteq
               doc[p] \union queue[p] \union UnderWay(s, p) \union Lost(s, p)
      BY <1>1 DEF SessionIInv, BelievedThere
    <3> QED BY <1>1, <1>3, <2>1, <3>1, <3>2, <3>3
  <2>2. CASE ~(a = s /\ b = p)
    <3>1. view[a][b].waiting /\ view[a][b].theirs # {} /\ view'[a][b].told = view[a][b].told
      BY <1>5, <2>2
    <3>2. view[a][b].told \subseteq
            doc[b] \union queue[b] \union UnderWay(a, b) \union Lost(a, b)
      BY <3>1 DEF SessionIInv, ToldThere
    <3> QED BY <1>3, <3>1, <3>2
  <2> QED BY <2>1, <2>2
<1>8. ReachClosed'
  <2> SUFFICES ASSUME NEW r \in Server, NEW e \in entries, e.id \in Reach(r)'
               PROVE  e.past \subseteq Reach(r)'
    BY <1>2 DEF ReachClosed, D!Closed
  <2>1. Reach(r) \subseteq Reach(r)'
    BY <1>2, <1>3, InReach, InReachNext
  <2>2. e.id # Nothing
    BY IdsTyped DEF SessionIInv, D!Ids
  <2>3. CASE e.id \in Reach(r)
    BY <2>1, <2>3 DEF SessionIInv, ReachClosed, D!Closed
  <2>4. CASE r = p /\ e.id \in m.changes
    <3>1. e.past \subseteq doc[s]
      BY <1>1, <1>2, <2>4 DEF ChangesFor, SessionIInv, DocsClosed, D!Closed
    <3>2. e.past \subseteq view[s][p].theirs \union view[s][p].sent \union m.changes
      BY <1>2, <2>4, <3>1 DEF ChangesFor
    <3>3. /\ view[s][p].theirs \subseteq doc[p]
          /\ view[s][p].sent \subseteq
               doc[p] \union queue[p] \union UnderWay(s, p) \union Lost(s, p)
      BY <1>1 DEF SessionIInv, BelievedThere
    <3>4. e.past \subseteq doc[p] \union queue[p] \union UnderWay(s, p)' \union Lost(s, p)'
      BY <1>1, <1>3, <3>2, <3>3
    <3> QED BY <1>1, <1>2, <2>4, <3>4, InReachNext
  <2>5. e.id \in Reach(r) \/ (r = p /\ e.id \in m.changes)
    BY <1>2, <1>3, <2>2, InReach, InReachNext
  <2> QED BY <2>3, <2>4, <2>5
<1> QED BY <1>3, <1>4, <1>7, <1>9, <1>8 DEF SessionIInv

\* The two ends of a connection.
LEMMA EndsAre ==
  ASSUME NEW d \in Connection
  PROVE  \A a, b : Ends(d) = {a, b} <=> a \in Ends(d) /\ b = Peer(d, a)
BY ConnectionAssumption DEF Ends, Peer

\* Of what is read from a wire, the messages are those that were on it.
LEMMA ReadFromWire ==
  ASSUME TypeOK, NEW c \in Connection, NEW s \in Ends(c), ReadMessage(c, s)
  PROVE  LET p == Peer(c, s)
             m == Head(wire[c][p])
         IN  /\ wire' \in [Connection -> [Server -> Seq(Message)]]
             /\ \A d \in Connection, a \in Server : Len(wire'[d][a]) <= Capacity
             /\ m \in Message /\ m \in OnWire(c, p)
             /\ \A d \in Connection, a \in Server :
                  /\ OnWire(d, a)' \subseteq OnWire(d, a)
                  /\ OnWire(d, a) \subseteq OnWire(d, a)' \/
                       (d = c /\ a = p /\ OnWire(c, p) = OnWire(c, p)' \union {m})
<1> DEFINE p == Peer(c, s)
           m == Head(wire[c][p])
<1>1. p \in Server
  BY EndsPeer
<1>2. wire[c][p] # << >> /\ wire' = [wire EXCEPT ![c][p] = Tail(@)]
  BY DEF ReadMessage
<1> HIDE DEF p
<1>3. /\ wire[c][p] \in Seq(Message) /\ Len(wire[c][p]) <= Capacity
      /\ Tail(wire[c][p]) \in Seq(Message)
      /\ Len(Tail(wire[c][p])) <= Len(wire[c][p])
      /\ m \in Message
      /\ {wire[c][p][i] : i \in 1 .. Len(wire[c][p])} =
           {Tail(wire[c][p])[i] : i \in 1 .. Len(Tail(wire[c][p]))} \union {m}
  <2>1. wire[c][p] \in Seq(Message) /\ wire[c][p] # << >> /\ Len(wire[c][p]) <= Capacity
    BY <1>1, <1>2 DEF TypeOK
  <2> QED BY <2>1, TailOnWire
<1>4. /\ wire' \in [Connection -> [Server -> Seq(Message)]]
      /\ \A d \in Connection, a \in Server :
           /\ Len(wire'[d][a]) <= Capacity
           /\ wire'[d][a] = IF d = c /\ a = p THEN Tail(wire[c][p]) ELSE wire[d][a]
  <2> DEFINE rest == Tail(wire[c][p])
  <2>1. SetsWire(c, p, rest)
    BY <1>2 DEF SetsWire
  <2>2. rest \in Seq(Message) /\ Len(rest) <= Capacity
    BY <1>3, BoundAssumption
  <2> HIDE DEF rest
  <2>3. /\ wire' \in [Connection -> [Server -> Seq(Message)]]
        /\ \A d \in Connection, a \in Server :
             /\ Len(wire'[d][a]) <= Capacity
             /\ wire'[d][a] = IF d = c /\ a = p THEN rest ELSE wire[d][a]
    BY <1>1, <2>1, <2>2, WireSet
  <2> QED BY <2>3 DEF rest
<1>5. OnWire(c, p) = OnWire(c, p)' \union {m}
  <2>1. OnWire(c, p)' = {wire'[c][p][i] : i \in 1 .. Len(wire'[c][p])}
    BY DEF OnWire
  <2>2. OnWire(c, p) = {wire[c][p][i] : i \in 1 .. Len(wire[c][p])}
    BY DEF OnWire
  <2>3. wire'[c][p] = Tail(wire[c][p])
    BY <1>1, <1>4
  <2> HIDE DEF m
  <2> QED BY <1>3, <2>1, <2>2, <2>3
<1>6. \A d \in Connection, a \in Server : ~(d = c /\ a = p) => OnWire(d, a)' = OnWire(d, a)
  BY <1>4 DEF OnWire
<1> HIDE DEF m
<1>7. m \in OnWire(c, p)
  BY <1>5
<1> QED BY <1>3, <1>4, <1>5, <1>6, <1>7 DEF p, m

\* A message arrives and decodes.
LEMMA ReceiveKeeps ==
  ASSUME SessionIInv, NEW c \in Connection, NEW s \in Ends(c), Receive(c, s)
  PROVE  SessionIInv' /\ D!Receive(s)
<1> DEFINE p == Peer(c, s)
           m == Head(wire[c][p])
           X == Arrived(s, m)
<1>1. s \in Server /\ p \in Server /\ s # p /\ Ends(c) = {s, p} /\ Ends(c) = {p, s}
  BY EndsPeer
<1>2. /\ ReadMessage(c, s)
      /\ doc' = [doc EXCEPT ![s] = Applied(X)]
      /\ queue' = [queue EXCEPT ![s] = X \ Applied(X)]
      /\ view' = [view EXCEPT ![s][p] = AfterReceive(s, p, m)]
      /\ UNCHANGED << entries, link, running, garbled, lost >>
  BY DEF Receive
<1>3. /\ wire' \in [Connection -> [Server -> Seq(Message)]]
      /\ \A d \in Connection, a \in Server : Len(wire'[d][a]) <= Capacity
      /\ m \in Message /\ m \in OnWire(c, p)
      /\ \A d \in Connection, a \in Server :
           /\ OnWire(d, a)' \subseteq OnWire(d, a)
           /\ OnWire(d, a) \subseteq OnWire(d, a)' \/
                (d = c /\ a = p /\ OnWire(c, p) = OnWire(c, p)' \union {m})
  BY <1>2, ReadFromWire DEF SessionIInv
<1> HIDE DEF m, p
<1>4. m.has \subseteq doc[p] /\ m.changes \subseteq doc[p] /\ m.has \in SUBSET Id
  BY <1>1, <1>3 DEF SessionIInv, MessagesHeld, Message
<1>5. X = doc[s] \union queue[s] \union m.changes
  BY DEF Arrived
<1> HIDE DEF X
<1>6. X \in SUBSET D!Ids /\ X \in SUBSET Id
  <2>1. D!Ids \subseteq Id
    BY IdsTyped DEF SessionIInv
  <2> QED BY <1>1, <1>4, <1>5, <2>1 DEF SessionIInv, DocsClosed, QueuesKnown
<1>7. /\ Applied(X) \subseteq X
      /\ D!Closed(Applied(X))
      /\ doc[s] \subseteq Applied(X)
  <2>1. doc[s] \subseteq X /\ D!Closed(doc[s])
    BY <1>1, <1>5 DEF SessionIInv, DocsClosed
  <2> QED BY <1>6, <2>1, AppliedClosed DEF SessionIInv, Applied
<1>8. /\ doc' \in [Server -> SUBSET Id] /\ queue' \in [Server -> SUBSET Id]
      /\ \A r \in Server : doc'[r] = IF r = s THEN Applied(X) ELSE doc[r]
      /\ \A r \in Server : queue'[r] = IF r = s THEN X \ Applied(X) ELSE queue[r]
      /\ doc'[s] \union queue'[s] = X
      /\ \A r \in Server : doc[r] \subseteq doc'[r]
      /\ \A r \in Server : doc[r] \union queue[r] \subseteq doc'[r] \union queue'[r]
  BY <1>1, <1>2, <1>5, <1>6, <1>7 DEF SessionIInv, TypeOK
<1>9. /\ view' \in [Server -> [Server -> SyncState]]
      /\ \A a, b \in Server :
           view'[a][b] = IF a = s /\ b = p THEN AfterReceive(s, p, m) ELSE view[a][b]
  <2>1. view[s][p] \in SyncState
    BY <1>1 DEF SessionIInv, TypeOK
  <2>2. AfterReceive(s, p, m) \in SyncState
    BY <1>4, <2>1 DEF AfterReceive, SyncState
  <2>3. TypeOK
    BY DEF SessionIInv
  <2>4. SetsView(s, p, AfterReceive(s, p, m))
    BY <1>2 DEF SetsView
  <2> QED BY <1>1, <2>2, <2>3, <2>4, ViewSet
<1>10. TypeOK'
  BY <1>2, <1>3, <1>8, <1>9 DEF SessionIInv, TypeOK
<1>11. IdsUnique' /\ Numbered' /\ PastsClosed' /\ LostKnown'
  BY <1>2, EntriesKept DEF SessionIInv, LostKnown
<1>12. DocsClosed' /\ QueuesKnown'
  <2>1. \A r \in Server : doc'[r] \subseteq D!Ids /\ queue'[r] \subseteq D!Ids
    BY <1>6, <1>7, <1>8 DEF SessionIInv, DocsClosed, QueuesKnown
  <2>2. \A r \in Server : D!Closed(doc[r])'
    BY <1>2, <1>7, <1>8 DEF SessionIInv, DocsClosed, D!Closed
  <2> QED BY <1>2, <2>1, <2>2, EntriesKept DEF DocsClosed, QueuesKnown
<1>13. MessagesHeld'
  BY <1>3, <1>8 DEF SessionIInv, MessagesHeld
<1>14. \A a, b : Lost(a, b)' = Lost(a, b)
  BY <1>2 DEF Lost
<1>15. \A a, b \in Server : UnderWay(a, b)' \subseteq UnderWay(a, b)
  BY <1>3, InUnderWay, InUnderWayNext DEF Sending, Ends
<1>16. ASSUME NEW a \in Server, NEW b \in Server, NEW x \in UnderWay(a, b)
       PROVE  x \in UnderWay(a, b)' \/ (a = p /\ b = s /\ x \in m.changes)
  <2>1. PICK d \in Connection : Ends(d) = {a, b} /\ \E k \in OnWire(d, a) : x \in k.changes
    BY <1>16, InUnderWay DEF Sending
  <2>2. CASE \E k \in OnWire(d, a)' : x \in k.changes
    BY <2>1, <2>2, InUnderWayNext DEF Sending, Ends
  <2>3. CASE d = c /\ a = p /\ x \in m.changes
    BY <1>1, <2>1, <2>3
  <2> QED BY <1>3, <2>1, <2>2, <2>3
<1>17. BelievedThere'
  <2> SUFFICES ASSUME NEW a \in Server, NEW b \in Server \ {a}
               PROVE  /\ view'[a][b].theirs \subseteq doc'[b]
                      /\ view'[a][b].sent \subseteq
                           doc'[b] \union queue'[b] \union UnderWay(a, b)' \union Lost(a, b)'
    BY DEF BelievedThere
  <2>1. /\ view[a][b].theirs \subseteq doc[b]
        /\ view[a][b].sent \subseteq doc[b] \union queue[b] \union UnderWay(a, b) \union Lost(a, b)
    BY DEF SessionIInv, BelievedThere
  <2>2. /\ AfterReceive(s, p, m).theirs = m.has
        /\ AfterReceive(s, p, m).sent = view[s][p].sent \ m.has
    BY DEF AfterReceive
  <2>3. /\ view'[a][b].theirs = view[a][b].theirs \/ (b = p /\ view'[a][b].theirs = m.has)
        /\ view'[a][b].sent \subseteq view[a][b].sent
    BY <1>9, <2>2
  <2>4. m.changes \subseteq doc'[s] \union queue'[s]
    BY <1>5, <1>8
  <2> QED BY <1>4, <1>8, <1>14, <1>16, <2>1, <2>3, <2>4
<1>20. ToldThere'
  <2> SUFFICES ASSUME NEW a \in Server, NEW b \in Server \ {a},
                      view'[a][b].waiting, view'[a][b].theirs # {}
               PROVE  view'[a][b].told \subseteq
                        doc'[b] \union queue'[b] \union UnderWay(a, b)' \union Lost(a, b)'
    BY DEF ToldThere
  <2>1. ~AfterReceive(s, p, m).waiting
    BY DEF AfterReceive
  <2>2. view'[a][b] = view[a][b]
    BY <1>9, <2>1
  <2>3. view[a][b].told \subseteq doc[b] \union queue[b] \union UnderWay(a, b) \union Lost(a, b)
    BY <2>2 DEF SessionIInv, ToldThere
  <2>4. m.changes \subseteq doc'[s] \union queue'[s]
    BY <1>5, <1>8
  <2> QED BY <1>8, <1>14, <1>16, <2>2, <2>3, <2>4
<1>21. QueueWaits'
  <2> SUFFICES ASSUME NEW r \in Server, NEW e \in entries, e.id \in queue'[r],
                      e.past \subseteq doc'[r] \union queue'[r]
               PROVE  FALSE
    BY <1>2 DEF QueueWaits
  <2>1. CASE r = s
    <3>1. e.id \in X \ Applied(X) /\ e.past \subseteq X
      BY <1>8, <2>1
    <3>2. Past(e.id) = e.past
      BY PastOf DEF SessionIInv
    <3> QED BY <3>1, <3>2 DEF Applied
  <2>2. CASE r # s
    BY <1>8, <2>2 DEF SessionIInv, QueueWaits
  <2> QED BY <2>1, <2>2
<1>18. ReachClosed'
  <2> SUFFICES ASSUME NEW r \in Server PROVE D!Closed(Reach(r))'
    BY DEF ReachClosed
  <2>1. m.changes \subseteq UnderWay(p, s)
    BY <1>1, <1>3, InUnderWay DEF Sending
  <2>2. \A x \in Reach(r) : x \in Reach(r)'
    <3>1. m.changes \subseteq doc'[s] \union queue'[s]
      BY <1>5, <1>8
    <3> QED BY <1>8, <1>14, <1>16, <3>1, InReach, InReachNext
  <2>3. \A x \in Reach(r)' : x \in Reach(r)
    <3>1. doc'[r] \union queue'[r] \subseteq Reach(r)
      BY <1>1, <1>5, <1>7, <1>8, <2>1, InReach
    <3> QED BY <1>14, <1>15, <3>1, InReach, InReachNext
  <2> QED BY <1>2, <2>2, <2>3, ReachClosedKept
<1>19. D!Receive(s)
  <2>1. doc' = [doc EXCEPT ![s] = doc'[s]]
    BY <1>1, <1>2, <1>8
  <2>2. doc'[s] = Applied(X)
    BY <1>1, <1>8
  <2>3. D!Closed(doc'[s]) /\ doc'[s] \subseteq D!Ids /\ doc[s] \subseteq doc'[s]
    BY <1>6, <1>7, <2>2
  <2> QED BY <1>2, <2>1, <2>3 DEF D!Receive
<1> QED BY <1>10, <1>11, <1>12, <1>13, <1>17, <1>20, <1>21, <1>18, <1>19 DEF SessionIInv

\* Messages that are on the wire no longer, and have not been read, are lost
\* with everything they carry; the sync states may be reset.
LEMMA LossKeeps ==
  ASSUME SessionIInv, TypeOK',
         UNCHANGED << entries, doc, queue >>,
         \A a, b \in Server : view'[a][b] = view[a][b] \/ view'[a][b] = NewSyncState,
         \A d \in Connection, a \in Server : OnWire(d, a)' \subseteq OnWire(d, a),
         lost \subseteq lost',
         \A d \in Connection : \A a \in Ends(d) : \A m \in OnWire(d, a) :
           m \in OnWire(d, a)' \/ m.changes \subseteq Lost(a, Peer(d, a))',
         \A n \in lost' :
           \/ n \in lost \/ n.carried = Nothing
           \/ \E d \in Connection : \E a \in Ends(d) : \E m \in OnWire(d, a) :
                n.from = a /\ n.to = Peer(d, a) /\ n.carried \in m.changes
  PROVE  SessionIInv'
<1>1. /\ IdsUnique' /\ Numbered' /\ PastsClosed' /\ DocsClosed' /\ QueuesKnown'
      /\ QueueWaits' /\ D!Ids' = D!Ids
  BY EntriesKept DEF SessionIInv, DocsClosed, QueuesKnown, QueueWaits
<1>2. MessagesHeld'
  BY DEF SessionIInv, MessagesHeld
<1>3. \A a, b : Lost(a, b) \subseteq Lost(a, b)'
  BY InLost, InLostNext
<1>4. \A a, b \in Server : UnderWay(a, b)' \subseteq UnderWay(a, b)
  BY InUnderWay, InUnderWayNext DEF Sending, Ends
<1>5. ASSUME NEW a \in Server, NEW b \in Server, NEW x \in UnderWay(a, b)
      PROVE  x \in UnderWay(a, b)' \union Lost(a, b)'
  <2>1. PICK d \in Connection : Ends(d) = {a, b} /\ \E m \in OnWire(d, a) : x \in m.changes
    BY <1>5, InUnderWay DEF Sending
  <2>2. PICK m \in OnWire(d, a) : x \in m.changes
    BY <2>1
  <2>3. a \in Ends(d) /\ b = Peer(d, a)
    BY <2>1, EndsAre
  <2>4. CASE m \in OnWire(d, a)'
    BY <2>1, <2>2, <2>4, InUnderWayNext DEF Sending, Ends
  <2>5. CASE m.changes \subseteq Lost(a, Peer(d, a))'
    BY <2>2, <2>3, <2>5
  <2> QED BY <2>2, <2>3, <2>4, <2>5
<1>6. ASSUME NEW n \in lost', n \notin lost, n.carried # Nothing
      PROVE  /\ n.from \in Server /\ n.to \in Server
             /\ n.carried \in UnderWay(n.from, n.to)
             /\ n.carried \in D!Ids
  <2>1. PICK d \in Connection : \E a \in Ends(d) : \E m \in OnWire(d, a) :
          n.from = a /\ n.to = Peer(d, a) /\ n.carried \in m.changes
    BY <1>6
  <2>2. PICK a \in Ends(d) : \E m \in OnWire(d, a) :
          n.from = a /\ n.to = Peer(d, a) /\ n.carried \in m.changes
    BY <2>1
  <2>3. a \in Server /\ Peer(d, a) \in Server /\ Ends(d) = {a, Peer(d, a)}
    BY EndsPeer
  <2>4. \A m \in OnWire(d, a) : m.changes \subseteq doc[a] /\ doc[a] \subseteq D!Ids
    BY <2>3 DEF SessionIInv, MessagesHeld, DocsClosed
  <2> QED BY <2>2, <2>3, <2>4, InUnderWay DEF Sending
<1>7. LostKnown'
  BY <1>1, <1>6 DEF SessionIInv, LostKnown
<1>8. ASSUME NEW a \in Server, NEW b \in Server, NEW x \in Lost(a, b)'
      PROVE  x \in UnderWay(a, b) \union Lost(a, b) \union {Nothing}
  BY <1>6, <1>8, InLost, InLostNext
<1>9. BelievedThere'
  <2> SUFFICES ASSUME NEW a \in Server, NEW b \in Server \ {a}
               PROVE  /\ view'[a][b].theirs \subseteq doc[b]
                      /\ view'[a][b].sent \subseteq
                           doc[b] \union queue[b] \union UnderWay(a, b)' \union Lost(a, b)'
    BY DEF BelievedThere
  <2>1. /\ view[a][b].theirs \subseteq doc[b]
        /\ view[a][b].sent \subseteq doc[b] \union queue[b] \union UnderWay(a, b) \union Lost(a, b)
    BY DEF SessionIInv, BelievedThere
  <2>2. NewSyncState.theirs = {} /\ NewSyncState.sent = {}
    BY DEF NewSyncState
  <2>3. \/ view'[a][b].theirs = {} /\ view'[a][b].sent = {}
        \/ view'[a][b] = view[a][b]
    BY <2>2
  <2> QED BY <1>3, <1>5, <2>1, <2>3
<1>11. ToldThere'
  <2> SUFFICES ASSUME NEW a \in Server, NEW b \in Server \ {a},
                      view'[a][b].waiting, view'[a][b].theirs # {}
               PROVE  view'[a][b].told \subseteq
                        doc[b] \union queue[b] \union UnderWay(a, b)' \union Lost(a, b)'
    BY DEF ToldThere
  <2>1. ~NewSyncState.waiting
    BY DEF NewSyncState
  <2>2. view'[a][b] = view[a][b]
    BY <2>1
  <2>3. view[a][b].told \subseteq doc[b] \union queue[b] \union UnderWay(a, b) \union Lost(a, b)
    BY <2>2 DEF SessionIInv, ToldThere
  <2> QED BY <1>3, <1>5, <2>2, <2>3
<1>10. ReachClosed'
  <2> SUFFICES ASSUME NEW r \in Server PROVE D!Closed(Reach(r))'
    BY DEF ReachClosed
  <2>1. \A x \in Reach(r) : x \in Reach(r)'
    BY <1>3, <1>5, InReach, InReachNext
  <2>2. \A x \in Reach(r)' : x \in Reach(r) \union {Nothing}
    BY <1>4, <1>8, InReach, InReachNext
  <2> QED BY <2>1, <2>2, ReachClosedKept
<1> QED BY <1>1, <1>2, <1>7, <1>9, <1>11, <1>10 DEF SessionIInv

\* A message arrives and does not decode: the sync state is forgotten.
LEMMA ReceiveGarbledKeeps ==
  ASSUME SessionIInv, NEW c \in Connection, NEW s \in Ends(c), ReceiveGarbled(c, s)
  PROVE  SessionIInv'
<1> DEFINE p == Peer(c, s)
           m == Head(wire[c][p])
<1>1. s \in Server /\ p \in Server /\ s # p /\ p \in Ends(c) /\ Peer(c, p) = s
  BY EndsPeer
<1>2. /\ ReadMessage(c, s)
      /\ view' = [view EXCEPT ![s][p] = NewSyncState]
      /\ lost' = Losing(p, s, {m})
      /\ garbled' = garbled + 1
      /\ UNCHANGED << entries, doc, queue, link, running >>
  BY DEF ReceiveGarbled, documents
<1>3. /\ wire' \in [Connection -> [Server -> Seq(Message)]]
      /\ \A d \in Connection, a \in Server : Len(wire'[d][a]) <= Capacity
      /\ m \in Message /\ m \in OnWire(c, p)
      /\ \A d \in Connection, a \in Server :
           /\ OnWire(d, a)' \subseteq OnWire(d, a)
           /\ OnWire(d, a) \subseteq OnWire(d, a)' \/
                (d = c /\ a = p /\ OnWire(c, p) = OnWire(c, p)' \union {m})
  BY <1>2, ReadFromWire DEF SessionIInv
<1> HIDE DEF m, p
<1>4. /\ view' \in [Server -> [Server -> SyncState]]
      /\ \A a, b \in Server : view'[a][b] = view[a][b] \/ view'[a][b] = NewSyncState
  <2>1. NewSyncState \in SyncState
    BY DEF NewSyncState, SyncState
  <2>2. TypeOK
    BY DEF SessionIInv
  <2>3. /\ view' \in [Server -> [Server -> SyncState]]
        /\ \A a, b \in Server : view'[a][b] = IF a = s /\ b = p THEN NewSyncState ELSE view[a][b]
    <3>1. SetsView(s, p, NewSyncState)
      BY <1>2 DEF SetsView
    <3> QED BY <1>1, <2>1, <2>2, <3>1, ViewSet
  <2> QED BY <2>3
<1>5. TypeOK'
  <2>1. m.changes \subseteq Id
    BY <1>3 DEF Message
  <2>2. lost' \subseteq [from : Server, to : Server, carried : Id \union {Nothing}]
    BY <1>1, <1>2, <2>1, LosingTyped DEF SessionIInv
  <2>3. garbled' \in Nat
    BY <1>2 DEF SessionIInv, TypeOK
  <2>4. UNCHANGED << entries, doc, queue, link, running >>
    BY <1>2
  <2> QED BY <1>3, <1>4, <2>2, <2>3, <2>4 DEF SessionIInv, TypeOK
<1>6. /\ lost \subseteq lost'
      /\ \A x \in m.changes : [from |-> p, to |-> s, carried |-> x] \in lost'
      /\ \A n \in lost' :
           \/ n \in lost
           \/ n.from = p /\ n.to = s /\ (n.carried = Nothing \/ n.carried \in m.changes)
  BY <1>2, LosingAdds
<1>7. m.changes \subseteq Lost(p, s)'
  <2> SUFFICES ASSUME NEW x \in m.changes PROVE x \in Lost(p, s)'
    OBVIOUS
  <2>1. [from |-> p, to |-> s, carried |-> x] \in lost'
    BY <1>6
  <2> QED BY <2>1, InLostNext
<1>8. \A d \in Connection : \A a \in Ends(d) : \A k \in OnWire(d, a) :
        k \in OnWire(d, a)' \/ k.changes \subseteq Lost(a, Peer(d, a))'
  <2> SUFFICES ASSUME NEW d \in Connection, NEW a \in Ends(d), NEW k \in OnWire(d, a),
                      k \notin OnWire(d, a)'
               PROVE  k.changes \subseteq Lost(a, Peer(d, a))'
    OBVIOUS
  <2>1. a \in Server
    BY EndsPeer
  <2>2. d = c /\ a = p /\ k = m
    BY <1>3, <2>1
  <2> QED BY <1>1, <1>7, <2>2
<1>9. \A n \in lost' :
        \/ n \in lost \/ n.carried = Nothing
        \/ \E d \in Connection : \E a \in Ends(d) : \E k \in OnWire(d, a) :
             n.from = a /\ n.to = Peer(d, a) /\ n.carried \in k.changes
  BY <1>1, <1>3, <1>6
<1> QED BY <1>2, <1>3, <1>4, <1>5, <1>6, <1>8, <1>9, LossKeeps

\* A connection breaks, and what was on its way is lost.
LEMMA BreakKeeps ==
  ASSUME SessionIInv, NEW c \in Connection, Break(c)
  PROVE  SessionIInv'
<1> DEFINE d == Dialer[c]
           l == Listener[c]
<1>1. /\ d \in Server /\ l \in Server /\ d # l /\ Ends(c) = {d, l}
      /\ Peer(c, d) = l /\ Peer(c, l) = d
  BY ConnectionAssumption DEF Ends, Peer
<1>2. PICK i \in 0 .. Len(wire[c][d]), j \in 0 .. Len(wire[c][l]) :
        /\ wire' = [wire EXCEPT ![c][d] = SubSeq(@, 1, i), ![c][l] = SubSeq(@, 1, j)]
        /\ lost' = lost \union Losing(d, l, Beyond(wire[c][d], i))
                        \union Losing(l, d, Beyond(wire[c][l], j))
  BY DEF Break
<1>3. /\ link' = [link EXCEPT ![c] = "broken"]
      /\ UNCHANGED << entries, doc, queue, view, running, garbled >>
  BY DEF Break, documents
<1> HIDE DEF d, l
<1>4. /\ SubSeq(wire[c][d], 1, i) \in Seq(Message)
      /\ SubSeq(wire[c][l], 1, j) \in Seq(Message)
      /\ Len(SubSeq(wire[c][d], 1, i)) <= Len(wire[c][d])
      /\ Len(SubSeq(wire[c][l], 1, j)) <= Len(wire[c][l])
      /\ OnWire(c, d) = {SubSeq(wire[c][d], 1, i)[k] : k \in 1 .. Len(SubSeq(wire[c][d], 1, i))}
                          \union Beyond(wire[c][d], i)
      /\ OnWire(c, l) = {SubSeq(wire[c][l], 1, j)[k] : k \in 1 .. Len(SubSeq(wire[c][l], 1, j))}
                          \union Beyond(wire[c][l], j)
  <2>1. wire[c][d] \in Seq(Message) /\ wire[c][l] \in Seq(Message)
    BY <1>1 DEF SessionIInv, TypeOK
  <2> QED BY <2>1, CutOnWire DEF OnWire
<1>5. /\ wire' \in [Connection -> [Server -> Seq(Message)]]
      /\ wire'[c][d] = SubSeq(wire[c][d], 1, i)
      /\ wire'[c][l] = SubSeq(wire[c][l], 1, j)
      /\ \A e \in Connection, a \in Server :
           e # c \/ (a # d /\ a # l) => wire'[e][a] = wire[e][a]
  BY <1>1, <1>2, <1>4 DEF SessionIInv, TypeOK
<1>6. \A e \in Connection, a \in Server : Len(wire'[e][a]) <= Capacity
  <2>1. \A e \in Connection, a \in Server : Len(wire[e][a]) <= Capacity
    BY DEF SessionIInv, TypeOK
  <2>2. /\ Len(SubSeq(wire[c][d], 1, i)) \in Nat /\ Len(SubSeq(wire[c][l], 1, j)) \in Nat
        /\ Len(wire[c][d]) \in Nat /\ Len(wire[c][l]) \in Nat /\ Capacity \in Nat
    BY <1>1, <1>4, BoundAssumption DEF SessionIInv, TypeOK
  <2>3. Len(wire'[c][d]) <= Capacity /\ Len(wire'[c][l]) <= Capacity
    BY <1>1, <1>4, <1>5, <2>1, <2>2
  <2> QED BY <1>5, <2>1, <2>3
<1>7. /\ OnWire(c, d) = OnWire(c, d)' \union Beyond(wire[c][d], i)
      /\ OnWire(c, l) = OnWire(c, l)' \union Beyond(wire[c][l], j)
      /\ \A e \in Connection, a \in Server :
           e # c \/ (a # d /\ a # l) => OnWire(e, a)' = OnWire(e, a)
  <2>1. /\ OnWire(c, d)' = {wire'[c][d][k] : k \in 1 .. Len(wire'[c][d])}
        /\ OnWire(c, l)' = {wire'[c][l][k] : k \in 1 .. Len(wire'[c][l])}
    BY DEF OnWire
  <2>2. \A e \in Connection, a \in Server :
          e # c \/ (a # d /\ a # l) => OnWire(e, a)' = OnWire(e, a)
    BY <1>5 DEF OnWire
  <2> QED BY <1>4, <1>5, <2>1, <2>2
<1>8. /\ lost \subseteq lost'
      /\ \A m \in Beyond(wire[c][d], i) : \A x \in m.changes :
           [from |-> d, to |-> l, carried |-> x] \in lost'
      /\ \A m \in Beyond(wire[c][l], j) : \A x \in m.changes :
           [from |-> l, to |-> d, carried |-> x] \in lost'
      /\ \A n \in lost' :
           \/ n \in lost
           \/ n.carried = Nothing
           \/ /\ n.from = d /\ n.to = l
              /\ \E m \in Beyond(wire[c][d], i) : n.carried \in m.changes
           \/ /\ n.from = l /\ n.to = d
              /\ \E m \in Beyond(wire[c][l], j) : n.carried \in m.changes
  BY <1>2, LosingAdds
<1>9. TypeOK'
  <2>1. \A m \in OnWire(c, d) \union OnWire(c, l) : m.changes \subseteq Id
    <3>1. /\ \A k \in 1 .. Len(wire[c][d]) : wire[c][d][k] \in Message
          /\ \A k \in 1 .. Len(wire[c][l]) : wire[c][l][k] \in Message
      BY <1>1, ElementOfSeq DEF SessionIInv, TypeOK
    <3> QED BY <3>1 DEF OnWire, Message
  <2>2. lost' \subseteq [from : Server, to : Server, carried : Id \union {Nothing}]
    <3>1. Losing(d, l, Beyond(wire[c][d], i)) \subseteq
            [from : Server, to : Server, carried : Id \union {Nothing}]
      BY <1>1, <1>7, <2>1, LosingTyped DEF SessionIInv
    <3>2. Losing(l, d, Beyond(wire[c][l], j)) \subseteq
            [from : Server, to : Server, carried : Id \union {Nothing}]
      BY <1>1, <1>7, <2>1, LosingTyped DEF SessionIInv
    <3> QED BY <1>2, <3>1, <3>2 DEF SessionIInv, TypeOK
  <2> QED BY <1>3, <1>5, <1>6, <2>2 DEF SessionIInv, TypeOK
<1>10. /\ \A m \in Beyond(wire[c][d], i) : m.changes \subseteq Lost(d, l)'
       /\ \A m \in Beyond(wire[c][l], j) : m.changes \subseteq Lost(l, d)'
  <2>1. ASSUME NEW a, NEW b, NEW x, [from |-> a, to |-> b, carried |-> x] \in lost'
        PROVE  x \in Lost(a, b)'
    BY <2>1, InLostNext
  <2> QED BY <1>8, <2>1
<1>11. \A e \in Connection : \A a \in Ends(e) : \A m \in OnWire(e, a) :
         m \in OnWire(e, a)' \/ m.changes \subseteq Lost(a, Peer(e, a))'
  <2> SUFFICES ASSUME NEW e \in Connection, NEW a \in Ends(e), NEW m \in OnWire(e, a),
                      m \notin OnWire(e, a)'
               PROVE  m.changes \subseteq Lost(a, Peer(e, a))'
    OBVIOUS
  <2>1. a \in Server
    BY EndsPeer
  <2>2. e = c /\ (a = d \/ a = l)
    BY <1>7, <2>1
  <2> QED BY <1>1, <1>7, <1>10, <2>2
<1>12. \A n \in lost' :
         \/ n \in lost \/ n.carried = Nothing
         \/ \E e \in Connection : \E a \in Ends(e) : \E m \in OnWire(e, a) :
              n.from = a /\ n.to = Peer(e, a) /\ n.carried \in m.changes
  BY <1>1, <1>7, <1>8
<1>13. \A e \in Connection, a \in Server : OnWire(e, a)' \subseteq OnWire(e, a)
  BY <1>7
<1> QED BY <1>3, <1>8, <1>9, <1>11, <1>12, <1>13, LossKeeps

-----------------------------------------------------------------------------
(***************************************************************************)
(* The invariant and what follows from it.                                 *)
(***************************************************************************)

\* Every server starts with the one change of its own document.
LEMMA InitSessionIInv == Init => SessionIInv /\ D!Init
<1> SUFFICES ASSUME Init PROVE SessionIInv /\ D!Init
  OBVIOUS
<1>1. /\ entries = {[id |-> s, past |-> {}] : s \in Server}
      /\ doc = [s \in Server |-> {s}]
      /\ queue = [s \in Server |-> {}]
      /\ view = [s \in Server |-> [p \in Server |-> NewSyncState]]
      /\ wire = [c \in Connection |-> [s \in Server |-> << >>]]
      /\ lost = {}
  BY DEF Init
<1>2. /\ \A e \in entries : e.id \in Server /\ e.past = {}
      /\ D!Ids = Server
      /\ IdsUnique
  <2>1. \A e \in entries : \E s \in Server : e = [id |-> s, past |-> {}]
    BY <1>1
  <2>2. \A s \in Server : [id |-> s, past |-> {}] \in entries /\ [id |-> s, past |-> {}].id = s
    BY <1>1
  <2>3. D!Ids \subseteq Server
    BY <2>1 DEF D!Ids
  <2>4. Server \subseteq D!Ids
    <3> SUFFICES ASSUME NEW s \in Server PROVE s \in D!Ids
      OBVIOUS
    <3> QED BY <2>2 DEF D!Ids
  <2> QED BY <2>1, <2>3, <2>4 DEF IdsUnique
<1>3. TypeOK
  <2>1. NewSyncState \in SyncState
    BY DEF NewSyncState, SyncState
  <2>2. entries \subseteq [id : Id, past : SUBSET Id]
    BY <1>1 DEF Id
  <2>3. Len(<< >>) <= Capacity
    BY BoundAssumption
  <2> QED BY <1>1, <2>1, <2>2, <2>3 DEF Init, TypeOK, Id
<1>4. Numbered
  <2>1. Appended = {}
    BY <1>2 DEF Appended, D!Ids
  <2>2. 1 .. 0 = {}
    OBVIOUS
  <2> QED BY <2>1, <2>2 DEF Numbered
<1>5. \A X : D!Closed(X)
  BY <1>2 DEF D!Closed
<1>6. PastsClosed /\ DocsClosed /\ QueuesKnown /\ LostKnown /\ ReachClosed
  BY <1>1, <1>2, <1>5 DEF PastsClosed, DocsClosed, QueuesKnown, LostKnown, ReachClosed
<1>7. MessagesHeld
  BY <1>1 DEF MessagesHeld, OnWire
<1>8. BelievedThere /\ ToldThere /\ QueueWaits
  BY <1>1 DEF BelievedThere, ToldThere, QueueWaits, NewSyncState
<1>9. D!Init
  BY <1>1, <1>2, <1>5 DEF D!Init
<1> QED BY <1>2, <1>3, <1>4, <1>6, <1>7, <1>8, <1>9 DEF SessionIInv

\* Every step keeps the invariant and is a step of Delivery or changes neither
\* the changes nor a document.
LEMMA NextSessionIInv ==
  SessionIInv /\ [Next]_vars => SessionIInv' /\ [D!Next]_<< entries, doc >>
<1> SUFFICES ASSUME SessionIInv, [Next]_vars
             PROVE  SessionIInv' /\ (D!Next \/ UNCHANGED << entries, doc >>)
  OBVIOUS
<1>1. ASSUME NEW s \in Server, Update(s) PROVE SessionIInv' /\ D!Next
  BY <1>1, UpdateKeeps DEF D!Next
<1>2. ASSUME NEW c \in Connection, Open(c) PROVE SessionIInv' /\ UNCHANGED << entries, doc >>
  BY <1>2, OpenKeeps DEF Open, documents
<1>3. ASSUME NEW c \in Connection, Break(c) PROVE SessionIInv' /\ UNCHANGED << entries, doc >>
  BY <1>3, BreakKeeps DEF Break, documents
<1>4. ASSUME NEW c \in Connection, NEW s \in Ends(c), Generate(c, s)
      PROVE  SessionIInv' /\ UNCHANGED << entries, doc >>
  BY <1>4, GenerateKeeps DEF Generate, documents
<1>5. ASSUME NEW c \in Connection, NEW s \in Ends(c), Receive(c, s)
      PROVE  SessionIInv' /\ D!Next
  BY <1>5, ReceiveKeeps, EndsPeer DEF D!Next
<1>6. ASSUME NEW c \in Connection, NEW s \in Ends(c), ReceiveGarbled(c, s)
      PROVE  SessionIInv' /\ UNCHANGED << entries, doc >>
  BY <1>6, ReceiveGarbledKeeps DEF ReceiveGarbled, documents
<1>7. ASSUME NEW c \in Connection, NEW s \in Ends(c), EndSession(c, s)
      PROVE  SessionIInv' /\ UNCHANGED << entries, doc >>
  BY <1>7, EndSessionKeeps DEF EndSession, documents
<1>8. CASE UNCHANGED vars
  <2>1. UNCHANGED << entries, doc, queue, view, link, running, wire, garbled, lost >>
    BY <1>8 DEF vars, documents
  <2>2. TypeOK'
    BY <2>1 DEF SessionIInv, TypeOK
  <2> QED BY <2>1, <2>2, TrafficUnchanged
<1> QED BY <1>1, <1>2, <1>3, <1>4, <1>5, <1>6, <1>7, <1>8 DEF Next

\* The invariant behind what sync states believe and where gaps come from.
THEOREM SessionInvariance == Spec => []SessionIInv
BY InitSessionIInv, NextSessionIInv, PTL DEF Spec

\* Documents, queues, sync states, wires and losses keep their types, and no
\* direction of a connection ever holds more than its capacity.
THEOREM SessionTypeCorrect == Spec => []TypeOK
<1>1. SessionIInv => TypeOK
  BY DEF SessionIInv
<1> QED BY <1>1, SessionInvariance, PTL

\* Whatever a sync state says of its peer is so: what was put down as sent is
\* there, on its way on some connection, or was lost.
THEOREM BeliefsHold == Spec => []BelievedThere
<1>1. SessionIInv => BelievedThere
  BY DEF SessionIInv
<1> QED BY <1>1, SessionInvariance, PTL

\* What a change in a queue waits for is on its way or was lost: every message
\* that brings a change has been preceded, on some connection, by its past.
THEOREM GapsAreUnderWay == Spec => []GapsUnderWay
<1>1. SessionIInv => GapsUnderWay
  <2> SUFFICES ASSUME SessionIInv, NEW s \in Server, NEW x \in queue[s],
                      NEW y \in Past(x), y \notin doc[s] \union queue[s]
               PROVE  \E p \in Server \ {s} : y \in UnderWay(p, s) \union Lost(p, s)
    BY DEF GapsUnderWay
  <2>1. PICK e \in entries : e.id = x
    BY DEF SessionIInv, QueuesKnown, D!Ids
  <2>2. Past(x) = e.past
    BY <2>1, PastOf DEF SessionIInv
  <2>3. x \in Reach(s) /\ D!Closed(Reach(s))
    BY InReach DEF SessionIInv, ReachClosed
  <2>4. y \in Reach(s)
    BY <2>1, <2>2, <2>3 DEF D!Closed
  <2> QED BY <2>4, InReach
<1> QED BY <1>1, SessionInvariance, PTL

\* A server that has nothing to say to a peer it has heard from, and of whose
\* messages none is on its way and none was lost, has a peer that has all it has.
THEOREM SilenceIsDelivery == Spec => []SilenceMeansDelivered
<1>1. SessionIInv => SilenceMeansDelivered
  <2> SUFFICES ASSUME SessionIInv, NEW s \in Server, NEW p \in Server \ {s},
                      Silent(s, p), Lost(s, p) = {}
               PROVE  doc[s] \subseteq doc[p]
    BY DEF SilenceMeansDelivered
  <2>1. /\ view[s][p].theirs # {} /\ view[s][p].told = doc[s]
        /\ view[s][p].waiting \/ view[s][p].theirs = doc[s]
    BY DEF Silent, HasMessage
  <2>2. CASE view[s][p].theirs = doc[s]
    BY <2>2 DEF SessionIInv, BelievedThere
  <2>3. CASE view[s][p].waiting
    <3>1. UnderWay(s, p) = {}
      <4>1. \A c \in Connection : Ends(c) = {s, p} => OnWire(c, s) = {}
        <5> SUFFICES ASSUME NEW c \in Connection, Ends(c) = {s, p} PROVE OnWire(c, s) = {}
          OBVIOUS
        <5>1. wire[c][s] = << >>
          BY DEF Silent
        <5> QED BY <5>1 DEF OnWire
      <4> QED BY <4>1, InUnderWay DEF Sending
    <3>2. doc[s] \subseteq doc[p] \union queue[p]
      BY <2>1, <2>3, <3>1 DEF SessionIInv, ToldThere
    <3> SUFFICES ASSUME NEW x \in doc[s], x \in queue[p] PROVE FALSE
      BY <3>2
    <3>3. PICK e \in entries : e.id = x
      BY DEF SessionIInv, DocsClosed, D!Ids
    <3>4. e.past \subseteq doc[s]
      BY <3>3 DEF SessionIInv, DocsClosed, D!Closed
    <3> QED BY <3>2, <3>3, <3>4 DEF SessionIInv, QueueWaits
  <2> QED BY <2>1, <2>2, <2>3
<1> QED BY <1>1, SessionInvariance, PTL

\* Sessions implement delivery in causal order: whatever connections overtake
\* each other or break, a document holds a change only with its past, for good.
THEOREM SessionsImplementDelivery == Spec => SessionsDeliver
<1>1. Init => D!Init
  BY InitSessionIInv
<1>2. SessionIInv /\ [Next]_vars => [D!Next]_<< entries, doc >>
  BY NextSessionIInv
<1> QED BY <1>1, <1>2, SessionInvariance, PTL DEF Spec, SessionsDeliver, D!Spec
=============================================================================
