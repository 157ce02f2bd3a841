-------------------------------- MODULE Session --------------------------------
(***************************************************************************)
(* Peer sessions (accure-server/src/peer.rs): connections between servers, *)
(* each with an outbound task that generates sync messages and an inbound  *)
(* loop that applies them.  The Automerge sync state of a peer lives in    *)
(* peer_sync_states, under the peer's name: it outlives the connection, a  *)
(* second connection with the same peer works on the same state, and       *)
(* nothing resets it but a message that does not decode.                   *)
(*                                                                         *)
(* Automerge is external.  Of a sync state (automerge::sync::State) the    *)
(* model keeps what decides whether a message is generated and with which  *)
(* changes: the peer's last heads, the changes sent and not yet            *)
(* acknowledged, our heads in the last message, and whether that message   *)
(* is unanswered.  Heads stand for all the changes they come after, and    *)
(* no change is left out because a Bloom filter wrongly holds it.          *)
(***************************************************************************)
EXTENDS Naturals, Sequences, FiniteSets

CONSTANTS
  Server,
  Connection,   \* bound: the connections that can be made, each once
  Dialer,       \* the server that dials it (dial)
  Listener,     \* the server that accepts it (listen)
  Capacity,     \* messages of one direction on their way: channel and socket
  MaxAppends,   \* bound: changes the servers' clients bring about
  MaxFaults     \* bound: connections that break and messages that do not decode

ASSUME ConnectionAssumption ==
  /\ Dialer \in [Connection -> Server]
  /\ Listener \in [Connection -> Server]
  /\ \A c \in Connection : Dialer[c] # Listener[c]
\* Names of servers are not numbers of changes.
ASSUME NameAssumption == Server \intersect Nat = {}
ASSUME BoundAssumption ==
  Capacity \in Nat \ {0} /\ MaxAppends \in Nat /\ MaxFaults \in Nat

VARIABLES
  entries,   \* every change so far with the changes its author had applied
  doc,       \* the changes each server's document has applied
  queue,     \* those it has received and keeps until their past arrives
  view,      \* State.peer_sync_states
  link,      \* of each connection: "unused", "up" or "broken"
  running,   \* the ends whose run_session has not returned
  wire,      \* the messages of either end that the other has not read
  garbled,   \* how many messages did not decode
  lost       \* what messages that never arrive were carrying

documents == << entries, doc, queue >>
vars == << documents, view, link, running, wire, garbled, lost >>

\* Every server starts with the change its own new_shared_doc makes.
Id == Server \union (1 .. MaxAppends)

\* Carried by every lost message, whatever else it carries.
Nothing == 0

Message == [has : SUBSET Id, changes : SUBSET Id]

(***************************************************************************)
(* An empty set stands for heads not known yet: documents are never empty. *)
(***************************************************************************)
SyncState ==
  [theirs  : SUBSET Id,    \* their_heads
   sent    : SUBSET Id,    \* sent_hashes
   told    : SUBSET Id,    \* last_sent_heads
   waiting : BOOLEAN]      \* in_flight

NewSyncState == [theirs |-> {}, sent |-> {}, told |-> {}, waiting |-> FALSE]

Ends(c) == {Dialer[c], Listener[c]}

Peer(c, s) == IF s = Dialer[c] THEN Listener[c] ELSE Dialer[c]

TypeOK ==
  /\ entries \subseteq [id : Id, past : SUBSET Id]
  /\ doc \in [Server -> SUBSET Id]
  /\ queue \in [Server -> SUBSET Id]
  /\ view \in [Server -> [Server -> SyncState]]
  /\ link \in [Connection -> {"unused", "up", "broken"}]
  /\ running \in [Connection -> SUBSET Server]
  /\ \A c \in Connection : running[c] \subseteq Ends(c)
  /\ \A c \in Connection, s \in Server : Len(wire[c][s]) <= Capacity
  /\ wire \in [Connection -> [Server -> Seq(Message)]]
  /\ garbled \in Nat
  /\ lost \subseteq [from : Server, to : Server, carried : Id \union {Nothing}]

Init ==
  /\ entries = {[id |-> s, past |-> {}] : s \in Server}
  /\ doc = [s \in Server |-> {s}]
  /\ queue = [s \in Server |-> {}]
  /\ view = [s \in Server |-> [p \in Server |-> NewSyncState]]
  /\ link = [c \in Connection |-> "unused"]
  /\ running = [c \in Connection |-> {}]
  /\ wire = [c \in Connection |-> [s \in Server |-> << >>]]
  /\ garbled = 0
  /\ lost = {}

Past(x) == (CHOOSE e \in entries : e.id = x).past

\* What lost becomes when these messages from s to p never arrive.
Losing(s, p, messages) ==
  lost \union [from : {s}, to : {p}, carried : UNION {m.changes : m \in messages}]
       \union (IF messages = {} THEN {} ELSE {[from |-> s, to |-> p, carried |-> Nothing]})

Faults == garbled + Cardinality({c \in Connection : link[c] = "broken"})

-----------------------------------------------------------------------------
(***************************************************************************)
(* A client's command or the integration of a policy makes a change.       *)
(***************************************************************************)
Appended == {e.id : e \in entries} \ Server

Update(s) ==
  /\ Cardinality(Appended) < MaxAppends
  /\ LET x == Cardinality(Appended) + 1
     IN  /\ entries' = entries \union {[id |-> x, past |-> doc[s]]}
         /\ doc' = [doc EXCEPT ![s] = @ \union {x}]
  /\ UNCHANGED << queue, view, link, running, wire, garbled, lost >>

(***************************************************************************)
(* dial connects again only after its own session has ended; the session   *)
(* of an earlier connection may still be running at the other end.  Both   *)
(* ends say hello before anything else, which has no effect on the state.  *)
(***************************************************************************)
SameRoute(c) ==
  {d \in Connection : Dialer[d] = Dialer[c] /\ Listener[d] = Listener[c]}

Open(c) ==
  /\ link[c] = "unused"
  /\ \A d \in SameRoute(c) : Dialer[c] \notin running[d]
  /\ link' = [link EXCEPT ![c] = "up"]
  /\ running' = [running EXCEPT ![c] = Ends(c)]
  /\ UNCHANGED << documents, view, wire, garbled, lost >>

-----------------------------------------------------------------------------
(***************************************************************************)
(* generate_sync_message: nothing as long as our heads are those we told   *)
(* and either the peer has the same or owes an answer; changes go into a   *)
(* message only when the peer's heads are known, and only once.            *)
(*                                                                         *)
(* What the peer has is read off its heads.  Automerge reads what is newer *)
(* than the last common heads off a Bloom filter, which now and then holds *)
(* a change the peer lacks; that one is left out until the peer asks for   *)
(* it by name.  The model assumes a filter without such false positives.   *)
(***************************************************************************)
ChangesFor(s, p) ==
  IF view[s][p].theirs = {}
    THEN {} ELSE doc[s] \ (view[s][p].theirs \union view[s][p].sent)

\* Slip: a message is generated only for heads that are news to the peer.
HasMessage_ToldOnce(s, p) == view[s][p].told # doc[s]

HasMessage(s, p) ==
  \/ view[s][p].told # doc[s]
  \/ ~view[s][p].waiting /\ view[s][p].theirs # doc[s]

AfterGenerate(s, p) ==
  [view[s][p] EXCEPT !.sent = @ \union ChangesFor(s, p), !.told = doc[s], !.waiting = TRUE]

MessageFor(s, p) == [has |-> doc[s], changes |-> ChangesFor(s, p)]

(***************************************************************************)
(* One turn of the outbound task.  The sync state is taken, advanced and   *)
(* put back under the locks; the message then waits for room and for the   *)
(* writer.  Whatever a session still writes to a broken connection is lost.*)
(* The task wakes up every 250 ms by itself, so notify can be left out.    *)
(***************************************************************************)
\* Slips: the message is dropped when there is no room; nothing waits for room.
Generate_TrySend(c, s) ==
  LET p == Peer(c, s)
  IN  /\ s \in running[c]
      /\ HasMessage(s, p)
      /\ view' = [view EXCEPT ![s][p] = AfterGenerate(s, p)]
      /\ wire' = IF link[c] = "up" /\ Len(wire[c][s]) < Capacity
                   THEN [wire EXCEPT ![c][s] = Append(@, MessageFor(s, p))] ELSE wire
      /\ lost' = IF link[c] = "up" THEN lost ELSE Losing(s, p, {MessageFor(s, p)})
      /\ UNCHANGED << documents, link, running, garbled >>

Generate_Unbounded(c, s) ==
  LET p == Peer(c, s)
  IN  /\ s \in running[c]
      /\ link[c] = "up"
      /\ HasMessage(s, p)
      /\ view' = [view EXCEPT ![s][p] = AfterGenerate(s, p)]
      /\ wire' = [wire EXCEPT ![c][s] = Append(@, MessageFor(s, p))]
      /\ UNCHANGED << documents, link, running, garbled, lost >>

Generate(c, s) ==
  LET p == Peer(c, s)
  IN  /\ s \in running[c]
      /\ HasMessage(s, p)
      /\ view' = [view EXCEPT ![s][p] = AfterGenerate(s, p)]
      /\ \/ /\ link[c] = "up"
            /\ Len(wire[c][s]) < Capacity
            /\ wire' = [wire EXCEPT ![c][s] = Append(@, MessageFor(s, p))]
            /\ UNCHANGED lost
         \/ /\ link[c] = "broken"
            /\ lost' = Losing(s, p, {MessageFor(s, p)})
            /\ UNCHANGED wire
      /\ UNCHANGED << documents, link, running, garbled >>

-----------------------------------------------------------------------------
(***************************************************************************)
(* receive_sync_message: a change is applied when its past is there, and   *)
(* kept until then.  What the peer has need not be remembered as sent.     *)
(***************************************************************************)
Arrived(s, m) == doc[s] \union queue[s] \union m.changes

Applied(X) == {x \in X : Past(x) \subseteq X}

AfterReceive(s, p, m) ==
  [theirs  |-> m.has,
   sent    |-> view[s][p].sent \ m.has,
   told    |-> IF m.changes = {} /\ m.has = doc[s] THEN m.has ELSE view[s][p].told,
   waiting |-> FALSE]

ReadMessage(c, s) ==
  /\ s \in running[c]
  /\ wire[c][Peer(c, s)] # << >>
  /\ wire' = [wire EXCEPT ![c][Peer(c, s)] = Tail(@)]

(***************************************************************************)
(* One turn of the inbound loop, under the locks throughout, the rebuild   *)
(* of the core included.                                                   *)
(***************************************************************************)
\* Slips: the sync state is not put back; changes are applied as they come.
Receive_Forgetting(c, s) ==
  /\ ReadMessage(c, s)
  /\ LET p == Peer(c, s)
         m == Head(wire[c][p])
     IN  /\ doc' = [doc EXCEPT ![s] = Applied(Arrived(s, m))]
         /\ queue' = [queue EXCEPT ![s] = Arrived(s, m) \ Applied(Arrived(s, m))]
         /\ view' = [view EXCEPT ![s][p] = NewSyncState]
  /\ UNCHANGED << entries, link, running, garbled, lost >>

Receive_Unordered(c, s) ==
  /\ ReadMessage(c, s)
  /\ LET p == Peer(c, s)
         m == Head(wire[c][p])
     IN  /\ doc' = [doc EXCEPT ![s] = Arrived(s, m)]
         /\ view' = [view EXCEPT ![s][p] = AfterReceive(s, p, m)]
  /\ UNCHANGED << entries, queue, link, running, garbled, lost >>

Receive(c, s) ==
  /\ ReadMessage(c, s)
  /\ LET p == Peer(c, s)
         m == Head(wire[c][p])
     IN  /\ doc' = [doc EXCEPT ![s] = Applied(Arrived(s, m))]
         /\ queue' = [queue EXCEPT ![s] = Arrived(s, m) \ Applied(Arrived(s, m))]
         /\ view' = [view EXCEPT ![s][p] = AfterReceive(s, p, m)]
  /\ UNCHANGED << entries, link, running, garbled, lost >>

\* The state has been taken out of the map and is not put back.
ReceiveGarbled(c, s) ==
  /\ Faults < MaxFaults
  /\ ReadMessage(c, s)
  /\ LET p == Peer(c, s)
     IN  /\ view' = [view EXCEPT ![s][p] = NewSyncState]
         /\ lost' = Losing(p, s, {Head(wire[c][p])})
  /\ garbled' = garbled + 1
  /\ UNCHANGED << documents, link, running >>

-----------------------------------------------------------------------------
(***************************************************************************)
(* The connection breaks; of what is on its way in either direction only a *)
(* first part still arrives.                                               *)
(***************************************************************************)
Beyond(q, k) == {q[i] : i \in k + 1 .. Len(q)}

Break(c) ==
  /\ link[c] = "up"
  /\ Faults < MaxFaults
  /\ link' = [link EXCEPT ![c] = "broken"]
  /\ LET d == Dialer[c]
         l == Listener[c]
     IN  \E i \in 0 .. Len(wire[c][d]), j \in 0 .. Len(wire[c][l]) :
           /\ wire' = [wire EXCEPT ![c][d] = SubSeq(@, 1, i), ![c][l] = SubSeq(@, 1, j)]
           /\ lost' = lost \union Losing(d, l, Beyond(wire[c][d], i))
                           \union Losing(l, d, Beyond(wire[c][l], j))
  /\ UNCHANGED << documents, view, running, garbled >>

\* Reading fails: run_session aborts its tasks and returns.  The slip ends
\* with messages unread.
EndSession_Unread(c, s) ==
  /\ link[c] = "broken"
  /\ s \in running[c]
  /\ running' = [running EXCEPT ![c] = @ \ {s}]
  /\ wire' = [wire EXCEPT ![c][Peer(c, s)] = << >>]
  /\ UNCHANGED << documents, view, link, garbled, lost >>

EndSession(c, s) ==
  /\ link[c] = "broken"
  /\ s \in running[c]
  /\ wire[c][Peer(c, s)] = << >>
  /\ running' = [running EXCEPT ![c] = @ \ {s}]
  /\ UNCHANGED << documents, view, link, wire, garbled, lost >>

Next ==
  \/ \E s \in Server : Update(s)
  \/ \E c \in Connection :
       \/ Open(c)
       \/ Break(c)
       \/ \E s \in Ends(c) :
            Generate(c, s) \/ Receive(c, s) \/ ReceiveGarbled(c, s) \/ EndSession(c, s)

Spec == Init /\ [][Next]_vars

(***************************************************************************)
(* The two tasks of a session go on as long as they can.  Nothing makes a  *)
(* server notice that a connection is broken, dial in time, or a client    *)
(* send commands.                                                          *)
(***************************************************************************)
Fairness ==
  \A c \in Connection, s \in Server :
    /\ WF_vars(s \in Ends(c) /\ Generate(c, s))
    /\ WF_vars(s \in Ends(c) /\ Receive(c, s))

FairSpec == Spec /\ Fairness

-----------------------------------------------------------------------------
UnderWay(s, p) ==
  UNION {UNION {wire[c][s][i].changes : i \in 1 .. Len(wire[c][s])} :
           c \in {d \in Connection : Ends(d) = {s, p}}}

Lost(s, p) == {m.carried : m \in {n \in lost : n.from = s /\ n.to = p}}

(***************************************************************************)
(* Whatever a sync state says of its peer is so: what the peer is said to  *)
(* have it has, and a change it has been sent, on any connection, is       *)
(* there, under way, or was in a message that did not arrive.  The last is *)
(* why reconnecting does not bring it: nobody takes it out of the state.   *)
(***************************************************************************)
BelievedThere ==
  \A s \in Server : \A p \in Server \ {s} :
    /\ view[s][p].theirs \subseteq doc[p]
    /\ view[s][p].sent \subseteq doc[p] \union queue[p] \union UnderWay(s, p) \union Lost(s, p)

(***************************************************************************)
(* Two connections with one peer overtake each other, so changes arrive    *)
(* before their past.  What such a change still waits for is under way on  *)
(* some connection or was lost; it never waits for something nobody has    *)
(* sent.                                                                   *)
(***************************************************************************)
GapsUnderWay ==
  \A s \in Server : \A x \in queue[s] :
    Past(x) \ (doc[s] \union queue[s]) \subseteq
      UNION {UnderWay(p, s) \union Lost(p, s) : p \in Server \ {s}}

(***************************************************************************)
(* What generate_sync_message takes for the end of a conversation is one:  *)
(* when a server has nothing to say to a peer it has heard from, no        *)
(* message of its is on its way there and none was lost, the peer has all  *)
(* that it has, on whatever connections the changes went and through       *)
(* whichever other server they came.                                       *)
(***************************************************************************)
Silent(s, p) ==
  /\ view[s][p].theirs # {}
  /\ ~HasMessage(s, p)
  /\ \A c \in Connection : Ends(c) = {s, p} => wire[c][s] = << >>

SilenceMeansDelivered ==
  \A s \in Server : \A p \in Server \ {s} :
    Silent(s, p) /\ Lost(s, p) = {} => doc[s] \subseteq doc[p]

(***************************************************************************)
(* "changes to data structures drives ACCURE protocol to replicate changes *)
(* among 2 or more server peers" (README.md): once the clients are done    *)
(* and connections no longer come and go, two servers that one connects    *)
(* have the same document, on whatever connections it was sent and however *)
(* often one was broken, provided that no message between them was lost.   *)
(***************************************************************************)
Joined(s, p) == \E c \in Connection : Ends(c) = {s, p} /\ link[c] = "up"

NoLoss(s, p) == \A m \in lost : {m.from, m.to} # {s, p}

PeersAgree ==
  <>[](\A s, p \in Server : Joined(s, p) /\ NoLoss(s, p) => doc[s] = doc[p])

(***************************************************************************)
(* Sessions implement delivery in causal order, without losing what was    *)
(* once delivered, whatever connections break or overtake each other.      *)
(***************************************************************************)
D == INSTANCE Delivery WITH holds <- doc

SessionsDeliver == D!Spec
=============================================================================
