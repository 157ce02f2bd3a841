------------------------------ MODULE Connection ------------------------------
(***************************************************************************)
(* A server's client connections (accure-server/src/client.rs): for every  *)
(* connection a handler that executes one command at a time, a forwarder   *)
(* that turns events of the server's bus into traces, and a writer that    *)
(* moves what both have put into the reply channel to the socket.          *)
(*                                                                         *)
(* Of the core only the length of State.log is kept: every accepted update *)
(* and every operation of a peer makes it longer, and it is the log_len of *)
(* a snapshot.  Whether an update is accepted depends on rights this       *)
(* module does not know, so both happen.                                   *)
(***************************************************************************)
EXTENDS Naturals, Sequences

CONSTANTS
  Client,
  ReplyCapacity,    \* of the channel to the writer (64 in the program)
  BusCapacity,      \* of the broadcast channel of events (256)
  SocketCapacity,   \* how many frames the socket buffers hold
  MaxCommands,      \* bound: commands per client
  MaxLog            \* bound: peers send operations while the log is shorter

ASSUME CapacityAssumption ==
  /\ {ReplyCapacity, BusCapacity, SocketCapacity} \subseteq Nat \ {0}
  /\ MaxCommands \in Nat /\ MaxLog \in Nat

\* Insert, Delete, Allow and Deny are handled alike, and Subscribe like Snapshot.
Command == {"Update", "Snapshot"}

VARIABLES
  logLen,      \* the length of State.log
  due,         \* traces of integrated peer operations not yet on the bus
  published,   \* how many events the bus has carried
  link,        \* of each client's connection: "absent", "up" or "closed" by the client
  requests,    \* commands on the socket that the handler has not read
  handler,     \* where handle is, how many commands it has read, the log
               \*   length its last update led to and the reply it is about to send
  forwarder,   \* the next event it receives, the one in its hands (0: none)
  replies,     \* the reply channel
  writing,     \* whether the writer still runs (its end closes the channel and
               \*   the server's direction of the socket)
  frames,      \* frames on the socket to the client
  shown        \* log_len of the last snapshot the client has received

server == << logLen, due, published >>
tasks  == << handler, forwarder, replies, writing >>
socket == << link, requests, frames, shown >>
vars   == << server, tasks, socket >>

(***************************************************************************)
(* ServerEvent.  value is a snapshot's log_len or the number of the event  *)
(* a trace reports; answers, which is not in the program, is the number of *)
(* the command a snapshot or error answers (0 for a trace).                *)
(***************************************************************************)
Frame == [kind : {"State", "Error", "Trace"}, answers : Nat, value : Nat]

Trace(n) == [kind |-> "Trace", answers |-> 0, value |-> n]

NoReply == [kind |-> "Error", answers |-> 0, value |-> 0]

Stages == {"absent", "reading", "updating", "announcing", "looking", "replying", "gone"}

TypeOK ==
  /\ server \in Nat \X Nat \X Nat
  /\ link \in [Client -> {"absent", "up", "closed"}]
  /\ requests \in [Client -> Seq(Command)]
  /\ handler \in [Client -> [at : Stages, heard : Nat, own : Nat, reply : Frame]]
  /\ forwarder \in [Client -> [next : Nat, held : Nat, running : BOOLEAN]]
  /\ replies \in [Client -> Seq(Frame)]
  /\ writing \in [Client -> BOOLEAN]
  /\ frames \in [Client -> Seq(Frame)]
  /\ shown \in [Client -> Nat]
  /\ \A c \in Client : Len(replies[c]) <= ReplyCapacity

Init ==
  /\ logLen = 0
  /\ due = 0
  /\ published = 0
  /\ link = [c \in Client |-> "absent"]
  /\ requests = [c \in Client |-> << >>]
  /\ handler = [c \in Client |->
                  [at |-> "absent", heard |-> 0, own |-> 0, reply |-> NoReply]]
  /\ forwarder = [c \in Client |-> [next |-> 0, held |-> 0, running |-> FALSE]]
  /\ replies = [c \in Client |-> << >>]
  /\ writing = [c \in Client |-> FALSE]
  /\ frames = [c \in Client |-> << >>]
  /\ shown = [c \in Client |-> 0]

At(c, stage) == handler[c].at = stage

-----------------------------------------------------------------------------
(***************************************************************************)
(* The handler.  Each step ends where the code waits for a lock, for room  *)
(* in the channel or for a command.                                        *)
(***************************************************************************)
\* A connection is accepted; its forwarder sees the events from now on.
Connect(c) ==
  /\ link[c] = "absent"
  /\ link' = [link EXCEPT ![c] = "up"]
  /\ handler' = [handler EXCEPT ![c].at = "reading"]
  /\ forwarder' = [forwarder EXCEPT ![c] = [next |-> published + 1, held |-> 0, running |-> TRUE]]
  /\ writing' = [writing EXCEPT ![c] = TRUE]
  /\ UNCHANGED << server, replies, requests, frames, shown >>

ReadCommand(c) ==
  /\ At(c, "reading")
  /\ requests[c] # << >>
  /\ requests' = [requests EXCEPT ![c] = Tail(@)]
  /\ handler' = [handler EXCEPT
                   ![c].at = IF Head(requests[c]) = "Update" THEN "updating" ELSE "looking",
                   ![c].heard = @ + 1]
  /\ UNCHANGED << server, forwarder, replies, writing, link, frames, shown >>

\* Under the two locks: Document::update or Policy::update.
Accept(c) ==
  /\ At(c, "updating")
  /\ logLen' = logLen + 1
  /\ handler' = [handler EXCEPT ![c].at = "announcing", ![c].own = logLen + 1]
  /\ UNCHANGED << due, published, forwarder, replies, writing, socket >>

\* Slip: a refusal that is not reported.
Refuse_Silently(c) ==
  /\ At(c, "updating")
  /\ handler' = [handler EXCEPT ![c].at = "reading"]
  /\ UNCHANGED << server, forwarder, replies, writing, socket >>

Refuse(c) ==
  /\ At(c, "updating")
  /\ handler' = [handler EXCEPT
                   ![c].at = "replying",
                   ![c].reply = [kind |-> "Error", answers |-> handler[c].heard, value |-> 0]]
  /\ UNCHANGED << server, forwarder, replies, writing, socket >>

\* Slip: a bounded queue of events instead of a broadcast, with the client's
\* own forwarder to make room in it.
Announce_Waiting(c) ==
  /\ At(c, "announcing")
  /\ published + 1 - forwarder[c].next < BusCapacity
  /\ published' = published + 1
  /\ handler' = [handler EXCEPT ![c].at = "looking"]
  /\ UNCHANGED << logLen, due, forwarder, replies, writing, socket >>

Announce(c) ==
  /\ At(c, "announcing")
  /\ published' = published + 1
  /\ handler' = [handler EXCEPT ![c].at = "looking"]
  /\ UNCHANGED << logLen, due, forwarder, replies, writing, socket >>

\* build_snapshot, under the state lock, taken again; the slip shows the
\* client what it has been shown already.
LookUp_Cached(c) ==
  /\ At(c, "looking")
  /\ handler' = [handler EXCEPT
                   ![c].at = "replying",
                   ![c].reply = [kind |-> "State", answers |-> handler[c].heard, value |-> shown[c]]]
  /\ UNCHANGED << server, forwarder, replies, writing, socket >>

LookUp(c) ==
  /\ At(c, "looking")
  /\ handler' = [handler EXCEPT
                   ![c].at = "replying",
                   ![c].reply = [kind |-> "State", answers |-> handler[c].heard, value |-> logLen]]
  /\ UNCHANGED << server, forwarder, replies, writing, socket >>

\* Slip: one slot too many.
Room_OneMore(c) == Len(replies[c]) <= ReplyCapacity

Room(c) == Len(replies[c]) < ReplyCapacity

\* Slip: waits for room even when the writer has ended.
Reply_Undropped(c) ==
  /\ At(c, "replying")
  /\ Room(c)
  /\ replies' = [replies EXCEPT ![c] = Append(@, handler[c].reply)]
  /\ handler' = [handler EXCEPT ![c].at = "reading", ![c].reply = NoReply]
  /\ UNCHANGED << server, forwarder, writing, socket >>

\* tx.send: waits for room, and does nothing once the writer has ended.
Reply(c) ==
  /\ At(c, "replying")
  /\ \/ /\ writing[c]
        /\ Room(c)
        /\ replies' = [replies EXCEPT ![c] = Append(@, handler[c].reply)]
     \/ /\ ~writing[c]
        /\ UNCHANGED replies
  /\ handler' = [handler EXCEPT ![c].at = "reading", ![c].reply = NoReply]
  /\ UNCHANGED << server, forwarder, writing, socket >>

\* Reading fails: forwarder and writer are aborted.
HangUp(c) ==
  /\ At(c, "reading")
  /\ link[c] = "closed"
  /\ requests[c] = << >>
  /\ handler' = [handler EXCEPT ![c].at = "gone"]
  /\ forwarder' = [forwarder EXCEPT ![c].running = FALSE, ![c].held = 0]
  /\ writing' = [writing EXCEPT ![c] = FALSE]
  /\ replies' = [replies EXCEPT ![c] = << >>]
  /\ UNCHANGED << server, socket >>

-----------------------------------------------------------------------------
(***************************************************************************)
(* The forwarder's loop ends with the first receive that fails, and one    *)
(* fails when more than BusCapacity events were waiting.                   *)
(***************************************************************************)
Receivable(c) ==
  forwarder[c].running /\ forwarder[c].held = 0 /\ forwarder[c].next <= published

Lagged(c) == published - forwarder[c].next >= BusCapacity

\* Slip: goes on with the oldest event the bus still has.
Forward_Skipping(c) ==
  /\ Receivable(c)
  /\ LET n == IF Lagged(c) THEN published - BusCapacity + 1 ELSE forwarder[c].next
     IN  forwarder' = [forwarder EXCEPT ![c].held = n, ![c].next = n + 1]
  /\ UNCHANGED << server, handler, replies, writing, socket >>

Forward(c) ==
  /\ Receivable(c)
  /\ forwarder' =
       IF Lagged(c)
         THEN [forwarder EXCEPT ![c].running = FALSE]
         ELSE [forwarder EXCEPT ![c].held = forwarder[c].next, ![c].next = @ + 1]
  /\ UNCHANGED << server, handler, replies, writing, socket >>

PushTrace(c) ==
  /\ forwarder[c].held # 0
  /\ \/ /\ writing[c]
        /\ Room(c)
        /\ replies' = [replies EXCEPT ![c] = Append(@, Trace(forwarder[c].held))]
        /\ forwarder' = [forwarder EXCEPT ![c].held = 0]
     \/ /\ ~writing[c]
        /\ forwarder' = [forwarder EXCEPT ![c].held = 0, ![c].running = FALSE]
        /\ UNCHANGED replies
  /\ UNCHANGED << server, handler, writing, socket >>

\* A snapshot or a trace may exceed MAX_FRAME.
TooLarge(frame) == frame.kind # "Error"

\* The writer moves one frame, or ends: the client has gone, or write_frame
\* refuses the frame, and then the client's commands are executed unanswered.
Write(c) ==
  /\ writing[c]
  /\ replies[c] # << >>
  /\ \/ /\ link[c] = "up"
        /\ Len(frames[c]) < SocketCapacity
        /\ frames' = [frames EXCEPT ![c] = Append(@, Head(replies[c]))]
        /\ replies' = [replies EXCEPT ![c] = Tail(@)]
        /\ UNCHANGED writing
     \/ /\ link[c] = "closed" \/ TooLarge(Head(replies[c]))
        /\ writing' = [writing EXCEPT ![c] = FALSE]
        /\ replies' = [replies EXCEPT ![c] = << >>]
        /\ UNCHANGED frames
  /\ UNCHANGED << server, handler, forwarder, link, requests, shown >>

-----------------------------------------------------------------------------
(***************************************************************************)
(* The rest of the server: a peer session integrates an operation under    *)
(* the locks and sends its trace to the bus after releasing them.          *)
(***************************************************************************)
PeerIntegrate ==
  /\ logLen < MaxLog
  /\ logLen' = logLen + 1
  /\ due' = due + 1
  /\ UNCHANGED << published, tasks, socket >>

PeerPublish ==
  /\ due > 0
  /\ due' = due - 1
  /\ published' = published + 1
  /\ UNCHANGED << logLen, tasks, socket >>

(***************************************************************************)
(* The client at the other end of the socket.                              *)
(***************************************************************************)
Request(c, cmd) ==
  /\ link[c] = "up"
  /\ handler[c].heard + Len(requests[c]) < MaxCommands
  /\ requests' = [requests EXCEPT ![c] = Append(@, cmd)]
  /\ UNCHANGED << server, tasks, link, frames, shown >>

Take(c) ==
  /\ link[c] = "up"
  /\ frames[c] # << >>
  /\ frames' = [frames EXCEPT ![c] = Tail(@)]
  /\ shown' = [shown EXCEPT ![c] = IF Head(frames[c]).kind = "State"
                                     THEN Head(frames[c]).value ELSE @]
  /\ UNCHANGED << server, tasks, link, requests >>

Close(c) ==
  /\ link[c] = "up"
  /\ link' = [link EXCEPT ![c] = "closed"]
  /\ frames' = [frames EXCEPT ![c] = << >>]
  /\ UNCHANGED << server, tasks, requests, shown >>

HandlerStep(c) ==
  \/ ReadCommand(c) \/ Accept(c) \/ Refuse(c) \/ Announce(c)
  \/ LookUp(c) \/ Reply(c) \/ HangUp(c)

ServerNext ==
  \/ \E c \in Client :
       Connect(c) \/ HandlerStep(c) \/ Forward(c) \/ PushTrace(c) \/ Write(c)
  \/ PeerIntegrate
  \/ PeerPublish

Next ==
  \/ ServerNext
  \/ \E c \in Client :
       (\E cmd \in Command : Request(c, cmd)) \/ Take(c) \/ Close(c)

Spec == Init /\ [][Next]_vars

(***************************************************************************)
(* Fairness: the runtime runs every task that can go on.  The reply        *)
(* channel serves those that wait for room in turn, so a handler or a      *)
(* forwarder for which there is room again and again gets it.  A client    *)
(* that is connected reads its frames; nothing else is expected of it.     *)
(***************************************************************************)
ServerFairness ==
  /\ WF_vars(PeerPublish)
  /\ \A c \in Client :
       /\ WF_vars(HandlerStep(c))
       /\ SF_vars(Reply(c))
       /\ WF_vars(Forward(c))
       /\ SF_vars(PushTrace(c))
       /\ WF_vars(Write(c))

FairSpec == Spec /\ ServerFairness /\ \A c \in Client : WF_vars(Take(c))
=============================================================================
