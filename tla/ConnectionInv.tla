----------------------------- MODULE ConnectionInv -----------------------------
(***************************************************************************)
(* The inductive invariant behind AnswersInOrder, SnapshotsCatchUp and     *)
(* NoTraceGaps.                                                            *)
(***************************************************************************)
EXTENDS ConnectionProps

\* A client that is not there yet has nothing.
Fresh ==
  \A c \in Client :
    /\ At(c, "absent") <=> link[c] = "absent"
    /\ link[c] = "absent" => /\ handler[c].own = 0 /\ shown[c] = 0
                             /\ forwarder[c] = [next |-> 0, held |-> 0, running |-> FALSE]
    /\ writing[c] => link[c] # "absent"
    /\ At(c, "gone") => ~writing[c]

\* Frames are lost only when nobody takes them any more.
NothingLeft ==
  \A c \in Client : /\ ~writing[c] => replies[c] = << >>
                    /\ link[c] # "up" => frames[c] = << >>

\* The command in execution has a number, and the reply is its answer.
ReplyAnswers ==
  \A c \in Client :
    /\ handler[c].at \in {"updating", "announcing", "looking", "replying"} => handler[c].heard >= 1
    /\ At(c, "replying") => /\ handler[c].reply.kind # "Trace"
                            /\ handler[c].reply.answers = handler[c].heard

\* Nothing but the event in its hands is between a forwarder and the next one.
HeldIsNext ==
  \A c \in Client : /\ forwarder[c].running => forwarder[c].next >= 1
                    /\ forwarder[c].held # 0 => forwarder[c].next = forwarder[c].held + 1

\* Everything a client was or will be shown has been in the log.
ShownWasLogged ==
  \A c \in Client :
    /\ handler[c].own <= logLen /\ shown[c] <= logLen
    /\ \A i \in StatesAt(Stream(c)) : Stream(c)[i].value <= logLen
    /\ At(c, "replying") => handler[c].reply.value <= logLen

(***************************************************************************)
(* While a command is executed the client's last update has been shown, or *)
(* is in the snapshot that will be, which none before it outdoes.  Without *)
(* the writer the snapshots still do not go back, but some are missing.    *)
(***************************************************************************)
ReplyCatchesUp ==
  \A c \in Client : link[c] = "up" =>
    /\ Rising(StatesAt(Stream(c)), Values(Stream(c)), shown[c])
    /\ IF At(c, "replying") /\ handler[c].reply.kind = "State"
         THEN /\ handler[c].own <= handler[c].reply.value
              /\ shown[c] <= handler[c].reply.value
              /\ \A i \in StatesAt(Stream(c)) : Stream(c)[i].value <= handler[c].reply.value
         ELSE writing[c] /\ handler[c].at \in {"reading", "updating", "replying"} => OwnShown(c)

ConnectionIInv ==
  /\ TypeOK
  /\ Fresh
  /\ NothingLeft
  /\ ReplyAnswers
  /\ HeldIsNext
  /\ ShownWasLogged
  /\ ReplyCatchesUp
  /\ AnswersInOrder
  /\ SnapshotsCatchUp
  /\ NoTraceGaps
=============================================================================
