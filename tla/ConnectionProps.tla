---------------------------- MODULE ConnectionProps ----------------------------
(***************************************************************************)
(* What a client may rely on, and what messages.rs says it may.            *)
(***************************************************************************)
EXTENDS Connection

\* What is on its way to the client, oldest first.
Stream(c) == frames[c] \o replies[c]

AnswersAt(s) == {i \in DOMAIN s : s[i].kind # "Trace"}
StatesAt(s)  == {i \in DOMAIN s : s[i].kind = "State"}
TracesAt(s)  == {i \in DOMAIN s : s[i].kind = "Trace"}

Answered(s) == [i \in DOMAIN s |-> s[i].answers]
Values(s)   == [i \in DOMAIN s |-> s[i].value]

\* Along the positions at, the numbers go up to last, one by one from the first.
InARow(at, number, last) ==
  /\ \A i \in at : number[i] \in 1 .. last
  /\ \A i, j \in at : i < j => number[i] < number[j]
  /\ \A i \in at : \A n \in number[i] .. last : \E j \in at : number[j] = n

\* Along the positions at, the numbers start at low or above and never fall.
Rising(at, number, low) ==
  /\ \A i \in at : low <= number[i]
  /\ \A i, j \in at : i < j => number[i] <= number[j]

(***************************************************************************)
(* Commands are answered one by one in their order, each by one snapshot   *)
(* or one error, whatever traces come in between: what is on its way are   *)
(* the answers to the last commands read, the one being executed excepted. *)
(***************************************************************************)
LastAnswered(c) == IF At(c, "reading") THEN handler[c].heard ELSE handler[c].heard - 1

AnswersInOrder ==
  \A c \in Client :
    writing[c] => InARow(AnswersAt(Stream(c)), Answered(Stream(c)), LastAnswered(c))

(***************************************************************************)
(* The locks are released between an update and the snapshot that answers  *)
(* it, and other clients and peers go on meanwhile; still the snapshots a  *)
(* client receives never go back, and when a command has been answered one *)
(* of them contains the client's own last update.                          *)
(***************************************************************************)
OwnShown(c) ==
  \/ handler[c].own <= shown[c]
  \/ \E i \in StatesAt(Stream(c)) : handler[c].own <= Stream(c)[i].value

SnapshotsCatchUp ==
  \A c \in Client : writing[c] /\ link[c] = "up" =>
    /\ Rising(StatesAt(Stream(c)), Values(Stream(c)), shown[c])
    /\ At(c, "reading") => OwnShown(c)

(***************************************************************************)
(* The traces a client receives have no gaps: what is on its way are the   *)
(* last events its forwarder has passed on.  A forwarder that fell behind  *)
(* stops rather than skipping events; a writer that has ended loses what   *)
(* it had, and everything after it.                                        *)
(***************************************************************************)
LastForwarded(c) == (IF forwarder[c].held # 0 THEN forwarder[c].held ELSE forwarder[c].next) - 1

NoTraceGaps ==
  \A c \in Client :
    writing[c] => InARow(TracesAt(Stream(c)), Values(Stream(c)), LastForwarded(c))

(***************************************************************************)
(* A command is executed, and its answer sent while the writer runs,       *)
(* however many traces compete for the channel, unless the client closes   *)
(* the connection.                                                         *)
(***************************************************************************)
EveryCommandAnswered ==
  \A c \in Client :
    (link[c] = "up" /\ requests[c] # << >>) ~>
      (link[c] = "closed" \/ (requests[c] = << >> /\ At(c, "reading")))

(***************************************************************************)
(* After the client has closed the connection its handler ends, although   *)
(* the handler may be waiting for room in a channel nobody reads.          *)
(***************************************************************************)
HandlerEnds ==
  \A c \in Client :
    (link[c] = "closed") ~> (At(c, "gone") /\ ~writing[c] /\ ~forwarder[c].running)
=============================================================================
