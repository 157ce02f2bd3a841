---------------------------- MODULE SendSessionInv ----------------------------
(***************************************************************************)
(* The inductive invariant behind FreshResponse.                           *)
(***************************************************************************)
EXTENDS SendSession

\* The tool has its connection until it closes it itself.
Connected ==
  /\ phase = "sending" => link[tool] # "closed"
  /\ phase = "draining" => link[tool] = "up"

\* A length without its body is only ever held while draining.
MidFrame == midFrame => phase = "draining" /\ ~astray

\* Nothing of an earlier command is left.
Idle ==
  /\ requests[tool] = << >>
  /\ handler[tool].at \in {"absent", "reading"}
  /\ StatesAt(Stream(tool)) = {}

\* The command has not been read yet, and nothing of an earlier one is left.
Waiting ==
  /\ Len(requests[tool]) = 1
  /\ At(tool, "reading")
  /\ StatesAt(Stream(tool)) = {}

\* The command has been read; a snapshot on its way is its answer.
Answering ==
  /\ requests[tool] = << >>
  /\ \A i \in StatesAt(Stream(tool)) : Stream(tool)[i].answers = handler[tool].heard

\* With a server that is in time, one command at a time is under way.
OneAtATime ==
  prompt => /\ phase # "absent"
            /\ Served /\ phase = "sending" => Idle
            /\ Served /\ phase = "draining" => Waiting \/ Answering

SendSessionIInv ==
  /\ ConnectionIInv
  /\ ToolTypeOK
  /\ Connected
  /\ MidFrame
  /\ OneAtATime
  /\ FreshResponse
=============================================================================
