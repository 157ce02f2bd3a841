------------------------------ MODULE SendSession ------------------------------
(***************************************************************************)
(* The clients of a server.  One of them, the tool, may be accure-send     *)
(* (accure-client/src/send.rs): it sends the lines of its script one by    *)
(* one and after each reads frames until a snapshot arrives or 300 ms have *)
(* passed.  Otherwise it is any other program, like all other clients.     *)
(*                                                                         *)
(* read_frame (accure-core/src/wire.rs) takes a frame from the socket in   *)
(* two reads, its length and its body.  When the deadline wins the select  *)
(* the read is dropped where it is, and the length it had is lost; the     *)
(* next read then takes the first four bytes of the body for a length.     *)
(* These are the number of the ServerEvent variant, 0 to 2, and a body of  *)
(* so few bytes does not deserialize.                                      *)
(***************************************************************************)
EXTENDS ConnectionInv, Commands

CONSTANTS
  tool,      \* the client that may be accure-send
  Scripts    \* what it may have been started with, each a sequence of lines

ASSUME ToolAssumption ==
  /\ tool \in Client
  /\ \A lines \in Scripts : lines \in Seq(Seq(STRING))

VARIABLES
  prompt,    \* whether the server always answers within the 300 ms (and the answer is
             \*   read: the deadline comes first only where none is to be waited for)
  script,    \* the lines
  phase,     \* "absent" (another program), "sending", "draining", or at its end:
             \*   "done", "rejected" (a line), "failed" (to read)
  position,  \* how many lines have been dealt with
  midFrame,  \* the length of the next frame has been read, its body not
  astray,    \* a read was dropped there
  taken      \* the command whose answer the last drain took for its own (0: none)

tool_vars == << prompt, script, phase, position, midFrame, astray, taken >>
allVars   == << vars, tool_vars >>

ToolTypeOK ==
  /\ TypeOK
  /\ prompt \in BOOLEAN
  /\ script \in Scripts
  /\ phase \in {"absent", "sending", "draining", "done", "rejected", "failed"}
  /\ position \in 0 .. Len(script)
  /\ midFrame \in BOOLEAN /\ astray \in BOOLEAN
  /\ taken \in Nat

ToolInit ==
  /\ Init
  /\ script \in Scripts
  /\ \/ phase = "absent" /\ prompt = FALSE /\ script = << >>
     \/ phase = "sending" /\ prompt \in BOOLEAN /\ script # << >>
  /\ position = 0
  /\ midFrame = FALSE
  /\ astray = FALSE
  /\ taken = 0

-----------------------------------------------------------------------------
\* First words that start with "#".
CommentWord == {"#", "#x"}

\* Blank lines and comments are passed over.
Skipped(line) == line = << >> \/ line[1] \in CommentWord

Rejected(line) == ~Skipped(line) /\ ParseCommand(line) \in ParseError

\* How the server handles the command.
Sent(line) == IF ParseCommand(line) \in UpdateCommand THEN "Update" ELSE "Snapshot"

NextLine == script[position + 1]

Ready == phase = "sending" /\ link[tool] = "up" /\ position < Len(script)

Skip ==
  /\ Ready
  /\ Skipped(NextLine)
  /\ position' = position + 1
  /\ UNCHANGED << vars, prompt, script, phase, midFrame, astray, taken >>

Reject ==
  /\ Ready
  /\ Rejected(NextLine)
  /\ Close(tool)
  /\ phase' = "rejected"
  /\ UNCHANGED << prompt, script, position, midFrame, astray, taken >>

Send ==
  /\ Ready
  /\ ~Skipped(NextLine) /\ ~Rejected(NextLine)
  /\ requests' = [requests EXCEPT ![tool] = Append(@, Sent(NextLine))]
  /\ position' = position + 1
  /\ taken' = 0
  /\ phase' = "draining"
  /\ UNCHANGED << server, tasks, link, frames, shown, prompt, script, midFrame, astray >>

Finish ==
  /\ phase = "sending"
  /\ position = Len(script)
  /\ Close(tool)
  /\ phase' = "done"
  /\ UNCHANGED << prompt, script, position, midFrame, astray, taken >>

-----------------------------------------------------------------------------
ReadLength ==
  /\ phase = "draining"
  /\ ~midFrame
  /\ ~astray
  /\ frames[tool] # << >>
  /\ midFrame' = TRUE
  /\ UNCHANGED << vars, prompt, script, phase, position, astray, taken >>

\* Slip: any frame ends the drain.
ReadBody_AnyFrame ==
  /\ midFrame
  /\ Take(tool)
  /\ midFrame' = FALSE
  /\ phase' = "sending"
  /\ taken' = Head(frames[tool]).answers
  /\ UNCHANGED << prompt, script, position, astray >>

\* Slip: a snapshot is discarded like the rest, and every drain goes on to its deadline.
ReadBody_ToDeadline ==
  /\ midFrame
  /\ Take(tool)
  /\ midFrame' = FALSE
  /\ UNCHANGED << prompt, script, phase, position, astray, taken >>

\* Only a snapshot ends the drain; traces and errors are discarded.
ReadBody ==
  /\ midFrame
  /\ Take(tool)
  /\ midFrame' = FALSE
  /\ \/ /\ Head(frames[tool]).kind = "State"
        /\ phase' = "sending"
        /\ taken' = Head(frames[tool]).answers
     \/ /\ Head(frames[tool]).kind # "State"
        /\ UNCHANGED << phase, taken >>
  /\ UNCHANGED << prompt, script, position, astray >>

\* The body read as a length does not make a frame: the program returns.
ReadAstray ==
  /\ phase = "draining"
  /\ astray
  /\ Close(tool)
  /\ phase' = "failed"
  /\ UNCHANGED << prompt, script, position, midFrame, astray, taken >>

\* The server has ended its direction of the connection.
ReadEnd ==
  /\ phase = "draining"
  /\ ~midFrame
  /\ frames[tool] = << >> /\ ~writing[tool]
  /\ Close(tool)
  /\ phase' = "failed"
  /\ UNCHANGED << prompt, script, position, midFrame, astray, taken >>

\* The answer has come and was an error, or will not come as the writer has
\* ended.  A trace may be on its way, and its length may have been read.
NoAnswerComing ==
  /\ At(tool, "reading")
  /\ requests[tool] = << >>
  /\ AnswersAt(Stream(tool)) = {}

\* Slip: no deadline.
Deadline_None == FALSE /\ UNCHANGED << vars, tool_vars >>

Deadline ==
  /\ phase = "draining"
  /\ prompt => NoAnswerComing
  /\ phase' = "sending"
  /\ astray' = (astray \/ midFrame)
  /\ midFrame' = FALSE
  /\ UNCHANGED << vars, prompt, script, position, taken >>

ToolStep ==
  \/ Skip \/ Reject \/ Send \/ Finish
  \/ ReadLength \/ ReadBody \/ ReadAstray \/ ReadEnd \/ Deadline

\* A client that is some other program.
OtherClient(c) ==
  /\ c = tool => phase = "absent"
  /\ (\E cmd \in Command : Request(c, cmd)) \/ Take(c) \/ Close(c)

ToolNext ==
  \/ (ServerNext \/ \E c \in Client : OtherClient(c)) /\ UNCHANGED tool_vars
  \/ ToolStep

ToolSpec == ToolInit /\ [][ToolNext]_allVars

(***************************************************************************)
(* The server's tasks are scheduled as in Connection and connections are   *)
(* accepted; the tool's single task goes on whenever it can, and any other *)
(* client reads its frames.                                                *)
(***************************************************************************)
ToolFairSpec ==
  /\ ToolSpec
  /\ ServerFairness
  /\ WF_vars(Connect(tool))
  /\ WF_allVars(ToolStep)
  /\ \A c \in Client : WF_vars((c = tool => phase = "absent") /\ Take(c))

-----------------------------------------------------------------------------
(***************************************************************************)
(* "Drain until we receive it (or 300 ms pass) so subsequent commands      *)
(* don't pick up stale responses" (send.rs:69-71): with a server that is   *)
(* in time, the snapshot a drain ends with answers the command it was for, *)
(* the last one sent, although a drain after a refused command ends at its *)
(* deadline, with whatever has come in half read.  With a server that is   *)
(* late it need not.                                                       *)
(***************************************************************************)
CommandsSent == handler[tool].heard + Len(requests[tool])

\* The writer of the tool's connection has not ended.
Served == link[tool] = "absent" \/ writing[tool]

FreshResponse == prompt /\ Served /\ taken # 0 => taken = CommandsSent

(***************************************************************************)
(* "Commands to send (each as a quoted string, processed in order)"        *)
(* (send.rs:36).  With a server that is in time and refuses nothing, every *)
(* line is processed up to the first one that does not parse: no drain     *)
(* ends at its deadline, so none drops a read.  After a refused command it *)
(* does, and the only other end there is with such a server is at a frame  *)
(* whose length was lost that way; a server in time does not prevent it.   *)
(***************************************************************************)
RejectedLines == {i \in 1 .. Len(script) : Rejected(script[i])}

Processed ==
  \/ phase = "done" /\ position = Len(script) /\ RejectedLines = {}
  \/ /\ phase = "rejected"
     /\ position + 1 \in RejectedLines
     /\ \A i \in RejectedLines : i > position

Refusing == At(tool, "replying") /\ handler[tool].reply.kind = "Error"

ScriptCompletes ==
  prompt /\ [](link[tool] = "up" => writing[tool]) =>
    /\ []~Refusing => <>Processed
    /\ <>(Processed \/ (phase = "failed" /\ astray))

(***************************************************************************)
(* However late the server answers and wherever reads are dropped, the     *)
(* program comes to its end.                                               *)
(***************************************************************************)
ToolEnds == <>(phase \in {"absent", "done", "rejected", "failed"})
=============================================================================
