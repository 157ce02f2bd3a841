------------------------------- MODULE Terminal -------------------------------
(***************************************************************************)
(* The terminal client (accure-client/src/main.rs and ui.rs): a reader     *)
(* that moves frames from the socket to the event channel, the event loop  *)
(* that applies events and keys, and a writer that moves commands to the   *)
(* socket.  The server at the other end answers the commands it reads one  *)
(* after the other, as the handler of Connection does, sends traces in     *)
(* between, and may close the connection.  Every channel and the socket    *)
(* have room for so much and no more.                                      *)
(*                                                                         *)
(* Lines are sequences of words as in Commands.  What the panes show is    *)
(* left out, except the errors; so a trace is a frame like a snapshot.     *)
(***************************************************************************)
EXTENDS Commands

CONSTANTS
  EventCapacity,     \* of the channel from the reader (256 in the program)
  CommandCapacity,   \* of the channel to the writer (64)
  SocketCapacity,    \* of either direction of the connection, with the server's
                     \*   reply channel
  HistoryLimit,      \* 100
  ErrorLimit,        \* 16
  MaxTraces,         \* bound: traces the server sends
  MaxKeys,           \* bounds: keys the user presses, and how many of them
  MaxWaiting         \*   may be waiting to be handled

ASSUME LimitAssumption ==
  /\ {EventCapacity, CommandCapacity, SocketCapacity} \subseteq Nat \ {0}
  /\ {HistoryLimit, ErrorLimit} \subseteq Nat \ {0}
  /\ CommandCapacity >= 2
  /\ {MaxTraces, MaxKeys, MaxWaiting} \subseteq Nat

Line ==
  {<< >>, <<"insert", "0", "x">>, <<"insert">>, <<"help">>, <<"clear">>, <<"quit">>}

\* Esc stands for control-C too, Char for any character.
Key == {"Esc", "Char", "Backspace", "Up", "Down", "Enter"}

FrameKind == {"State", "Error"}

VARIABLES
  server,      \* whether the server has the connection open
  wire,        \* how many commands are on the socket
  owed,        \* whether it has read one and not answered it
  frames,      \* what it has sent and the reader has not read
  traces,      \* how many of these were traces, so far
  reader,      \* "reading", a frame in its hands, or "ended" (the channel is closed)
  events,      \* the channel from the reader
  commands,    \* the channel to the writer
  writer,      \* whether the writer runs
  keys,        \* keys pressed and not yet handled
  pressed,     \* how many have been pressed
  ui,          \* "selecting", "sending", "asking" (the two sends of Enter), or "left"
  input,       \* the input line
  history,     \* the lines entered before
  historyIdx,  \* the line of the history shown (0: none; the program counts from 0)
  errors       \* the error messages

remote == << server, wire, owed, frames, traces >>
link  == << remote, reader, writer >>
app   == << input, history, historyIdx, errors >>
vars  == << link, app, events, commands, keys, pressed, ui >>

TypeOK ==
  /\ server \in BOOLEAN /\ writer \in BOOLEAN
  /\ wire \in 0 .. SocketCapacity /\ owed \in BOOLEAN /\ traces \in Nat
  /\ frames \in Seq(FrameKind) /\ Len(frames) <= SocketCapacity
  /\ reader \in FrameKind \union {"reading", "ended"}
  /\ events \in Seq(FrameKind) /\ Len(events) <= EventCapacity
  /\ commands \in Seq({"Command", "Snapshot", "Subscribe"})
  /\ Len(commands) <= CommandCapacity
  /\ keys \in Seq(Key) /\ pressed \in Nat
  /\ ui \in {"selecting", "sending", "asking", "left"}
  /\ input \in Line /\ historyIdx \in Nat
  /\ history \in Seq(Line) /\ Len(history) <= HistoryLimit
  /\ errors \in Seq({"server", "closed", "parse"}) /\ Len(errors) <= ErrorLimit

\* main sends Subscribe and Snapshot before it runs the event loop.
Init ==
  /\ server = TRUE
  /\ wire = 0
  /\ owed = FALSE
  /\ frames = << >>
  /\ traces = 0
  /\ reader = "reading"
  /\ writer = TRUE
  /\ events = << >>
  /\ commands = << "Subscribe", "Snapshot" >>
  /\ keys = << >>
  /\ pressed = 0
  /\ ui = "selecting"
  /\ input = << >>
  /\ history = << >>
  /\ historyIdx = 0
  /\ errors = << >>

-----------------------------------------------------------------------------
\* The server and the user.
ServerReads ==
  /\ server
  /\ ~owed
  /\ wire > 0
  /\ wire' = wire - 1
  /\ owed' = TRUE
  /\ UNCHANGED << server, frames, traces, reader, writer, app, events, commands, keys, pressed, ui >>

ServerAnswers(f) ==
  /\ server
  /\ owed
  /\ Len(frames) < SocketCapacity
  /\ frames' = Append(frames, f)
  /\ owed' = FALSE
  /\ UNCHANGED << server, wire, traces, reader, writer, app, events, commands, keys, pressed, ui >>

ServerTraces ==
  /\ server
  /\ traces < MaxTraces
  /\ Len(frames) < SocketCapacity
  /\ frames' = Append(frames, "State")
  /\ traces' = traces + 1
  /\ UNCHANGED << server, wire, owed, reader, writer, app, events, commands, keys, pressed, ui >>

ServerCloses ==
  /\ server
  /\ server' = FALSE
  /\ wire' = 0
  /\ owed' = FALSE
  /\ UNCHANGED << frames, traces, reader, writer, app, events, commands, keys, pressed, ui >>

Press(k) ==
  /\ pressed < MaxKeys
  /\ Len(keys) < MaxWaiting
  /\ ui # "left"
  /\ keys' = Append(keys, k)
  /\ pressed' = pressed + 1
  /\ UNCHANGED << link, app, events, commands, ui >>

(***************************************************************************)
(* The reader and the writer.                                              *)
(***************************************************************************)
Read ==
  /\ reader = "reading"
  /\ \/ /\ frames # << >>
        /\ reader' = Head(frames)
        /\ frames' = Tail(frames)
     \/ /\ frames = << >> /\ ~server
        /\ reader' = "ended"
        /\ UNCHANGED frames
  /\ UNCHANGED << server, wire, owed, traces, writer, app, events, commands, keys, pressed, ui >>

PushEvent ==
  /\ reader \in FrameKind
  /\ Len(events) < EventCapacity
  /\ events' = Append(events, reader)
  /\ reader' = "reading"
  /\ UNCHANGED << remote, writer, app, commands, keys, pressed, ui >>

\* Slip: a failed write is tried again.
WriteCommand_Again ==
  /\ writer
  /\ commands # << >>
  /\ server
  /\ wire < SocketCapacity
  /\ wire' = wire + 1
  /\ commands' = Tail(commands)
  /\ UNCHANGED << server, owed, frames, traces, reader, writer, app, events, keys, pressed, ui >>

\* Writing waits for room on the socket while the server is there; once it
\* is not, it fails sooner or later, and with the writer the channel is gone.
WriteCommand ==
  /\ writer
  /\ commands # << >>
  /\ \/ /\ server
        /\ wire < SocketCapacity
        /\ wire' = wire + 1
        /\ commands' = Tail(commands)
        /\ UNCHANGED writer
     \/ /\ ~server
        /\ commands' = Tail(commands)
        /\ UNCHANGED << wire, writer >>
     \/ /\ ~server
        /\ writer' = FALSE
        /\ commands' = << >>
        /\ UNCHANGED wire
  /\ UNCHANGED << server, owed, frames, traces, reader, app, events, keys, pressed, ui >>

-----------------------------------------------------------------------------
(***************************************************************************)
(* The event loop.  The select is biased: an event is looked at before any *)
(* key, and once the reader has ended and its channel is empty, receiving  *)
(* from it is ready at once, for ever.                                     *)
(***************************************************************************)
PushError(e) ==
  LET all == Append(errors, e)
  IN  errors' = IF Len(all) > ErrorLimit THEN Tail(all) ELSE all

ApplyServerEvent ==
  /\ ui = "selecting"
  /\ events # << >>
  /\ events' = Tail(events)
  /\ IF Head(events) = "Error" THEN PushError("server") ELSE UNCHANGED errors
  /\ UNCHANGED << link, commands, keys, pressed, ui, input, history, historyIdx >>

ChannelClosed ==
  /\ ui = "selecting"
  /\ events = << >>
  /\ reader = "ended"
  /\ PushError("closed")
  /\ UNCHANGED << link, events, commands, keys, pressed, ui, input, history, historyIdx >>

\* The select has come to its second branch.
TakeKey(k) ==
  /\ ui = "selecting"
  /\ events = << >>
  /\ reader # "ended"
  /\ keys # << >>
  /\ Head(keys) = k
  /\ keys' = Tail(keys)
  /\ UNCHANGED << link, events, pressed >>

\* Slip: nothing is returned.
PressEsc_Ignored ==
  /\ TakeKey("Esc")
  /\ UNCHANGED << app, commands, ui >>

PressEsc ==
  /\ TakeKey("Esc")
  /\ ui' = "left"
  /\ UNCHANGED << app, commands >>

\* Typing and deleting lead from one kind of line to another.
Edit ==
  /\ TakeKey("Char") \/ TakeKey("Backspace")
  /\ input' \in Line
  /\ Head(keys) = "Backspace" /\ input = << >> => input' = << >>
  /\ Head(keys) = "Char" /\ input' = << >> => input = << >>
  /\ historyIdx' = 0
  /\ UNCHANGED << ui, history, errors, commands >>

Up ==
  /\ TakeKey("Up")
  /\ IF history = << >>
       THEN UNCHANGED << historyIdx, input >>
       ELSE /\ historyIdx' = IF historyIdx = 0 THEN Len(history)
                             ELSE IF historyIdx = 1 THEN 1 ELSE historyIdx - 1
            /\ input' = history[historyIdx']
  /\ UNCHANGED << ui, history, errors, commands >>

\* Slip: one step beyond the newest line.
Down_Beyond ==
  /\ TakeKey("Down")
  /\ IF historyIdx = 0
       THEN UNCHANGED << historyIdx, input >>
       ELSE /\ historyIdx' = historyIdx + 1
            /\ input' = IF historyIdx < Len(history) THEN history[historyIdx'] ELSE << >>
  /\ UNCHANGED << ui, history, errors, commands >>

Down ==
  /\ TakeKey("Down")
  /\ IF historyIdx = 0
       THEN UNCHANGED << historyIdx, input >>
       ELSE IF historyIdx < Len(history)
              THEN historyIdx' = historyIdx + 1 /\ input' = history[historyIdx']
              ELSE historyIdx' = 0 /\ input' = << >>
  /\ UNCHANGED << ui, history, errors, commands >>

Remember(l) ==
  LET all == Append(history, l)
  IN  history' = IF Len(all) > HistoryLimit THEN Tail(all) ELSE all

\* A line that is to be parsed.
Parsed(line) == line \notin {<< >>, <<"help">>, <<"clear">>, <<"quit">>}

Enter ==
  /\ TakeKey("Enter")
  /\ input' = << >>
  /\ historyIdx' = 0
  /\ UNCHANGED commands
  /\ \/ /\ input \in {<< >>, <<"help">>}
        /\ UNCHANGED << ui, history, errors >>
     \/ /\ input = <<"quit">>
        /\ ui' = "left"
        /\ UNCHANGED << history, errors >>
     \/ /\ input = <<"clear">>
        /\ errors' = << >>
        /\ UNCHANGED << ui, history >>
     \/ /\ Parsed(input) /\ ParseCommand(input) \in ParseError
        /\ Remember(input)
        /\ PushError("parse")
        /\ UNCHANGED ui
     \/ /\ Parsed(input) /\ ParseCommand(input) \notin ParseError
        /\ Remember(input)
        /\ ui' = "sending"
        /\ UNCHANGED errors

\* commands.send(..).await, first of the command, then of a Snapshot.
SendCommand ==
  /\ ui = "sending"
  /\ \/ /\ writer
        /\ Len(commands) < CommandCapacity
        /\ commands' = Append(commands, "Command")
        /\ ui' = "asking"
        /\ UNCHANGED errors
     \/ /\ ~writer
        /\ PushError("closed")
        /\ ui' = "selecting"
        /\ UNCHANGED commands
  /\ UNCHANGED << link, events, keys, pressed, input, history, historyIdx >>

\* Slip: without waiting for room.
AskSnapshot_Unbounded ==
  /\ ui = "asking"
  /\ commands' = IF writer THEN Append(commands, "Snapshot") ELSE commands
  /\ ui' = "selecting"
  /\ UNCHANGED << link, app, events, keys, pressed >>

AskSnapshot ==
  /\ ui = "asking"
  /\ \/ /\ writer
        /\ Len(commands) < CommandCapacity
        /\ commands' = Append(commands, "Snapshot")
     \/ /\ ~writer
        /\ UNCHANGED commands
  /\ ui' = "selecting"
  /\ UNCHANGED << link, app, events, keys, pressed >>

HandleKey == PressEsc \/ Edit \/ Up \/ Down \/ Enter

Loop == ApplyServerEvent \/ ChannelClosed \/ HandleKey \/ SendCommand \/ AskSnapshot

Next ==
  \/ ServerReads \/ ServerTraces
  \/ \E f \in FrameKind : ServerAnswers(f)
  \/ ServerCloses
  \/ \E k \in Key : Press(k)
  \/ Read \/ PushEvent \/ WriteCommand
  \/ Loop

Spec == Init /\ [][Next]_vars

(***************************************************************************)
(* Fairness: the runtime runs the three tasks, and the server reads and    *)
(* answers commands (EveryCommandAnswered of ConnectionProps).  Nothing is *)
(* expected of the user, and the server may close the connection at any    *)
(* time.                                                                   *)
(***************************************************************************)
FairSpec ==
  /\ Spec
  /\ WF_vars(ServerReads)
  /\ WF_vars(\E f \in FrameKind : ServerAnswers(f))
  /\ WF_vars(Read)
  /\ WF_vars(PushEvent)
  /\ WF_vars(WriteCommand)
  /\ WF_vars(Loop)

-----------------------------------------------------------------------------
(***************************************************************************)
(* The history index the next Up or Down starts from is that of a line     *)
(* that is still there, and this line is the one in the input: the limit   *)
(* removes lines from under it otherwise (history[next] would panic).      *)
(***************************************************************************)
HistoryShown ==
  /\ historyIdx <= Len(history)
  /\ historyIdx # 0 => input = history[historyIdx]

(***************************************************************************)
(* The event loop waits for room for a command while everything between it *)
(* and the server, both ways, is full: the server waits for room for an    *)
(* answer and reads nothing, and the loop takes no event.                  *)
(***************************************************************************)
Jammed ==
  /\ ui \in {"sending", "asking"} /\ Len(commands) = CommandCapacity
  /\ wire = SocketCapacity /\ owed
  /\ Len(frames) = SocketCapacity /\ reader \in FrameKind
  /\ Len(events) = EventCapacity

(***************************************************************************)
(* The event loop comes back from the two sends of Enter, whether or not   *)
(* the server goes away while the channel is full; only when nothing can   *)
(* move on any link of the circle does it not.                             *)
(***************************************************************************)
SendsReturn == (ui \in {"sending", "asking"}) ~> (ui = "selecting" \/ Jammed)

EscPressed == \E i \in DOMAIN keys : keys[i] = "Esc"

(***************************************************************************)
(* A quit is obeyed while the server is connected, when its frames, which  *)
(* go first, have come to an end, unless a command before it is stuck.     *)
(***************************************************************************)
QuitWhileConnected == EscPressed ~> (ui = "left" \/ ~server \/ Jammed)

(***************************************************************************)
(* "quit / q / Esc: exit the client" (README.md:85).                       *)
(***************************************************************************)
QuitObeyed == EscPressed ~> (ui = "left")
=============================================================================
