---------------------------- MODULE TerminalProofs ----------------------------
(***************************************************************************)
(* Proofs about Terminal for every capacity of the channels and the        *)
(* socket, every limit of the panes and any number of keys and traces.     *)
(***************************************************************************)
EXTENDS Terminal, SequenceTheorems, TLAPS

CommandKind == {"Command", "Snapshot", "Subscribe"}
ErrorKind   == {"server", "closed", "parse"}

(***************************************************************************)
(* TypeOK by the variables the actions change: the link to the server with *)
(* the two tasks at its ends, the three queues of the event loop, and what *)
(* the loop keeps.                                                         *)
(***************************************************************************)
LinkTyped ==
  /\ server \in BOOLEAN /\ writer \in BOOLEAN
  /\ wire \in 0 .. SocketCapacity /\ owed \in BOOLEAN /\ traces \in Nat
  /\ frames \in Seq(FrameKind) /\ Len(frames) <= SocketCapacity
  /\ reader \in FrameKind \union {"reading", "ended"}

EventsTyped   == events \in Seq(FrameKind) /\ Len(events) <= EventCapacity
CommandsTyped == commands \in Seq(CommandKind) /\ Len(commands) <= CommandCapacity
KeysTyped     == keys \in Seq(Key) /\ pressed \in Nat

LineTyped == input \in Line /\ historyIdx \in Nat
HistoryTyped == history \in Seq(Line) /\ Len(history) <= HistoryLimit
ErrorsTyped  == errors \in Seq(ErrorKind) /\ Len(errors) <= ErrorLimit
UiTyped      == ui \in {"selecting", "sending", "asking", "left"}

TerminalIInv == TypeOK /\ HistoryShown

\* The parts are TypeOK, now and in the next state.
LEMMA TypeOKParts ==
  TypeOK <=> /\ LinkTyped /\ EventsTyped /\ CommandsTyped /\ KeysTyped
             /\ LineTyped /\ HistoryTyped /\ ErrorsTyped /\ UiTyped
BY DEF TypeOK, LinkTyped, EventsTyped, CommandsTyped, KeysTyped,
       LineTyped, HistoryTyped, ErrorsTyped, UiTyped, CommandKind, ErrorKind

\* The parts of the types after a step.
LEMMA TypeOKPartsNext ==
  TypeOK' <=> /\ LinkTyped' /\ EventsTyped' /\ CommandsTyped' /\ KeysTyped'
              /\ LineTyped' /\ HistoryTyped' /\ ErrorsTyped' /\ UiTyped'
BY TypeOKParts, PTL

-----------------------------------------------------------------------------
(***************************************************************************)
(* What the operators on the panes and the queues keep.                    *)
(***************************************************************************)

\* A queue with room for one more takes one more.
LEMMA Grows ==
  ASSUME NEW T, NEW s \in Seq(T), NEW x \in T, NEW n \in Nat, Len(s) < n
  PROVE  Append(s, x) \in Seq(T) /\ Len(Append(s, x)) <= n
BY AppendProperties

\* What comes out of a queue is of its kind, and the rest is shorter.
LEMMA Shrinks ==
  ASSUME NEW T, NEW s \in Seq(T), s # << >>, NEW n \in Nat, Len(s) <= n
  PROVE  Head(s) \in T /\ Tail(s) \in Seq(T) /\ Len(Tail(s)) <= n
BY HeadTailProperties, LenProperties

\* A pane that drops its oldest line when it is over its limit is never over it.
LEMMA Limited ==
  ASSUME NEW T, NEW s \in Seq(T), NEW x \in T, NEW n \in Nat \ {0}, Len(s) <= n
  PROVE  LET all == Append(s, x)
             kept == IF Len(all) > n THEN Tail(all) ELSE all
         IN  kept \in Seq(T) /\ Len(kept) <= n
<1> DEFINE all == Append(s, x)
<1>1. all \in Seq(T) /\ all # << >> /\ Len(all) = Len(s) + 1 /\ Len(s) \in Nat
  BY AppendProperties, LenProperties
<1> HIDE DEF all
<1>2. Tail(all) \in Seq(T) /\ Len(Tail(all)) = Len(all) - 1
  BY <1>1, HeadTailProperties
<1>3. (IF Len(all) > n THEN Tail(all) ELSE all) \in Seq(T)
  BY <1>1, <1>2
<1>4. Len(IF Len(all) > n THEN Tail(all) ELSE all) <= n
  <2>1. CASE Len(all) > n
    BY <1>1, <1>2, <2>1
  <2>2. CASE ~(Len(all) > n)
    BY <1>1, <2>2
  <2> QED BY <2>1, <2>2
<1> QED BY <1>3, <1>4 DEF all

\* The lines that are typed or cleared: the empty one is a line.
LEMMA EmptyLine == << >> \in Line
BY DEF Line

\* The list of errors keeps its length.
LEMMA PushErrorTyped ==
  ASSUME ErrorsTyped, NEW e \in ErrorKind, PushError(e)
  PROVE  ErrorsTyped'
<1>1. ErrorLimit \in Nat \ {0}
  BY LimitAssumption
<1> QED BY <1>1, Limited DEF ErrorsTyped, PushError

\* So does the history.
LEMMA RememberTyped ==
  ASSUME HistoryTyped, NEW l \in Line, Remember(l)
  PROVE  HistoryTyped'
<1>1. HistoryLimit \in Nat \ {0}
  BY LimitAssumption
<1> QED BY <1>1, Limited DEF HistoryTyped, Remember

-----------------------------------------------------------------------------
(***************************************************************************)
(* The link: the server, the reader and the writer.                        *)
(***************************************************************************)

\* The steps of reader, writer and server leave the input line alone.
LEMMA LinkStep ==
  ASSUME TypeOK,
         \/ ServerReads \/ ServerTraces \/ (\E f \in FrameKind : ServerAnswers(f))
         \/ ServerCloses \/ Read \/ PushEvent \/ WriteCommand
  PROVE  /\ LinkTyped' /\ EventsTyped' /\ CommandsTyped'
         /\ UNCHANGED << app, keys, pressed, ui >>
<1>1. LinkTyped /\ EventsTyped /\ CommandsTyped
  BY TypeOKParts
<1>2. /\ SocketCapacity \in Nat \ {0} /\ EventCapacity \in Nat /\ CommandCapacity \in Nat
      /\ "State" \in FrameKind
  BY LimitAssumption DEF FrameKind
<1>3. CASE ServerReads
  BY <1>1, <1>2, <1>3 DEF ServerReads, LinkTyped, EventsTyped, CommandsTyped
<1>4. CASE ServerTraces
  <2>1. Append(frames, "State") \in Seq(FrameKind) /\ Len(Append(frames, "State")) <= SocketCapacity
    BY <1>1, <1>2, <1>4, Grows DEF ServerTraces, LinkTyped
  <2> QED BY <1>1, <1>2, <1>4, <2>1 DEF ServerTraces, LinkTyped, EventsTyped, CommandsTyped
<1>5. ASSUME NEW f \in FrameKind, ServerAnswers(f)
      PROVE  /\ LinkTyped' /\ EventsTyped' /\ CommandsTyped'
             /\ UNCHANGED << app, keys, pressed, ui >>
  <2>1. Append(frames, f) \in Seq(FrameKind) /\ Len(Append(frames, f)) <= SocketCapacity
    BY <1>1, <1>2, <1>5, Grows DEF ServerAnswers, LinkTyped
  <2> QED BY <1>1, <1>2, <1>5, <2>1 DEF ServerAnswers, LinkTyped, EventsTyped, CommandsTyped
<1>6. CASE ServerCloses
  <2>1. 0 \in 0 .. SocketCapacity
    BY <1>2
  <2>2. LinkTyped'
    BY <1>1, <1>6, <2>1, Zenon DEF ServerCloses, LinkTyped
  <2> QED BY <1>1, <1>6, <2>2 DEF ServerCloses, EventsTyped, CommandsTyped
<1>7. CASE Read
  <2>1. frames # << >> =>
          /\ Head(frames) \in FrameKind
          /\ Tail(frames) \in Seq(FrameKind) /\ Len(Tail(frames)) <= SocketCapacity
    BY <1>1, <1>2, Shrinks DEF LinkTyped
  <2> QED BY <1>1, <1>2, <1>7, <2>1 DEF Read, LinkTyped, EventsTyped, CommandsTyped
<1>8. CASE PushEvent
  <2>1. Append(events, reader) \in Seq(FrameKind) /\ Len(Append(events, reader)) <= EventCapacity
    BY <1>1, <1>2, <1>8, Grows DEF PushEvent, EventsTyped
  <2> QED BY <1>1, <1>2, <1>8, <2>1 DEF PushEvent, remote, LinkTyped, EventsTyped, CommandsTyped
<1>9. CASE WriteCommand
  <2>1. Tail(commands) \in Seq(CommandKind) /\ Len(Tail(commands)) <= CommandCapacity
    BY <1>1, <1>2, <1>9, Shrinks DEF WriteCommand, CommandsTyped
  <2>2. << >> \in Seq(CommandKind) /\ Len(<< >>) <= CommandCapacity
    BY <1>2
  <2>3. CommandsTyped'
    BY <1>9, <2>1, <2>2 DEF WriteCommand, CommandsTyped
  <2>4. wire' \in 0 .. SocketCapacity
    <3>1. wire' = wire \/ (wire < SocketCapacity /\ wire' = wire + 1)
      BY <1>9 DEF WriteCommand
    <3>2. wire \in 0 .. SocketCapacity
      BY <1>1 DEF LinkTyped
    <3> QED BY <1>2, <3>1, <3>2
  <2>5. writer' \in BOOLEAN
    BY <1>1, <1>9 DEF WriteCommand, LinkTyped
  <2>6. UNCHANGED << server, owed, frames, traces, reader, app, events, keys, pressed, ui >>
    BY <1>9 DEF WriteCommand
  <2> QED BY <1>1, <2>3, <2>4, <2>5, <2>6 DEF LinkTyped, EventsTyped
<1> QED BY <1>3, <1>4, <1>5, <1>6, <1>7, <1>8, <1>9

\* No step of the link touches what HistoryShown is about.
LEMMA LinkKeeps ==
  ASSUME TerminalIInv,
         \/ ServerReads \/ ServerTraces \/ (\E f \in FrameKind : ServerAnswers(f))
         \/ ServerCloses \/ Read \/ PushEvent \/ WriteCommand
  PROVE  TerminalIInv'
<1>1. /\ LinkTyped' /\ EventsTyped' /\ CommandsTyped'
      /\ UNCHANGED << app, keys, pressed, ui >>
  BY LinkStep DEF TerminalIInv
<1>2. KeysTyped /\ LineTyped /\ HistoryTyped /\ ErrorsTyped /\ UiTyped
  BY TypeOKParts DEF TerminalIInv
<1>3. KeysTyped' /\ LineTyped' /\ HistoryTyped' /\ ErrorsTyped' /\ UiTyped'
  BY <1>1, <1>2 DEF app, KeysTyped, LineTyped, HistoryTyped, ErrorsTyped, UiTyped
<1>4. HistoryShown'
  BY <1>1 DEF TerminalIInv, app, HistoryShown
<1> QED BY <1>1, <1>3, <1>4, TypeOKPartsNext DEF TerminalIInv

-----------------------------------------------------------------------------
(***************************************************************************)
(* The keyboard.                                                           *)
(***************************************************************************)

\* A key comes in.
LEMMA PressKeeps ==
  ASSUME TerminalIInv, NEW k \in Key, Press(k)
  PROVE  TerminalIInv'
<1>1. /\ LinkTyped /\ EventsTyped /\ CommandsTyped /\ KeysTyped
      /\ LineTyped /\ HistoryTyped /\ ErrorsTyped /\ UiTyped
  BY TypeOKParts DEF TerminalIInv
<1>2. KeysTyped'
  BY <1>1, AppendProperties DEF Press, KeysTyped
<1>3. /\ LinkTyped' /\ EventsTyped' /\ CommandsTyped'
      /\ LineTyped' /\ HistoryTyped' /\ ErrorsTyped' /\ UiTyped'
  BY <1>1 DEF Press, link, remote, app, LinkTyped, EventsTyped, CommandsTyped,
              LineTyped, HistoryTyped, ErrorsTyped, UiTyped
<1>4. HistoryShown'
  BY DEF TerminalIInv, Press, app, HistoryShown
<1> QED BY <1>2, <1>3, <1>4, TypeOKPartsNext DEF TerminalIInv

\* Taking a key leaves the link and the events alone and one key fewer.
LEMMA TakeKeyTyped ==
  ASSUME TypeOK, NEW k \in Key, TakeKey(k)
  PROVE  LinkTyped' /\ EventsTyped' /\ KeysTyped'
<1>1. LinkTyped /\ EventsTyped /\ KeysTyped
  BY TypeOKParts
<1>2. KeysTyped'
  BY <1>1, HeadTailProperties DEF TakeKey, KeysTyped
<1> QED BY <1>1, <1>2 DEF TakeKey, link, remote, LinkTyped, EventsTyped

(***************************************************************************)
(* Keys that edit the line or walk through the history.                    *)
(***************************************************************************)

\* A key other than Enter is handled.
LEMMA KeyKeeps ==
  ASSUME TerminalIInv, PressEsc \/ Edit \/ Up \/ Down
  PROVE  TerminalIInv'
<1>1. /\ LinkTyped /\ EventsTyped /\ CommandsTyped /\ KeysTyped
      /\ LineTyped /\ HistoryTyped /\ ErrorsTyped /\ UiTyped
      /\ HistoryShown
  BY TypeOKParts DEF TerminalIInv
<1>2. LinkTyped' /\ EventsTyped' /\ KeysTyped'
  <2>1. {"Esc", "Char", "Backspace", "Up", "Down"} \subseteq Key
    BY DEF Key
  <2> QED BY <2>1, TakeKeyTyped DEF TerminalIInv, PressEsc, Edit, Up, Down
<1>3. UNCHANGED << commands, history, errors >>
  BY DEF PressEsc, Edit, Up, Down, app
<1>4. CommandsTyped' /\ HistoryTyped' /\ ErrorsTyped'
  BY <1>1, <1>3 DEF CommandsTyped, HistoryTyped, ErrorsTyped
<1>5. UiTyped'
  BY <1>1 DEF PressEsc, Edit, Up, Down, UiTyped
<1>6. /\ history \in Seq(Line) /\ Len(history) \in Nat
      /\ \A i \in 1 .. Len(history) : history[i] \in Line
      /\ historyIdx \in Nat /\ historyIdx <= Len(history)
  BY <1>1, LenProperties, ElementOfSeq DEF HistoryTyped, LineTyped, HistoryShown
<1>7. LineTyped' /\ HistoryShown'
  <2>1. CASE PressEsc
    BY <1>1, <2>1 DEF PressEsc, app, LineTyped, HistoryShown
  <2>2. CASE Edit
    BY <1>6, <2>2 DEF Edit, LineTyped, HistoryShown
  <2>3. CASE Up
    <3>1. CASE history = << >>
      BY <1>1, <2>3, <3>1 DEF Up, LineTyped, HistoryShown
    <3>2. CASE history # << >>
      <4>1. Len(history) > 0
        BY <1>6, <3>2, EmptySeq
      <4>2. historyIdx' \in 1 .. Len(history) /\ input' = history[historyIdx']
        BY <1>6, <2>3, <3>2, <4>1 DEF Up
      <4> QED BY <1>3, <1>6, <4>2 DEF LineTyped, HistoryShown
    <3> QED BY <3>1, <3>2
  <2>4. CASE Down
    <3>1. CASE historyIdx = 0
      BY <1>1, <2>4, <3>1 DEF Down, LineTyped, HistoryShown
    <3>2. CASE historyIdx # 0 /\ historyIdx < Len(history)
      <4>1. historyIdx' \in 1 .. Len(history) /\ input' = history[historyIdx']
        BY <1>6, <2>4, <3>2 DEF Down
      <4> QED BY <1>3, <1>6, <4>1 DEF LineTyped, HistoryShown
    <3>3. CASE historyIdx # 0 /\ ~(historyIdx < Len(history))
      BY <1>3, <1>6, <2>4, <3>3, EmptyLine DEF Down, LineTyped, HistoryShown
    <3> QED BY <3>1, <3>2, <3>3
  <2> QED BY <2>1, <2>2, <2>3, <2>4
<1> QED BY <1>2, <1>4, <1>5, <1>7, TypeOKPartsNext DEF TerminalIInv

(***************************************************************************)
(* Enter, and the rest of the loop.                                        *)
(***************************************************************************)

\* Enter, each way it can go.
LEMMA EnterKeeps ==
  ASSUME TerminalIInv, Enter
  PROVE  TerminalIInv'
<1>1. /\ CommandsTyped /\ LineTyped /\ HistoryTyped /\ ErrorsTyped /\ UiTyped
  BY TypeOKParts DEF TerminalIInv
<1>2. LinkTyped' /\ EventsTyped' /\ KeysTyped'
  <2>1. "Enter" \in Key
    BY DEF Key
  <2> QED BY <2>1, TakeKeyTyped DEF TerminalIInv, Enter
<1>3. input' = << >> /\ historyIdx' = 0 /\ UNCHANGED commands
  BY DEF Enter
<1>4. CommandsTyped'
  BY <1>1, <1>3 DEF CommandsTyped
<1>5. HistoryTyped'
  <2>1. Remember(input) \/ UNCHANGED history
    BY DEF Enter
  <2>2. input \in Line
    BY <1>1 DEF LineTyped
  <2>3. CASE Remember(input)
    BY <1>1, <2>2, <2>3, RememberTyped
  <2>4. CASE UNCHANGED history
    BY <1>1, <2>4 DEF HistoryTyped
  <2> QED BY <2>1, <2>3, <2>4
<1>6. ErrorsTyped'
  <2>1. PushError("parse") \/ UNCHANGED errors \/ errors' = << >>
    BY DEF Enter
  <2>2. CASE PushError("parse")
    BY <1>1, <2>2, PushErrorTyped DEF ErrorKind
  <2>3. CASE UNCHANGED errors
    BY <1>1, <2>3 DEF ErrorsTyped
  <2>4. CASE errors' = << >>
    BY <2>4, LimitAssumption DEF ErrorsTyped
  <2> QED BY <2>1, <2>2, <2>3, <2>4
<1>7. UiTyped'
  BY <1>1 DEF Enter, UiTyped
<1>8. Len(history') \in Nat
  BY <1>5, LenProperties DEF HistoryTyped
<1>9. LineTyped' /\ HistoryShown'
  BY <1>3, <1>8, EmptyLine DEF LineTyped, HistoryShown
<1> QED BY <1>2, <1>4, <1>5, <1>6, <1>7, <1>9, TypeOKPartsNext DEF TerminalIInv

\* A turn of the event loop.
LEMMA LoopKeeps ==
  ASSUME TerminalIInv, ApplyServerEvent \/ ChannelClosed \/ SendCommand \/ AskSnapshot
  PROVE  TerminalIInv'
<1>1. /\ LinkTyped /\ EventsTyped /\ CommandsTyped /\ KeysTyped
      /\ LineTyped /\ HistoryTyped /\ ErrorsTyped /\ UiTyped
  BY TypeOKParts DEF TerminalIInv
<1>2. /\ UNCHANGED << server, wire, owed, frames, traces, reader, writer >>
      /\ UNCHANGED << keys, pressed, input, history, historyIdx >>
  BY DEF ApplyServerEvent, ChannelClosed, SendCommand, AskSnapshot, link, remote, app
<1>3. LinkTyped' /\ KeysTyped' /\ LineTyped' /\ HistoryTyped'
  BY <1>1, <1>2 DEF LinkTyped, KeysTyped, LineTyped, HistoryTyped
<1>4. HistoryShown'
  BY <1>2 DEF TerminalIInv, HistoryShown
<1>5. ErrorsTyped'
  <2>1. (\E e \in {"server", "closed"} : PushError(e)) \/ UNCHANGED errors
    BY DEF ApplyServerEvent, ChannelClosed, SendCommand, AskSnapshot, app
  <2>2. ASSUME NEW e \in {"server", "closed"}, PushError(e) PROVE ErrorsTyped'
    BY <1>1, <2>2, PushErrorTyped DEF ErrorKind
  <2>3. CASE UNCHANGED errors
    BY <1>1, <2>3 DEF ErrorsTyped
  <2> QED BY <2>1, <2>2, <2>3
<1>6. UiTyped'
  BY <1>1 DEF ApplyServerEvent, ChannelClosed, SendCommand, AskSnapshot, UiTyped
<1>7. EventCapacity \in Nat /\ CommandCapacity \in Nat
  BY LimitAssumption
<1>8. EventsTyped'
  <2>1. UNCHANGED events \/ (events # << >> /\ events' = Tail(events))
    BY DEF ApplyServerEvent, ChannelClosed, SendCommand, AskSnapshot
  <2> QED BY <1>1, <1>7, <2>1, Shrinks DEF EventsTyped
<1>9. CommandsTyped'
  <2>1. \/ UNCHANGED commands
        \/ \E c \in CommandKind :
             Len(commands) < CommandCapacity /\ commands' = Append(commands, c)
    BY DEF ApplyServerEvent, ChannelClosed, SendCommand, AskSnapshot, CommandKind
  <2> QED BY <1>1, <1>7, <2>1, Grows DEF CommandsTyped
<1> QED BY <1>3, <1>4, <1>5, <1>6, <1>8, <1>9, TypeOKPartsNext DEF TerminalIInv

-----------------------------------------------------------------------------
\* The invariant at the start.
LEMMA InitTerminalIInv == Init => TerminalIInv
<1> SUFFICES ASSUME Init PROVE TerminalIInv
  OBVIOUS
<1>1. /\ {EventCapacity, CommandCapacity, SocketCapacity, HistoryLimit, ErrorLimit} \subseteq Nat
      /\ CommandCapacity >= 2
  BY LimitAssumption
<1>2. LinkTyped
  <2>1. 0 \in 0 .. SocketCapacity /\ << >> \in Seq(FrameKind) /\ Len(<< >>) <= SocketCapacity
    BY <1>1
  <2> QED BY <2>1 DEF Init, LinkTyped
<1>3. EventsTyped /\ KeysTyped /\ HistoryTyped /\ ErrorsTyped /\ UiTyped
  BY <1>1 DEF Init, EventsTyped, KeysTyped, HistoryTyped, ErrorsTyped, UiTyped
<1>4. CommandsTyped
  BY <1>1 DEF Init, CommandsTyped, CommandKind
<1>5. LineTyped /\ HistoryShown
  BY EmptyLine DEF Init, LineTyped, HistoryShown
<1> QED BY <1>2, <1>3, <1>4, <1>5, TypeOKParts DEF TerminalIInv

\* Every step keeps the invariant.
LEMMA NextTerminalIInv == TerminalIInv /\ [Next]_vars => TerminalIInv'
<1> SUFFICES ASSUME TerminalIInv, [Next]_vars PROVE TerminalIInv'
  OBVIOUS
<1>1. CASE Next
  BY <1>1, LinkKeeps, PressKeeps, KeyKeeps, EnterKeeps, LoopKeeps DEF Next, Loop, HandleKey
<1>2. CASE UNCHANGED vars
  BY <1>2 DEF vars, link, remote, app, TerminalIInv, TypeOK, HistoryShown
<1> QED BY <1>1, <1>2

\* Types and the shown line of the history together are inductive.
THEOREM TerminalInvariance == Spec => []TerminalIInv
BY InitTerminalIInv, NextTerminalIInv, PTL DEF Spec

\* Channels and the socket stay within their capacities, the history and the
\* errors within 100 and 16 lines.
THEOREM TerminalTypeCorrect == Spec => []TypeOK
<1>1. TerminalIInv => TypeOK
  BY DEF TerminalIInv
<1> QED BY <1>1, TerminalInvariance, PTL

\* history[next] never panics, and the line that is shown is the one the next
\* Up or Down starts from, however many lines the limit has removed.
THEOREM HistoryIsShown == Spec => []HistoryShown
<1>1. TerminalIInv => HistoryShown
  BY DEF TerminalIInv
<1> QED BY <1>1, TerminalInvariance, PTL
=============================================================================
