# ACCURE: specification and verification

ACCURE is a shared text document whose access policy is replicated together
with the text. Sites (servers) issue policy operations (allow or deny the
Admin, Read or Write right of a site) and document operations (insert or delete
a character), replicate both through two Automerge lists, and derive from what
they have received which operations are *valid*. The text shown is what the
valid edits make of an empty document.

This directory holds TLA+ modules for that system, TLC configurations that
check them on small instances, and TLAPS proofs for all instances. Paths below
are relative to `src/`.

## 1. Inventory

| component | state | operations | interacts with |
|---|---|---|---|
| operations (`accure-core/src/dot.rs`, `op.rs`) | none | construction | everything |
| policy DAG (`dag.rs`) | nodes, `out`, `parents` of one access tuple | `add_node`, `add_edge`; `ancestors`, `level`, `max_level`, `at_level` | filled by `effect_policy`, read by validity |
| validity (`validity.rs`) | none; reads `State` | `eval`, `is_valid_policy`, `is_valid_document`, `covers` | called by the core and by snapshots |
| protocol core (`integrate.rs`, `state.rs`) | `log`, `g`, `valid`, `next_n`, the Automerge document | `update_policy`, `update_document`, `effect_*`, `rebuild_validity`, `rebuild_from_automerge` | called by client connections and peer sessions, under the two mutexes |
| facade (`model/*.rs`) | none | forwards to the core | |
| text rendering (`compensation.rs`) | none | `render_text` | snapshots |
| wire and messages (`wire.rs`, `messages.rs`) | none | `read_frame`, `write_frame` | all TCP links |
| Automerge bridge (`automerge_bridge.rs`) | a document and sync states | `generate`, `receive` | tests only |
| start-up (`accure-server/src/main.rs`) | creates `Server` | spawns the tasks below | |
| peer sessions (`peer.rs`) | `peer_sync_states`, an outbound channel per connection | dial and redial, hello, outbound loop, inbound loop | core, event bus, notify bus |
| client connections (`client.rs`) | a reply channel per connection | one command at a time, snapshot, event forwarding | core, event bus |
| visualizer (`visualize.rs`) | none | prints the event bus | event bus |
| command parsing (`accure-client/src/lib.rs`) | none | `parse_command` | both clients |
| terminal client (`accure-client/src/main.rs`, `ui.rs`) | snapshot, traces, errors, input, history | event loop, key handling | a client connection |
| command sender (`send.rs`) | position in its script | send, wait for a reply or 300 ms | a client connection |

What makes them correct, and what is hard about it:

* **core** -- all sites agree once they have received the same; a deny erases and
  an allow restores exactly the edits it is about; the validity register is a
  fixed point of the validity rules; numbers are unique. Hard because operations
  arrive in different orders, the register is recomputed by in-place sweeps, and
  what an operation "knows" is compressed into a few numbers.
* **DAG** -- levels are shortest distances from a root even when edges arrive late.
* **peer sessions** -- every change reaches every peer across reconnects and
  restarts. Hard because sync states outlive connections and may be shared.
* **rendering** -- the text depends on the valid edits only, and an edit does what its
  author meant. Hard because edits come and go in the middle of the order they are applied in.
* **client connections, clients** -- replies belong to the commands they answer;
  nobody waits for ever; a quit is obeyed. Hard because of bounded channels, a
  biased select, cancelled reads and a lagging broadcast.

`PROJECT.json` lists the hazards line by line with the properties that cover them.

## 2. The modules

| module | models |
|---|---|
| `Ops` | dots, access tuples, policy and document operations |
| `PolicyDag` | the graph of one access tuple: ancestors, level, deepest level |
| `Validity` | the validity rules and `rebuild_validity`, as operators |
| `Accure` | the protocol core as a state machine of several sites |
| `AccureProps` | its properties |
| `AccureInv` | the inductive invariant of logs, numbers and pasts |
| `AccureProofs` | theorems about these, and that `Accure` implements `Delivery` |
| `RegisterProofs` | theorems about graphs, sweeps and registers |
| `NumberFacts` | greatest and least numbers, loops and chains: what those proofs and the next ones share |
| `Delivery` | abstract: what replication promises, whatever carries it |
| `AccureDelivery` | `Accure` as an instance of `Delivery` |
| `MCAccure` | constants of the instances of `Accure` |
| `Session` | peer sessions: connections, tasks, sync states; implements `Delivery` |
| `MCSession` | constants of its instance |
| `SessionInv`, `SessionProofs` | its inductive invariant, theorems and proofs |
| `Rendering` | the text of a site |
| `MCRendering` | constants of its instances |
| `RenderingInv`, `RenderingProofs` | its inductive invariant, theorems and proofs |
| `Servers` | the servers' Automerge documents: whose lists they append to, restarts, what of a document is read back into `State.log` |
| `MCServers` | constants of its instances |
| `ServersInv`, `ServersProofs` | its inductive invariant, theorems and proofs |
| `Connection` | the server's side of client connections: handler, forwarder, writer, event bus |
| `ConnectionProps` | what clients may rely on |
| `ConnectionInv`, `ConnectionProofs` | the inductive invariant; theorems and proofs about `Connection` and `SendSession` |
| `Commands` | the lines `parse_command` accepts |
| `SendSession` | `accure-send`, or any program, composed with `Connection` |
| `SendSessionInv` | its inductive invariant, on top of that of `Connection` |
| `MCClients` | constants of its instance |
| `Terminal` | the terminal client: reader, writer, event loop, keys, and the server it is in a circle with |
| `TerminalProofs` | its theorems and proofs |

The core is modelled once, with the rights in full and communication reduced to
"entries arrive in causal order". The other modules take one assumption of that
reduction, or one user of the core, each, and know nothing of rights: `Session` has the
messages that bring the entries, `Servers` drops the shared lists and the eternal
process, `Rendering` turns the register into a text, `Connection` puts a client in
front of it. `Delivery` is the seam between the first two: an entry is appended with
what its author holds as its past, and a server comes to hold further entries,
never before their past, and never loses one. `Accure` implements it with `State.log`
as what a server holds (`LogsAreDelivered`) and `Session` with the Automerge
document (`SessionsDeliver`).

Definitions named `Operator_Variant` and introduced as slips
are not used by the specifications; they are small mistakes one could make in the
operator's code, and each of them breaks the property it was written for.

### State and actions of `Accure`

| TLA+ | program |
|---|---|
| `policies[s]`, `documents[s]` | `State.log` of site `s`, split by kind. The order of policy operations is kept because the sweeps run in it; no definition depends on that of the edits |
| `valid[s]` | the dots whose entry in `State.valid` is true |
| `nextN[s][r]` | `State.next_n` under `TupleKey::Site` |
| `policyLog`, `docLog` | every element ever appended to the two Automerge lists, with the dots its author had received at the time (`past`) |
| `DagOf(policies[s], t)` | `State.g[t]` |
| `UpdatePolicy(s, t, e)` | `update_policy`: the Admin check, number, dependencies, what was last seen and what is missing, append, `effect_policy` with its rebuild |
| `UpdateDocument(s)` | `update_document` with `effect_document`, which enters the validity of the new edit only |
| `ReceivePolicy`, `ReceiveDocument` | one round of the loops of `rebuild_from_automerge`, with the rebuild that follows |

Automerge is external. What the model assumes of it is what the code relies on:
an append to a shared list is never lost, and a change is handed to the program
only after the changes it depends on. A site may receive entries in any order
this allows, one at a time; a sync message with several of them is several
`Receive` steps in a row.

Abstractions: positions and characters of edits (no decision reads them);
vectors whose order is never looked at are sets; `last_dot_seen` is a number
with 0 for `None`, since its site is always the target; documents are evaluated
once, after the policy sweeps have settled, because policy entries never depend
on document entries (`Stable` checks the result against `is_valid` for every
operation). `DagOf` recomputes the graph from the log instead of storing it.

### State and actions of `Servers`

| TLA+ | program |
|---|---|
| `actor[s]`, `restarts` | the actor id Automerge draws at every start |
| `lists[s]`, `entries[s]` | list objects and elements in the server's document |
| `log[s]`, `nextN[s]` | `State.log`, `State.next_n` of the server itself |
| `Start`, `Restart` (`Begin`) | `new_shared_doc`, `save`, `new_state_from_bytes` in `main` |
| `Issue` | the append of `update_policy` or `update_document` to the list `ensure_list` finds |
| `Merge` | a sync message with everything the peer has, then `rebuild_from_automerge` |

Every start makes list objects of its own, as `main.rs` has it; the comment on
`new_shared_doc` asks for servers that load the same bytes, which only tests do.
Automerge is external again: conflicting list objects under one key are all
kept, and reading the key yields the one with the greatest creator (`Winner`).

### State and actions of `Session`

| TLA+ | program |
|---|---|
| `entries`, `doc[s]`, `queue[s]` | the changes made so far, those the Automerge document of `s` has applied, those it keeps until their dependencies arrive |
| `view[s][p]` | `State.peer_sync_states[p]` of `s`: their heads, what was sent, what we last told, whether that is unanswered |
| `link[c]`, `running[c]` | the TCP connection; the ends whose `run_session` has not returned |
| `wire[c][s]` | messages of `s` in its channel to the writer, in the writer and on the socket |
| `lost` | history, for the properties: what never arrived |
| `Open` | `listen`, `dial`, the loop of `dial` that connects again, hello |
| `Generate` | a turn of the outbound task: the state taken out of the map, `generate_sync_message`, the state put back, the wait for room; the writer |
| `Receive`, `ReceiveGarbled` | a turn of the inbound loop; the second is the `continue` on a message that does not decode, which leaves the state out of the map |
| `EndSession` | the end of the inbound loop when reading fails |
| `Break` | a connection that breaks, with a first part of what is on its way still arriving |

Automerge's sync is external and modelled by what decides here: a message is
generated when our heads are not those last told, or when the peer differs and owes no answer;
a change is put into a message only when the peer's heads are known, and not again
while `sent_hashes` has it; receiving clears what the peer's heads acknowledge.
Heads are sets of all changes they stand for. The Bloom filter of the protocol is left out.
It tells what the peer has, with false positives: a real message may leave out a change the peer
lacks, even the past of a change it carries, until the peer asks for it (`need`). `ChangesFor` assumes
that there are none, and `GapsUnderWay`, `SilenceMeansDelivered` and `PeersAgree` hold under this assumption.

### State and actions of `Rendering`

| TLA+ | program |
|---|---|
| `log[s]`, `valid[s]` | the document operations in `State.log`, the true entries of `State.valid` |
| `RenderText`, `InOrder`, `ApplyEdit` | `render_text`, its sort, its loop |
| `UpdateDocument`, `ReceiveDocument`, `Rejudge` | an edit issued, read from the list, undone or redone |

Sites are numbered in the order of their names, on which the sort depends. A
character is the dot of the insert that brought it, so that equal
characters are told apart. Policy operations, which take numbers of the same counter, are left out: only the
order of numbers is looked at. `InOrder` puts each edit at its rank, which is what a stable sort does. Any edit may become valid or invalid at any time, which is more than
the rules of `Accure` allow.

### State and actions of `Connection`, `Commands`, `SendSession` and `Terminal`

| TLA+ | program |
|---|---|
| `handler[c]`: `ReadCommand`, `Accept`, `Refuse`, `Announce`, `LookUp`, `Reply`, `HangUp` | the command loop of `handle`, cut where it waits for a lock, for room in the channel or for a command; `LookUp` is `build_snapshot` |
| `forwarder[c]`: `Forward`, `PushTrace` | the forwarding task; `Receivable` and `Lagged` are the broadcast receiver |
| `replies[c]`, `writing[c]`: `Write` | the reply channel and the writer task, which ends when the client has gone or at a frame `write_frame` refuses (`TooLarge`) with the connection still up |
| `logLen`, `due`, `published`: `PeerIntegrate`, `PeerPublish` | the length of `State.log`, traces of a peer session that are on their way, events on the bus |
| `link`, `requests`, `frames`, `shown`: `Request`, `Take`, `Close` | the two directions of the socket and the client |
| `phase`, `position`, `midFrame`, `astray`, `taken` | the loop of `accure-send`: where it is, what a dropped `read_frame` has left behind, whose answer it took; `ReadAstray` and `ReadEnd` are the errors of `read_frame` |
| `reader`, `events`, `commands`, `writer` | the tasks and channels of `accure-client/src/main.rs` |
| `ui`, `input`, `history`, `historyIdx`, `errors` | `ui.rs`: `run`, `apply_server_event`, `handle_key` |

An answer carries the number of its command, which the program's frames do not;
only properties and `taken` read it. `Connection` lets an update be accepted or refused
at will. Lines are sequences of words (`Commands`): `accure-send` passes over blank ones
and those that start with `#`, sends what parses and ends at what does not (`Skip`, `Send`, `Reject`); the terminal
has six lines, one for each way Enter can go, and any edit of the input leads from one to another.

`Terminal` has the server's end of its connection in three actions, `ServerReads`,
`ServerAnswers` and `ServerTraces`: a command is answered before the next one is read, as
`Connection` has it, and every direction of the socket holds `SocketCapacity` frames. That is what
it takes for the circle of event loop, command channel, server and event channel to close.

## 3. What TLC checks

All instances switch off deadlock checking: clients stop when their commands are
used up and everything is delivered.

| run | instance | shows |
|---|---|---|
| `integrity` | 2 sites, `Integrity`; Admin of one, Write of the other, 2 commands each, 1 edit; 95,331 states | the register is a fixed point and never holds a conflict; denied edits are erased; the effect the strategy favours is in force at once; re-allowing redoes what was seen; numbers and graphs of different tuples keep apart; sites converge unless decisions crossed |
| `three_sites` | 3 sites, `Accessibility`; 2 policy operations by each administrator, 1 edit by the writer; 144,859 states, the two administrators being alike | convergence and re-allowing with a third site between and every tie-break the other way; coverage equals knowledge; the inductive invariant; the logs implement `Delivery` |
| `convergence_refuted` | `Convergence` as README.md states it | violated, see below |
| `write_refuted` | `AcceptedWriteVisible` | violated |
| `session` | 2 servers that dial each other, one of them twice; 1 change on top of the two the servers start with, 1 fault, 1 message per direction; 466,360 states | what a sync state says of its peer is so; gaps wait for what is under way or lost; a server that has fallen silent towards a peer it has heard from has told it everything; documents agree in the end where nothing was lost; the sessions implement `Delivery` |
| `servers` | 3 servers with lists of their own, 1 operation per run, 1 restart; 1,013,943 states | the winning list reaches every log; after a restart only entries whose dot is taken are missing |
| `appends_refuted` | `AppendsSurvive` | violated |
| `rendering` | 2 sites, 2 and 1 edits at positions 0 to 2; 161,353 states | sites with the same valid edits show the same text, which has each of their characters at most once, and the last author's edits do what they say |
| `delete_refuted` | 1 edit each at position 0; `DeleteTakesEffect` | violated |
| `clients` | 1 client, any program with 3 commands or `accure-send` with one of two scripts, a server in time or not; channels of length 1, log up to 2, any snapshot or trace too large to write; 280,546 states | answers in order, snapshots never go back, no gaps in traces, every command executed and, while the writer runs, answered, handlers end; in time, a drain that ends with a snapshot has its own answer; in time and with nothing refused, the script is processed up to the first line that does not parse; always, the program ends |
| `terminal` | 6 keys, one waiting at a time, 1 trace, channels and sockets of length 1 (commands 2), a history of 1 line; 610,252 states | the event loop comes back from its sends unless the circle is full, quit is obeyed while connected, the history index stays on its line |
| `quit_refuted` | `QuitObeyed` with 2 keys | violated |

**Bounds.** `MaxPolicyOps` and `MaxDocOps` bound what each site issues. Two
commands per site are needed for a decision to be reversed on top of one's own,
and for two reversals to cross (four operations: the smallest violation of
`Convergence`). With a third command of the other site (`TwoAndThree`, 1,034,748 states) the
safety properties of `integrity` hold as well, in about five minutes with four workers; the
run keeps to the smaller instance. One edit is enough for the document rules because edits do not influence
each other; that it is issued before, between and after the policy operations is
what TLC explores. Three sites are needed for an operation to reach a site through
another one.

Channels of length one are full at once, so every wait for room happens; the event
loop needs two places in its command channel because `main` fills two before it starts.
Three commands of a client let one be executed, one wait in the channel and one on the socket.
One lost event is enough for a lag. Six keys enter three lines, or two, one more than the
history keeps, and go up and down in it afterwards; three lines with their six commands are
also what it takes to fill the circle (that `Jammed` is reached was checked by asking TLC for its negation).

In `session` one connection with two ends that share their sync states, a second one in the
opposite direction that overtakes it, and a third one after the first has broken are
what sessions can do to each other; with messages of one change each, one change
besides the initial ones is enough for a change to arrive before its past. In `rendering` two edits of one site
have an order of their own, and one of the other site comes before, between or after them. With three servers
a list that won once can lose later. One restart is enough for a reused number, with a
third server to bring the old entry back.

**Fairness.** `Accure` is checked without any: whether an entry arrives is a question about
sessions, which do not always deliver, as `Session` shows, and `ConvergesUnlessCrossed`
speaks of sites that have received the same, whenever that is.

In `Session` the outbound task and the inbound loop of a session go on as long as they can: the
outbound task looks again after 250 ms when no notification wakes it (peer.rs:110). This is an
assumption, which no property tests. Nothing else is assumed: a server need not dial, nor notice that a connection is gone,
and clients need not send. Since connections come and go a bounded number of times,
`PeersAgree` speaks of those that stay.

In `Connection` the runtime runs every task that can go on. `Reply` and `PushTrace`
are strongly fair: tokio's bounded channel serves senders that wait for room in
turn, so the one gets its place however often the other does. A connected client reads
its frames; a client need not send or close. In `SendSession` the tool's single
task goes on whenever it can; `prompt` says that the server answers within 300 ms and the answer is read, that is,
that the deadline comes only when none is to come (`NoAnswerComing`): the command was refused, or
the writer has ended. A trace may be half read then. In `Terminal` the three
tasks run, the server reads and answers (`EveryCommandAnswered` is the reason), and nothing is
expected of the user. `MaxTraces` makes the server's traces end: as long as frames
come, the biased select rightly prefers them.

### What the violations mean

* `Convergence` (README.md:115-117). Under `Integrity`, where the deny of a concurrent pair
  wins, two sites each allow a right and then deny it, not knowing of each other. Each deny
  depends on its own allow and defeats the other's, and an operation is invalid when one it
  depends on is: if the one deny stands, the other's allow falls and the other deny with it. There are
  two consistent registers, and each site keeps the one it started from. (Deny, then allow is
  harmless under `Integrity`: both denies stand. Under `Accessibility`, where allows win, it is the pattern that
  crosses.) `Crossed` names exactly this pattern, and `ConvergesUnlessCrossed` holds: nothing else keeps sites apart.
* `AcceptedWriteVisible` (validity.rs:163-164). After deny and allow of its Write
  right a site's edits are accepted and invalid: the deny covers all later numbers,
  the allow only those it had seen. Only edits made before the allow come back
  (`ReallowRedoesSeenWrites`).
* `AppendsSurvive` (integrate.rs:239-241). `main` gives every server lists of its own. After
  a sync all servers read the winning list only; what one of them appended to its
  own before is in every document and in no other log, and the author still has
  it. The integration test waits for the connection before it writes
  (two_server_convergence.rs:107-109).
* `QuitObeyed` (README.md:85). After the server has closed the connection, the biased
  select finds the closed channel ready for ever and never looks at a key.

* `DeleteTakesEffect` (README.md:81). Site 2 has inserted a character that site 1 sees at position 0,
  and site 1 deletes position 0. The delete comes first in the order of the dots, finds an empty text
  and does nothing, everywhere and for ever; when it finds other characters there, it removes one of those.
  `LastEditExact` says whose edits are safe from this. By the same order, undoing an edit moves the
  text of all later ones (compensation.rs:12-13 speaks of "`ops` order", which the sort on line 16 replaces).

### Where a property has a condition, and why

* `FavouredCommandTakesEffect` is about the effect the strategy favours. The other one need not be in
  force: a site denies, then receives two concurrent operations of another one that fill
  the deepest level and are both invalid; `current_top_level_deps` finds no valid operation
  there, the site's new allow has no dependencies, is concurrent with the site's own
  deny and loses to it, against README.md:142-143 ("any administrator can toggle access for any
  site via `allow` / `deny`").
* `PeersAgree` is about servers between which no message was lost (`NoLoss`). Without that TLC finds two ways
  in which a connection that breaks stops synchronisation although a new one is there: what a lost
  message carried stays in `sent_hashes`, which nobody clears, and is never sent
  again; and when the first message to a peer is lost, both wait for an answer until a
  client brings about a change. A message that does not decode has the same effects. `BelievedThere` says
  that this is the only way in which what a sync state counts as the peer's, or as sent, is wrong.
* `PeersAgree` is checked for two servers. With a third one and two connections between one pair there is
  another way, without any loss: s1 has s2's change from s3 and has never heard from s2. It sends its first message
  on one connection, is updated, and sends the next on the other, which overtakes it. When the first one
  arrives it carries no changes and names exactly what s2 has; s2 takes that for agreement and says nothing, and
  s1 waits for its answer, with a change s2 has not got, until a client or s3 brings s2 another one.
* `SilenceMeansDelivered` therefore excepts a peer never heard from, and one to whom a message was lost. It
  holds for any number of servers (`SilenceIsDelivery`) and is the safety half of `PeersAgree`: if
  both have heard from each other and nothing was lost, neither falls silent while it has what the other has not.
* `SendsReturn` and `QuitWhileConnected` except `Jammed`: the event loop waits for room for a
  command, the writer for room on the socket, the server for room for its answer, the
  reader for room in the event channel, and only the event loop could make it. Nothing resolves
  this but the end of the connection. With the capacities of the program it takes hundreds of
  commands and events at once.
* `FreshResponse` is about a server that is in time, whose writer has not ended. Without that
  (`prompt` dropped) TLC finds what send.rs:69-71 does not say: a late snapshot is taken for the answer to the
  next command.
* `ScriptCompletes` (send.rs:36) is about a server in time that refuses nothing; its drains all end with their
  snapshots. A refused command brings an error and no snapshot, unlike send.rs:69 says, and the
  drain waits for its deadline, in time or not. If it has read the length of a trace and not its body by
  then, the stream is out of step, the next read fails, and the rest of the script is not sent. The second part of the
  property says that this is the only other end with a server in time. A late server
  can bring it about after any command.
* `AnswersInOrder`, `SnapshotsCatchUp` and `NoTraceGaps` speak of connections whose writer runs. A snapshot or
  a trace above 16 MiB ends it while the connection stays up: the client's commands are then executed and
  not answered (client.rs:56-57), and it is not told.
* `WinningListSurvives` is about servers that have not been restarted. A restarted
  server that accepts an update before a peer has sent it its old operations
  issues their numbers again, against state.rs:114, and the others pass over
  whichever comes second; `MissingOnlyByDot` says that nothing else goes wrong.
* `NoTraceGaps` does not say that traces go on. The forwarder ends when it lags
  (`Forward`), and after `Subscribe` ("live state and trace events",
  messages.rs:28) states are sent only in answer to commands.

## 4. What is proved

The theorems hold for every value of the constants their assumptions admit: any finite set of
sites with any strategies, any servers, clients, connections, capacities, scripts and
bounds. The assumptions stand in the modules that declare the constants and say that
numbers are numbers, that capacities are positive, that no server dials itself, that
the commands are about access tuples and that sites are finitely many.

| theorem | statement |
|---|---|
| `AccureProofs`: `Invariance`, `TypeCorrect`, `UniqueDots`, `DependenciesPrecede`, `CoverageIsKnowledge` | `Spec => []` of `IInv`, `TypeOK`, `DotsUnique`, `DepsDelivered`, `AllowCoversWhatWasSeen` |
| `LogsAreDeliveredInOrder` | `Spec => LogsAreDelivered`: `Accure` implements `Delivery` |
| `RegisterProofs`: `RegistersStable`, `ConflictsResolved`, `DenialsErase`, `LogsAreLevelled` | `Spec => []` of `Stable`, `NoValidConflict`, `DeniedWritesErased`, `AllLevelled` |
| `ConvergenceUnlessCrossed` | `Spec => []ConvergesUnlessCrossed` |
| `FavouredCommandsRule`, `ReallowsRedo` | the action properties `FavouredCommandTakesEffect`, `ReallowRedoesSeenWrites` |
| `SessionProofs`: `SessionInvariance`, `SessionTypeCorrect`, `BeliefsHold`, `GapsAreUnderWay` | `Spec => []` of `SessionIInv`, `TypeOK`, `BelievedThere`, `GapsUnderWay` |
| `SilenceIsDelivery` | `Spec => []SilenceMeansDelivered` |
| `SessionsImplementDelivery` | `Spec => SessionsDeliver`: `Session` implements `Delivery` |
| `ServersProofs`: `ServersInvariance`, `ServersTypeCorrect`, `WinningListIsRead`, `OnlyDotsHide` | `Spec => []` of `ServersIInv`, `TypeOK`, `WinningListSurvives`, `MissingOnlyByDot` |
| `ConnectionProofs`: `ConnectionInvariance`, `AnswersComeInOrder`, `SnapshotsDoCatchUp`, `TracesHaveNoGaps` | `Spec => []` of `ConnectionIInv`, `AnswersInOrder`, `SnapshotsCatchUp`, `NoTraceGaps` |
| of `accure-send`: `SendSessionInvariance`, `ToolTypeCorrect`, `ResponsesAreFresh` | `ToolSpec => []` of `SendSessionIInv`, `ToolTypeOK`, `FreshResponse` |
| `PromisesHoldBesideTool` | `AnswersInOrder`, `SnapshotsCatchUp` and `NoTraceGaps` under `ToolSpec` as well |
| `TerminalProofs`: `TerminalInvariance`, `TerminalTypeCorrect`, `HistoryIsShown` | `Spec => []` of `TerminalIInv`, `TypeOK`, `HistoryShown` |
| `RenderingProofs`: `RenderingInvariance`, `RenderingTypeCorrect`, `SameEditsShowSameText` | `Spec => []` of `RenderingIInv`, `TypeOK`, `SameEditsSameText` |
| `LastEditsAreExact` | the action property `LastEditExact` |
| `ValidEditsMakeTheText` | any two logs with the same valid edits are rendered alike |

Every safety property of the passing runs is among them.
No theorem rests on another module's properties as an assumption.

### The inductive invariants

Each is checked by TLC before it is proved: `IInv` in `three_sites`, which keeps it; the others
on the instances of `session`, `servers`, `clients`, `terminal` and `rendering`, whose runs list the
properties that follow from them instead.

* `IInv` (`AccureInv`) says how logs, numbers and pasts fit together; it never looks at the
  register. That a fresh number is unused needs `Counted` (a counter is never behind
  the log) and `OwnKept` (a site has all it issued itself), hence `UniqueDots`. That a
  dependency has arrived needs `SeenClosed` (what a site holds is closed under
  pasts), which needs `PastClosed`. That `last_dot_seen >= n` means "seen" needs
  `NumbersFollowPast` (a site's earlier numbers are in the past of its later ones):
  whoever has the edit with number `last_dot_seen` has all earlier ones, so the
  only missing numbers are those of policy operations (`KindsApart`).
* `SessionIInv` (`SessionInv`). `BelievedThere` alone says nothing of gaps. `ReachClosed` does: what a
  server has, was sent on any connection, or would have been sent but for a loss is
  closed under pasts, and no step takes anything out of it. A received change that
  has to wait therefore waits for something in this set, which is `GapsUnderWay`. `SilenceMeansDelivered` needs
  `ToldThere` (a peer that owes an answer has been sent all it was told of, unless its heads were not known) and
  `QueueWaits` (nothing is kept whose past is there): a silent server's whole document is at the peer, applied or
  kept, and as the document is closed under pasts, nothing of it can be kept.
* `ServersIInv` (`ServersInv`). `WinningListSurvives` needs `NeverReused`: as long as nobody
  was restarted, an entry is in its issuer's document, the issuer's counter is not
  behind it and its dot is its own, so `rebuild_from_automerge` passes over nothing it
  does not have. `ListsCome` makes the winner of a merged document one of the two winners.
* `ConnectionIInv` (`ConnectionInv`). `SnapshotsCatchUp` is about clients between commands; `ReplyCatchesUp`
  says where the promise is while a command is executed, in the snapshot about to be
  sent, and `ShownWasLogged` that none before it can outdo it. `ReplyAnswers` ties the reply in
  the handler's hands to the number of the command, `HeldIsNext` the event in the forwarder's to
  the next one it receives.
* `SendSessionIInv` (`SendSessionInv`) adds to it that at most one command of the tool is under way
  while the server is in time: unread with no snapshot before it (`Waiting`), or read, and every
  snapshot on its way is its answer (`Answering`).
* `TerminalIInv` is `TypeOK` with `HistoryShown`. `HistoryShown` becomes inductive by the length limits
  in the types: the history is only ever truncated by `Enter`, which also leaves it.
* `RenderingIInv` (`RenderingInv`) says what makes a dot the name of an edit: sites hold issued edits only
  (`OnlyIssued`), no two of which share a dot, and each once (`DotsName`); the next number of a site
  is free because its edits have no number above their count (`NumbersTaken`).

### Why the register settles

From a register that agreed with `is_valid` on a log, one operation more leads to one that
agrees with it on the longer log (`PolicyRebuild`; `RegistersStable` is this for every step):

* An unfavoured operation changes no other entry. It is the last in the log, so the first sweep decides
  it and the second finds nothing to do.
* A favoured one whose dependencies are valid is itself valid, and what falls with it is known beforehand:
  its unfavoured rivals and whatever depends on one of them (`Falls`). The first sweep looks at the
  older operations before the new one is valid and changes nothing but its entry; the second goes through
  the log in order, dependencies first, and ends at `Outcome`, from which the third
  changes nothing. Favoured operations do not fall for a rival and unfavoured ones fall for
  favoured ones only, so no entry comes back: there is no oscillation for the limit `4 * len + 8`
  to cut off (`TwoSweepsSuffice`).
* One whose dependencies are not valid stays out, and nothing else changes.

What makes the loop safe is therefore that it runs after every single operation.
The rest follows from a settled register. `DenialsErase`: `is_valid_document` leaves out valid
operations that do not cover the edit, but no deny, since a deny covers everything; and where the deepest
operations deny, those that are left still do (`DenialCovered`). `FavouredCommandsRule`: `current_top_level_deps` makes the new
operation depend on the whole deepest valid level; either it is then deeper than all
others, or it has no dependencies and beats every rival on the first level (`NewestDecides`,
with the levels of `LogsAreLevelled`). `ConvergenceUnlessCrossed`: if two settled registers of
one log differ, behind the first difference stands an unfavoured operation that only the one
holds and a favoured rival that only the other holds (`Disagreement`); what the rival depends on
leads back the same way, and the two pairs are what `Crossed` names. The order of
arrival does not matter to any definition but the sweeps (`OrderIrrelevant`), so settled registers of the same
operations agree.

### Why the text is a function of the valid edits

`InOrderSorts`: a log in which dots are names has an edit of every rank, so `InOrder` is its one
ascending arrangement. `RenderTextIsChain`: the text is the last of a chain of texts, one for each
edit done. Two chains that have done the same valid edits are at the same text (`SameMarkedSameText`): where the next edit
of either is not valid it changes nothing, and where both are valid they are the same edit, since each is
the least of those still to come. Characters stay distinct because an edit inserts its own dot (`ChainLegible`). For
`LastEditExact` the chain after the step is the chain before it and one edit more, which
does what its author asked for on any text (`AppliedTakesEffect`).

### How recursive functions are reasoned about

`Ancestors` and `Sweeps` are recursive functions, and what a recursive definition computes
needs induction. `NumberFacts` has it for sets, without an operator as a parameter: a set of numbers
has a least element unless it is empty (`MinExists`), a bounded one a greatest (`MaxExists`), and one that holds 0 and
with a number the next holds all up to a bound (`Climb`). A proof puts the
arguments for which the claim fails into a set, takes the one with least measure (unseen nodes,
sweeps left) and unfolds the function once. That such functions exist is shown the same
way (`LoopExists`, `ChainExists`). `FoldLeft` is unfolded into such a chain first (`FoldedExists`, `ChainOfTexts`).

### What stays with TLC

* Liveness: `PeersAgree`, `EveryCommandAnswered`, `HandlerEnds`, `ScriptCompletes`,
  `ToolEnds`, `SendsReturn`, `QuitWhileConnected`. The prover does not reason about fairness and ENABLED.
* The five refuted properties; a counterexample is all there is to say.

## 5. Plan

The models of this plan are there, apart from two refinements of what exists:

1. `Register`: an abstract specification of what one site promises its users (rights
   and visible edits as a function of what has been received), implemented by `Accure`.
   For sites whose decisions have not crossed, `ConvergenceUnlessCrossed` says that this function exists.
2. `DagMachine`: `add_node` and `add_edge` in any order, levels against shortest distances.
   For operations that arrive after their dependencies, `LogsAreLevelled` has the part the core relies on.

No safety property of a passing run is left without a proof. Liveness stays with TLC.

## 6. Not modelled

The Automerge bridge (used by tests only; the server calls Automerge itself), argument parsing, drawing,
logging, serialization and its errors, the size of a frame (what the limit of 16 MiB does is in
`Session`, a `Break` that loses the message, and in `Connection`, a writer that ends; not in
`Terminal`), the Bloom filter of Automerge's sync, and
`State.undelivered`, `State.applied` and `last_known_dot_for_tuple`, which nothing in the
program uses. Time is left out except where something races with it: the deadline of `accure-send`.
`PROJECT.json` lists every component with its status.
