# Verification of VPSAgent

VPSAgent is a daemon that runs LLM agents on a server, and a CLI/TUI that talks
to it over a Unix socket. This directory holds TLA+ models of the daemon, of its
agents and of the commands around it, the TLC configurations that check them on
small instances, and TLAPS proofs of the results that hold for instances of any
size. Paths below are relative to `crates/` unless they begin with `docs/`.

Contents: 1 the system, 2 what is hard about it, 3 the modules, 4 the runs and
their bounds, 5 fairness, 6 the proofs, 7 what the models found, 8 what is not
modelled, 9 what is left.

## 1. The system: components, state, operations, correctness

| Component | State it keeps | Operations | Correct when |
|---|---|---|---|
| Event bus (`daemon/src/broadcast.rs`) | a broadcast channel per session; an mpsc channel and a forwarder task per agent task | `publish` (append to SQLite, then broadcast), `spawn_forwarder`, `subscribe` | a client gets every recorded event once, in order |
| Events table (`storage/src/repos/events.rs`) | rows (session, seq, kind) | `append_event` (seq = max + 1 in a transaction), `events_since` | seq has no gaps |
| Attach task (`daemon/src/server.rs`, SessionAttach) | receiver, `last_sent` | subscribe, replay, live, refill after `Lagged` | replay and live meet with no gap and no repetition |
| Session manager (`daemon/src/session_manager.rs`) | `agents` map (agent -> entry with inbox, token, handle, spawn id), a spawn lock per session | `send_message`, multiplex routes, `spawn_main_agent`, `restart_agent`, watchers, `interrupt_agent`, `shutdown_all` | one task per agent, reachable, its status its own |
| Agent loop (`runtime/src/agent_loop.rs`) | inbox, history, turn counter, token | register, receive, stream a turn, run tools, steer, finish | the dialogue is fit for a provider, what ran is recorded, the end is told |
| Compaction (`runtime/src/compact.rs`) | - | `compact` | results are cut from their calls at the mark only |
| Providers (`providers/src/*.rs`) | the parts of a response, the attempts | body of a request, retries, SSE events into chunks | the agent sees one response, each call with its own arguments |
| Pending answers (`runtime/src/pending.rs`, `tools/ask_user.rs`) | maps from an id to the sender of a oneshot channel | register, resolve, cancel, 60 s / 120 s timeouts | a tool runs only by the user's decision about that call; nothing waits for ever |
| Subagents (`runtime/src/subagent.rs`, `tools/task.rs`) | registry of running subagents, their rows | `spawn`, `depth_of`, `interrupt`, `shutdown_all` | the depth is bounded, every subagent can be stopped |
| Permissions and tools (`runtime/src/permissions.rs`, `tools/*.rs`) | the files of the working directory, the todo lists | `check`, write, edit, multi_edit, apply_patch, shell, todo | the mode is kept; an edit does what it was asked, or nothing |
| RPC server (`daemon/src/server.rs`) | one task per connection | the handlers of `Request` | each request has its reply |
| RPC client and headless run (`daemon/src/client.rs`, `vpsagent/src/main.rs`) | one socket shared by replies and events | `request`, `send`, `drain_events`, `run_headless` | the run ends with its agent, and its exit code is true |
| Daemon lock and life cycle (`daemon/src/lock.rs`, `lib.rs`) | the lock file, the socket's path | `acquire`, `drop`, `run`, shutdown | one daemon; a crash does not keep the next one out |
| Configuration (`core/src/config.rs`) | `config.toml`, `secrets.toml` | `load`, `save`, `save_secrets`, `set_default_model`, `remove_endpoint` | endpoints have one name each, the default model exists, nothing else is lost |
| Init wizard (`tui/src/init.rs`) | step, the provider picked, fields | keys, the save of endpoint and key | what it has saved can be run |
| CLI (`vpsagent/src/main.rs`) | - | init, provider, run, upgrade; `ensure_daemon`, `daemon start/stop/restart` | each command leaves what the next one can use |
| Upgrade (`vpsagent/src/main.rs`) | the binary, `.new`, `.bak` | compare, download, check, three renames, rollback | a program remains |
| TUI (`tui/src/app.rs`, `lib.rs`) | the event view, one `pending_permission`, input | apply an event, handle a key | what waits for the user can be seen and answered |

How they interact. A client's `MessageSend` runs `send_message`, which sends the
text to the inbox of an agent task or spawns one. The task sends `EventKind`s
through its channel to its forwarder, the forwarder to `publish`, which appends
to SQLite and broadcasts; attach tasks write to the clients. Each turn the task
makes a request of its dialogue, and the provider's client gives it the response
in chunks. A tool call that needs permission sends `PermissionRequest`, and
registers a oneshot sender in the registry; a client's `PermissionAnswer` comes
in through the RPC server and resolves it. Subagents run `run_agent` with the
event channel of their parent, in the same directory. Daemon and CLI share only
the file system: the lock file, the socket's path, the configuration.

## 2. What is hard about it

The hazards are listed with their lines in `PROJECT.json`. They come from

- two-step updates with nothing held in between: append then broadcast; find in
  the database, then spawn a task that writes the row later; launch a subagent,
  then enter it; announce a permission request, then register it; test a lock
  file, then remove it; read a file, then write it;
- tasks that end at any time while others still refer to them: watchers,
  restarts, dropped receivers, closed channels;
- bounded buffers: a broadcast channel of 256 values that overtakes slow readers;
- timeouts that race with answers (60 s, 120 s, 3 s for a restart);
- streams that break in the middle, and retries of what was answered in part;
- files that are replaced by several calls of the system: the configuration and
  its keys, the binary in three renames, an edited file emptied and then filled;
- storage calls whose errors are logged or ignored;
- crashes of the daemon that leave its lock and its socket behind.

## 3. The modules

Ghost variables (they record, and no action reads them in a guard) are named as
such where they are declared. Mutated forms of a definition (`RecvAnyEvent`,
`WatchAny`, `FreeRemoving`, ...) stand before the definition they mutate; no
specification uses them, and `PROJECT.json` says which property each must break.

    EventFeed <-implements- EventBus
    SessionManager         AgentLoop, RequestBody <-extends- AgentRequests
    PendingAnswers         ProviderStream        Subagents        DaemonLock
    TextEdits, Permissions, TodoList <-extends- ToolCalls
    ConfigStore <-extends- InitWizard \
                              Upgrade  > <-extends- CommandLine
                          HeadlessRun /

`<X>_proofs` extends `X` and holds what is proved of it; the proofs about
PendingAnswers stand in `ToolCalls_proofs`, those about DaemonLock in
`CommandLine_proofs`. `Induction` has the lemmas on numbers and recursive functions
that the proofs share.

### EventFeed (abstract) and EventBus

`EventFeed` is the promise to clients: the session's events are numbered as they
are recorded and every client receives that numbering, each at its own pace.

`EventBus` is one session's event path. `Emit` is an agent's send into its
channel (any event: the payload plays no role). `AppendEvent`/`AppendFails` and
`Broadcast` are the two halves of `publish` in a forwarder. `Subscribe`,
`ReadReplay`, `SendBacklog`, `BacklogDone`, `RecvEvent`, `SkipSent`,
`RecvLagged`, `ReadMissed` are the attach task of SessionAttach, step by step,
with the error exits `ReadReplayFails`, `ReadMissedFails`, `SendFails`, and
`Disconnect` for the client. `bus` is every seq ever broadcast and `cursor` the
receiver's position, so that a receiver is lagged when it is more than
`BufferSize` behind: this is tokio's broadcast channel.

`ImplementsFeed` is the refinement: `logged <- Len(log)`, `stream <- wire`.

### SessionManager

The main agents of one session: the calls of `send_message` (`pc[r]`), the
`agents` map, the session's spawn lock, the agents' rows in the database, and
the life of their tasks (`state[t]`). A request stands for its text too. `Route`
is what the multiplex makes of a text. The `agents` mutex is held for single
operations and so disappears into the atomicity of actions; the session lock is
a variable, because it is held across awaits. A task is named by its
`spawn_id`, which is also how a watcher tells its own entry from a later one.

`Register`, `RecvFirst`, `BeginTurn`, `RunTools`, `EndTurn`, `Drain`,
`DrainDone`, `Finish`, `Exit` are `run_agent` without the contents of the
dialogue; `Panic` is a task that unwinds. `Upsert` is `upsert_agent`, whose
errors the task ignores.

### AgentLoop, AgentRequests and RequestBody

`AgentLoop` is one agent task from the inside. `history` is the dialogue as
messages (a role and the ids of the calls they carry), `stored` the rows it has
written to the messages table, `events` what the clients are told. `RecvFirst`,
`Ask` (a turn begins, compacted if `TooLong`), `ChunkText`, `ChunkCall`,
`ChunkError`, `ChunkCancelled`, `StreamEnds` are the stream; `DenyCall`,
`AllowCall`, `AskUser`, `Allowed`, `Refused`, `RunTool`, `NoSuchTool` deal with
the calls one by one; `PushUses`, `PushResults`, `Drain`, `DrainDone` end a turn;
`Finish`, `Exit` end the task. `Send` and `Cancel` are the environment and happen
at any point. `Compact` is the arithmetic of `compact`; its marker is a user
message and gets a role of its own only so that properties can speak of it. A
history is too long when it has more than `Threshold` messages or one that is
too long by itself. `WriteFails` loses a write, as `let _ =` does.

`RequestBody` is `body` of the three providers, each with its own shape: which
blocks go into messages of their own, which into one, what becomes of the roles.
`AgentRequests` applies the three to the dialogue of every request the loop makes
(`RequestCarriesDialogue`).

### ProviderStream

`Provider::stream` of the three clients; `kind` is the client. The server is the
environment, in the grammar of each API (`OpenaiSends`, `AnthropicSends`,
`ResponsesSends`): text, calls whose arguments come in two parts (interleaved
where the API allows it), counts of tokens, the end. `SendOk`, `SendFails`
(attempts), `OpenaiRead`, `AnthropicRead`, `ResponsesRead` (one event each into
`acc`, `current`, `usage` and the chunks of `out`), `ServerError`, `SkipBroken`,
`Closed`, `ErrorLate`, `ErrorEarly`, `OpenaiAfterLoop` and `AfterLoop` are the
clients, exits included.

`fits` says whether the server's events have the form that the client reads. An
OpenAI-compatible server may send parts of calls without an index, and all of them
go into the buffer of index 0 (`Slot`). Anthropic's own API has another field name
at the start of a block, and an object for an error, than the client deserializes:
with `fits` false these events are passed over (`AnthropicUnread`).

### PendingAnswers

Agents that wait for a user. A call is one wait: a permission request
(announced, then registered) or a question (registered, then asked). `value[c]`
is its oneshot channel, `registry` the map from ids to senders. `Elapse` and
`DropReceiver` are two steps because the receiver of a timed-out
`timeout(.., rx)` outlives the timer for a moment, in which `resolve` succeeds. A
client has `seen` a prefix of the event stream, holds one request in its `slot`
(`pending_permission`) and sends answers over its `wire`; the daemon handles a
connection's requests in order. Ids are a constant function, so that instances
may choose which calls share one; the run gives each call its own. The
specification is `AnswersSpec`.

### Subagents

`SubagentManager` with those who spawn: the task tool of any agent (which waits,
or not), and clients. A spawn is `Call` (the depth is read from the rows, or
`CallBlind` when the read fails and counts as no rows), `Refuse`, `Launch` (the
row is written, and the task runs from here on) and `Insert` (the entry). The
task upserts the row once more, without a parent (`Register`), and `Finish`es;
its entry stays. `Interrupt` acts on the registry only, and its caller is `told` that
the subagent is stopped whether it was there or not (a ghost). `ShutdownList` takes
the snapshot, `ShutdownExit` interrupts what is in it and ends the process.

### Permissions, TextEdits, TodoList and ToolCalls

`Permissions` is `check` over the table of risks. `TextEdits` is what `edit`,
`multi_edit` and `apply_patch` make of a text, a sequence of lines: the first
occurrence, all occurrences, counting the ones that do not overlap, the unified
diff, whose text the code does not read. `TodoList` is create and update of a list of statuses.

`ToolCalls` lets agents of one working directory call them: `Decide` (policy),
`Allowed`/`Refused` (user), `WriteBegins` (the directory is made, then the bounds
are checked), `EditReads`, and a write in two steps, `Put` (open and truncate)
and `Fill`, either of which may fail (`PutFails`, `FillFails`). `ShellWrites`
and `UserWrites` are other hands, counted apart (`shells`, `strays`), because the
policy speaks of the first and not of the second; `Kill` is the end of the daemon.

### DaemonLock

The start protocol over the lock file and the socket's path, one system call a
step: `CheckExists`, `ReadPid`, `ProbePid`, `RemoveGhost`, `LinkLock` (acquire),
`OpenStorage`, `RemoveOldSocket`, `Bind`, `Listen`, `Stop`, `CloseSocket`, `Unlock`
in a daemon process, and the commands `Ensure`, `CleanSocket`, `Restart`,
`StopAwaited`, `SpawnDaemon`. `PidFails` is a pid file that is not written or not
linked for want of something else than a free path; `Crash` a process killed at any
step; `PidReused` another program under the pid of a crashed one, which a start
takes for a daemon that lives. A lock file holds a process (its pid); a socket's
path names the process that bound it. Starts, stops, restarts and crashes overlap as
they like. The ghost `stolen` is what was removed from a path by somebody who had
looked before another came to hold it. The specification is `LockSpec`.

### ConfigStore, InitWizard, Upgrade, HeadlessRun and CommandLine

`ConfigStore` is `config.toml` and `secrets.toml`: loading, putting in and removing an
endpoint, the resolution of a model, and writes in place that may be cut short
(`Torn`). `InitWizard` is the wizard field by field: the choice of a
provider (`Choose`: any row of the list, which search and categories only help to
find), the fields of a custom provider, token, key, model, and the save in two
writes. `Upgrade` is `run_upgrade`: `Fetch`, `Clean`, `Prepare`,
`Free`, `Place`, `Settle`, `Fail` with its rollback, and `Mishap`, a kill
at any point. `HeadlessRun` is `run_headless` over one connection: the requests
create, send and attach, the lines the server writes (answers and events mixed),
the attach task, an attach that fails (`AttachFails`), the agent's log,
`drain_events` and the exit code.

`CommandLine` composes the three over one disk and one daemon: a command is a
list of stages (`todo`), the wizard comes first where `main` runs it for want of
a key, `init` in a terminal included; `UseModel`, `RemoveProvider`,
`ChangeFails`; a daemon that is up keeps the configuration it was started with.
A `menu` bounds which commands a behaviour may contain.

## 4. The runs and their bounds

| Run | Instance | What it shows |
|---|---|---|
| `bus_single` | 1 forwarder, 2 clients, 3 events, buffer 1, failing storage | no event lost (`NoEventLost`), the bus implements `EventFeed` (`ImplementsFeed`) |
| `clients` | 2 forwarders with 2 events each, 1 client, buffer 2; or 2 clients, 2 permission requests and a question of which 2 are made; fair | `DeliveredInOrder`, `MissedOnlyIfOvertaken`, `EventuallyCaughtUp`; `DecisionIsTheUsers`, `FirstAnswerWins`, `UnansweredIsShown`, `WaitEnds` |
| `session` | 2 requests of every kind, 3 tasks, 2 turns, failing storage, fair | `OneTaskPerAgent`, `RunningIsReachable`, `StatusIsCurrent`, `CallReturns`, `DeadEntryLeaves`, `WorkEnds` |
| `session_two_mains` | 2 plain messages | violates `OneMainAgent` |
| `loop` | 2 messages of users, of usual length or too long, 2 turns, 2 calls a turn, threshold 3, 1 failing write, fair | `RequestIsAnswerable`, `ExecutedIsRecorded`, `RequestCarriesDialogue`, `MessagesAreTaken`, `EndIsTold` |
| `loop_compact` | the same | violates `PairsAreKept` |
| `loop_lost` | the same | violates `MessagesAreProcessed` |
| `provider` | 3 clients, events that fit and that do not; 2 attempts, 2 calls, 1 text, 2 counts, 4 broken events, fair | `OneResponse`, `ArgumentsAreOwn`, `NothingMissing`, `StreamEnds` |
| `tools` | 2 agents (symmetric), a file inside and one outside, 3 calls, 1 foreign write, 1 failure or kill; or 3 subagents, depth 2, 1 interrupt, 1 failure of SQLite | `EditsAreAsAsked`, `OneInProgress`, `PolicyIsKept`, `UndisturbedIsExact`; `DepthLimited`, `RunningIsReachable` |
| `lock_ghosts` | 3 processes, 1 command | violates `OneDaemon` |
| `cli` | three menus of commands (below), 1 cut write, 2 upgrades over 3 versions, 1 mishap, 1 text; or 3 processes and 1 command that start and stop the daemon; fair | `ProgramRemains`, `ConfigIsSound`, `RunAfterWizardWorks`, `OthersAreKept`, `ZeroIsSuccess`, `EndsWithDaemon`; `DaemonHoldsLock`, `SocketIsKept`, `StartAloneServes` |
| `cli_hang` | the same | violates `FinishedRunEnds` |

A run that violates its property checks what a document, a comment or a description
in the source says; section 7 tells what it shows.

Three runs each hold two parts that share no variable: `clients` has EventBus and
PendingAnswers (`MCClients`), `tools` has ToolCalls and Subagents (`MCTools`), `cli`
has CommandLine and DaemonLock (`MCCommandLine`). Which of the two moves is chosen with
the first state, and the other stays as it began, so that the states of the parts add
up and do not multiply; each part keeps all of its behaviours and its own fairness.

Why the bounds are enough.

- Bus: a buffer of 1 or 2 is overrun by 2 or 3 events, so that lagging, refilling
  and lagging again during a refill all occur; a second client shows that
  attachments do not disturb each other; two forwarders are the least that can
  overtake each other, and any number is covered by the proofs.
- Session: two calls and three tasks let a restart, the late watcher of the
  earlier incarnation and a second message meet; two turns make the turn limit
  and the drain occur.
- Loop: two turns of two calls, each of which may be denied, run, asked about or
  unknown, let a turn follow a turn with results, and the threshold is reached
  within the second; with a long message the second turn compacts what the first
  has compacted.
- Provider: two calls are the least whose parts can interleave, be mistaken for
  each other or be cut between them; two parts are the least that can be half
  there; two attempts are the least of which one is repeated; four broken events are
  the least after which Anthropic's client gives a call another's arguments
  (section 7).
- Answers: two clients and two requests give two answers to one call, an answer to
  a request that has been replaced on the screen, and one that is late.
- Subagents: three subagents make a chain longer than the depth of 2.
- Tools: two agents overlap in any order, the third call follows what the first two
  left; the texts and edits are chosen so that a string stands at two places that
  overlap, nowhere, or only after the edit before (`MCTools`).
- Lock: three processes, by hand or by a command, are one that leaves a ghost and two
  that meet it, the least in which a lock is taken from a daemon; a command and a start
  by hand are two rivals for the socket; and two crashes leave a start alone.
- Commands: the menus are {init, add, use, remove} with 3 commands of which 2 run
  the wizard; {add, run} with 3 commands and 1 wizard; {upgrade} with 2. Two
  wizards are the least that can collide in a name; a removal between an addition and
  a use leaves the dangling default; a second upgrade finds what the first, cut
  short, has left; three versions are older, current and newer with a number that
  is missing.

`MaxEvents`, `MaxTask`, `MaxAsked`, `MaxSent`, `MaxFails`, `MaxSays`,
`MaxCounts`, `MaxBroken`, `MaxSubs`, `MaxStops`, `MaxStrays`, `MaxCuts`,
`MaxUpgrades`, `MaxMishaps`, `MaxTexts` and the `MaxCalls` of
ProviderStream and ToolCalls bound what the environment does, in guards;
`MaxTurns` (30), `MaxAttempts` (4) and `MaxDepth` (3) are the code's own limits, made
small. `MaxTask` stops new spawns when it is reached. All runs have `CHECK_DEADLOCK FALSE`: the users may stop asking, and
then nothing is left to do; that nothing stops short is what the liveness
properties say. The symmetry of `tools` permutes agents, which are in no constant but
their own set; the properties of that run are invariants and properties of steps.

## 5. Fairness

- EventBus: weak fairness of each forwarder and each attach task, which tokio
  schedules; none for agents or clients. The liveness run has a working storage:
  an attach task whose refill fails returns, and the stream then ends early.
- SessionManager: weak fairness of each call (tokio's mutex is FIFO, a call
  waits for nothing else), of each watcher, and of each task except in a turn: a
  tool may run for ever (below). None for users, interrupts, panics. `WorkEnds`
  begins with the first message: a task that never gets one waits in
  `inbox.recv()` for ever, deliberately.
- AgentLoop: weak fairness of the task except while a tool runs
  (`WF_vars(Step /\ place # "running")`). The provider's client has a timeout of
  300 s and the wait for a user one of 60 s, but `shell` reads `timeout_secs` and
  waits for its command without a limit (`runtime/src/tools/shell.rs:31,48`), so
  `EndIsTold` and `WorkEnds` allow a task to stay in a tool, and nothing else.
- ProviderStream: weak fairness of the next step as a whole. Either the server
  sends, or the connection ends: `reqwest` gives up a request after 300 s
  (`openai.rs:37`, `anthropic.rs:34`, `openai_responses.rs:38`).
- PendingAnswers: weak fairness of each waiting call, its timer included. None
  for clients: `WaitEnds` holds though no user ever answers.
- DaemonLock: weak fairness of each process and each command that has begun, of
  none to begin.
- CommandLine: weak fairness of the server's tasks and of the client during a
  headless run; none for the user or for the wizard, which may stay open.

## 6. The proofs

Proved by TLAPS for every value of the constants that satisfies the modules'
assumptions (bounds are natural numbers, sets of ids are disjoint, `None` is no
process, and the like). Every safety property that a passing run checks is proved.

`Induction`. The library's induction theorems take an operator as their parameter,
which the provers cannot instantiate. `InductionUpTo` speaks of a set of numbers
instead, and follows from the inclusion of finite sets being well-founded
(`LeastNatural`). `RecursionExists` says that a function defined by recursion up to a
number exists, `RecursionType` what its values are if each step keeps to a set. So
what a proof speaks of is defined in the models as a function on `0 .. n`.

`EventBus_proofs`. `TypeCorrect`. `DeliveryOrdered`: `[]DeliveredInOrder` for any
number of forwarders. That the stream is increasing is not inductive by itself:
`OrderInv` adds that `last_sent` is the greatest seq on the wire (`SentBound`) and
that a backlog is an interval of the log that begins after it
(`BacklogFollows`). `NothingLost` and `FeedImplemented` assume
`SingleForwarder`; `NoLossInv` adds that broadcast and append stay in step
(`BusInStep`: `bus` is 1, 2, 3, ...) and where the cursor of an attachment can be
with respect to `last_sent` (`CursorBound`): what a live client has not been sent
is still ahead of its cursor, and what a lagged one has missed is in the table.
With two forwarders `NoEventLost` is false. `MissedIsOvertaken` says what then
remains, for any number of them. `OvertakeInv`: an event of the log is being
published or is on the bus (`RecordedIsUnderWay`); what has been sent was
recorded (`SentIsRecorded`); what a receiver has behind its cursor is not greater than
what it has sent or is about to send (`BehindCursor`); and what is missing from the
wire was overtaken, or is being published while a greater one is on the bus
(`MissedIsPassed`).

`SessionManager_proofs`. `TypeCorrect` needs `TurnInv` (before the last turn the
counter is within the limit) and `ScopeInv` (targets exist). `AgentHasOneTask`
and `RunningStaysReachable` rest on `SpawnInv`: the lock is held by whoever is
between find and return (`LockInv`); tasks are numbered in order of birth
(`BirthInv`), rows and map entries point to tasks that exist (`RowsInv`,
`MapInv`, `TargetInv`); and, the heart of it, while a call is about to restart an
agent no task of that agent is alive, and while it has not entered the new task
no other one is (`AloneInv`). `StatusStaysCurrent`, a property of steps, follows:
only the agent's one task can write its final status.

`AgentLoop_proofs`. `TypeCorrect`. `RequestsAreAnswerable` rests on `DialogueInv`:
in the history results follow their calls or a marker (`ResultsFollow`), calls are
followed by their results but for the last message before they are pushed
(`UsesPrecede`), it opens with a user and ends with a question where a request can
be made; the lemmas say that pushing, draining and compacting keep that.
`ExecutedStaysRecorded` rests on `RecordInv`: as long as nothing failed, what was
executed is stored or among the calls of the turn under way. `RequestsCarryDialogue` is
about the bodies of three providers for a dialogue of any length. A body is the
flattening of what each message becomes, in order: the lemmas `Flatten...` and
`CarriedFlat` say what blocks a flattening carries, `BlocksTaken` that the filters of
a client take the blocks they name and each of them once. With `WrittenInv` (a user's
message has no calls, one with results has some) nothing that a client leaves out of
a role is ever there. `MessagesStayTaken`: between two turns every message in the inbox
has come since the last drain (`WaitInv`), and as long as no write has failed the
stored messages of users and those in the inbox are all that were sent (`CountInv`).

`ProviderStream_proofs`. `TypeCorrect` with `ResponseInv`: nothing is given out before a
response has begun, and one only ever is. From it `StreamOneResponse`, with `IdsInv`:
no call twice. The rest is by client, over the grammar in which its server speaks
(`GrammarInv`): what can be in the buffer of a call that has come so far
(`OpenaiInv`, `AnthropicInv`, `ResponsesInv`). OpenAI's buffers are of their own
calls by index and emptied when given out, unless several calls have no index
(`Merged`); those of the responses client by item;
Anthropic's only buffer is of the call that has begun last, or of the one before it when
the end of that and the beginning of this were both lost. `StreamArguments` follows
where a call is given out. `StreamWhole` takes also that the calls given out are the
finished ones (`CallsInv`), and that texts and counts have been passed on
(`CountsInv`), both as long as nothing is broken. Both theorems except calls without an
index, and the second Anthropic's calls whose starts are not read (section 7).

`ToolCalls_proofs`, on PendingAnswers. `AnswersTypeCorrect`; what is on a wire was said
by its client.
`OneAnswerIsAccepted` and `DecisionsAreUsers` assume `UniqueIds`: a question's id
is a `Uuid`, a permission request's is the one the provider gave to the tool call, and
`pending.rs` relies on its being unique across the agents. `AnswerInv` says that an
entry of the registry belongs to a call that waits and whose channel is empty
(`RegistryInv`), that what a channel says was said by a user and decides its call
(`ValueInv`), and that an accepted answer is what the channel says (`AcceptedInv`), and
the only one (`OnceInv`). `UnansweredStaysShown` needs no unique ids.

`CommandLine_proofs`, on DaemonLock. `LockTypeCorrect`. That there is one daemon is
not a theorem: a start can take the lock of another (`lock_ghosts`).
`LockIsTheDaemons` says that this is the only way to lose it, whatever overlaps.
`LockInv` adds that a process named by a lock file or by a start that has read one has
started (`StartedInv`), and that whom a start takes for a ghost is dead and does not
come back (`GhostInv`); so a start that removes what it has read removes nobody's
lock. `ServingStaysReachable`: the same of the socket (`SocketInv`): while nothing is
`stolen` there is one daemon, and only the daemon removes or binds the path.

`Subagents_proofs`. `TypeCorrect` and `RunningStaysReachable`, from `SpawnInv`: a
task exists only from its launch on, and whatever is done is in the registry.
`DepthStaysLimited`: the row of an agent that was launched names its parent whoever
wrote it last (`COALESCE`), and that parent was launched before the agent was called
(`RowInv`). So a chain that `depth_of` finds shorter than the limit has reached the
main agent (`ShallowIsTrue`), and a spawn that got past it adds one agent to a chain
that has room for it (`DepthInv`).

`ToolCalls_proofs`. `PolicyHolds`, a property of steps, from `CallsInv`: a call that
runs was allowed by the policy, or the policy asks and the user has said yes to
it, and what is about to write is within its bounds (`PolicyOf`). In plan mode no
file and no directory is touched by an agent; outside, no file is (directories are,
section 7).
`OneStaysInProgress` needs no more than that create and update leave one task in
progress of a list that has one at most. `TextsInvariant`: what was read, computed or
put is a text, and is the result of the tool that computed it (`Made`), which the
lemmas say of the three tools by induction over the lines of a text, the edits of a
series and the lines of a diff (`MatchesCover`, `SeriesIsMade`, `DiffMakesText`).
`EditsStayAsAsked` follows: the place, or
with replace_all the places, that are replaced are those that `Matches` takes, which
do not overlap and leave out none that would not (`MatchesAreAll`). `UndisturbedStaysExact`, a property of steps: a call that
nobody has disturbed since it read or emptied its file finds it as it left it
(`TextsInv`).

`CommandLine_proofs`. `ProgramAlwaysRemains`, from `UpgradeInv`: what each of the
files holds at each stage of the renames. It is proved of the whole composition:
no other command touches the binary. `ZeroMeansSuccess`, from `RunInv`: the log ends
with AgentFinished and has an error only right before it (`LogInv`); the lines carry
events in order and without a gap up to the last one given (`LinesInv`); what the
callback got is followed, to the same end, by what it got later or what is still in the
lines (`ShownInv`); the flags say what is among what it got (`FlagsInv`). With no line
left, an error before any event the callback got is itself among those.
`ConfigStaysSound`, `RunAfterWizardStarts` and `WizardKeepsOthers` rest on
`ConfigInv`: what the wizard holds is of the kinds it types or picks, and the default
it is about to save is one of its models (`WizardInv`); a file that parses has one
endpoint per name (`FilesInv`); the wizard and a run move only while a command is at
them, and no run starts over a torn configuration (`CommandInv`); between the two
writes of a save the endpoint is there and its key is not, afterwards the default model
has a key (`SoundInv`); the daemon's copy is a configuration, and the run was promised
what that copy can spawn (`DaemonInv`). `PutKeeps` and `WithoutKeeps` say what an
endpoint put in or removed leaves of a list of any length: a put leaves every other
endpoint as it is and where it is (`OthersIn`).

Only model-checked: liveness under fairness (`EventuallyCaughtUp`,
`CallReturns`, `DeadEntryLeaves`, `WorkEnds`, `EndIsTold`, `StreamEnds`,
`WaitEnds`, `StartAloneServes`, `EndsWithDaemon`), which is beyond this prover.
`SelectSeq`, the folds, `:>` and `@@` are opaque to it: where a proof speaks of what
they would compute, the models say it with a recursive function or an operator of
their own (`Drained`, `BlocksOf`, `Keyed`).

## 7. What the models found

Each of these is a counterexample of a run that checks what a document, a comment or a
description in the source says; `PROJECT.json` quotes the lines.

- `session_two_mains`: a first message spawns the main agent and returns before
  the task has written its row; the second finds none and spawns another. The
  session lock does not cover the write (`session_manager.rs:137`, `:194`).
- `lock_ghosts`: two starts read the same ghost lock, and the slower removes the lock
  that the faster has linked by then: two daemons (`lock.rs:42`). No ghost is needed: a
  start that finds the file gone when it reads it goes on to remove it too.
- `loop_compact`: the compaction keeps the first fifth and the last two fifths by
  count; of user, text, calls and results it keeps the results, and the request has
  results without their calls, which providers refuse (`compact.rs:31`, `:38`).
- `loop_lost`: a message sent after the last turn began is answered Ok and dropped
  (`agent_loop.rs:355`; FR-074). `MessagesAreTaken` says that nothing else is.
- `cli_hang`: `run_headless` reads events until the server closes the connection,
  and the server keeps it for the client: after AgentFinished the command waits
  for ever (`main.rs:766`, `:820`).

In the following a line of the repository says otherwise as well; the models have the
code as it is, the properties that would touch it name it as their exception, and no
run is made for it.

- A block of Anthropic's API starts in a field `content_block`; the client reads a field
  `block` (`anthropic.rs:340`), the event does not parse, and the calls of that API never
  reach the agent (FR-021; `AnthropicUnread`, `fits`).
- Calls of a server that sends no index are merged into one buffer, where a comment takes
  such a call for the only one (`openai.rs:305`; `Slot`, `Merged`).
- An error of OpenAI's stream before its first chunk is counted as an attempt, and the
  retry of which the comments speak is not made (`openai.rs:246`, `:253`; `ErrorEarly`).
- A client whose probe is out of date removes the socket of a daemon that serves by then;
  nobody can connect, and the lock keeps the next daemon out (`main.rs:997`;
  `CleanSocket`, which marks the socket as `stolen`).
- `shutdown_all` (`session_manager.rs:382`) does not cancel a subagent that is launched
  and not yet entered, or is spawned after its list was taken (`ShutdownList`); and an
  interrupt between launch and entry finds nothing and is answered well
  (`subagent.rs:260`, `tools/task.rs:143`; `Interrupt`).
- `write` makes the directories of a path outside before it refuses it
  (`tools/fs.rs:13`, `:33`; `WriteBegins`).
- An old string that overlaps itself counts as unique though it stands at two places
  (`tools/fs.rs:190`, `:226`; `EditHasOnePlace`).
- `apply_patch` given a diff takes its hunks from the file and not from the patch
  (`tools/apply_patch.rs:30`, `:123`; `ApplyDiff`).
- An error of the agent that comes before the answer to the attach is dropped, and the
  exit code is 0 (`main.rs:809`, `:892`; `Skip`). The error answer to the task always
  comes before that answer and is skipped as a foreign one, so that the code in
  `drain_events` that is to show it never sees it (`client.rs:86`, `:130`).

The models show more, of which no line of the repository says otherwise; the definition
that shows it is named.

- Events: two agents of a session publish at the same time, and the client drops
  the overtaken event as a repetition (`SkipSent`; `MissedOnlyIfOvertaken` says that
  nothing else is missed). An event that cannot be appended is dropped, an
  AgentFinished too (`AppendFails`).
- Messages: `/tell` delivers the empty string (`Tell`); a restarted agent has an empty
  history (`RestartSpawn`). Of a first message that is too long by itself the
  compaction leaves the marker only (`Compact`). Calls that ran in a turn that an
  unknown tool aborts are in no message (`NoSuchTool`).
- Providers: a call that is cut by the end of an OpenAI response is made with Null
  arguments (`Parsed`). Anthropic's client
  keeps the call under way in one variable and takes the end of a block for the end of
  that call: when the end of one call and the beginning of the next are lost to broken
  events, both parts of the next go into the buffer of the first, and with its
  own two parts broken as well the call runs with the arguments of another
  (`AnthropicPart`, `AnthropicBlockStop`; `anthropic.rs:264-299`). The proof of
  `ArgumentsAreOwn` found it, with four broken events where the run then had one.
- Answers: one that comes before its request is registered is refused as unknown
  (`Announce`, `Register`); one that is accepted when the timer has fired has no
  effect (between `Elapse` and `DropReceiver`); one to a question is answered Ok
  and goes nowhere (`IgnoreUserInput`).
- Start: a lock whose pid another program has got keeps every daemon out
  (`PidReused`, `ProbePid`); a restart waits for the socket to go and not for the lock
  (`StopAwaited`).
- Tools: two edits that overlap lose the first (`Fill`); `shell` is told a
  timeout and has none (`ShellEnds`); a list with a task `in_progress`, as the schema of
  `todo` spells it, is refused (`ParsesInList`).
- Configuration: it is written in place; after a torn write the next wizard starts
  from the defaults and the other endpoints are lost (`NewConfig`); a wizard killed
  between its two writes leaves an endpoint without its key (`SaveSecrets`); `provider
  remove` leaves a default model that nobody serves (`RemoveProvider`).

## 8. What is not modelled

- `daemonize.rs`: fork, setsid and redirections, each once and in sequence.
- Model router and its statistics, A/B runs, critics, rewind, hooks: neither the
  daemon nor the CLI calls them. Memory and context read files into the prompt.
- MCP: the client is not connected to the agents' tools; the server keeps no state and
  answers every `tools/call` with a text, running nothing.
- Skills, commands, agent definitions: markdown that is read once into prompts.
- Drawing, the deck of agents and the text buffers of the TUI, OAuth in the wizard,
  its search and categories, and the fetch of a provider's models (any list may come).
- SQL beyond what the modules use (sessions, migrations), and `EventBus::close`,
  which nothing calls.
- `read`, `ls`, `grep`, `web_fetch` read and print. What a text is classified as is a
  table of prefixes; what is done with each class is in SessionManager.
- Sessions are modelled one at a time: locks, channels and maps are keyed by
  session or agent.

## 9. What is left

- A composition of AgentLoop with PendingAnswers and EventBus, in place of the
  three views of one task.
