---------------------------- MODULE SessionManager ----------------------------
(***************************************************************************)
(* The main agents of one session (daemon/src/session_manager.rs) and the  *)
(* life of their tasks (the skeleton of run_agent, runtime/src/            *)
(* agent_loop.rs).  Every MessageSend request is a concurrent call of      *)
(* send_message; plain messages find the session's main agent IN THE       *)
(* DATABASE or spawn one, under the session's spawn lock, and are delivered*)
(* to its inbox or, when its task is gone, to a restarted task.  A task    *)
(* registers its row in the database when it starts running, reads its     *)
(* inbox once at the start and after every turn with tool calls, and ends  *)
(* with the first turn that has none.                                      *)
(*                                                                         *)
(* One session is modelled: the spawn locks are per session and the agents *)
(* map is keyed by agent, so sessions do not interact here.  The agents    *)
(* mutex is held for single map operations and is not a variable.          *)
(***************************************************************************)
EXTENDS Naturals, Sequences, FiniteSets

CONSTANTS
  Request,       \* the MessageSend requests; each stands for its text as well
  Kind,          \* the kinds of text the clients send
  NoText,        \* the empty string /tell delivers in place of its text
  MaxTask,       \* bound: how many agent tasks are ever spawned
  MaxTurns,      \* MAX_TURNS of agent_loop.rs (30 in the code)
  StorageFails   \* whether the upsert of an agent's row may fail

\* What is_multiplex_command and classify make of a text.
Route == {"plain",   \* no command of the multiplex
          "new",     \* /new <task>: Route::SpawnNew
          "tell",    \* /tell <id> <text>: Route::ToAgent
          "main",    \* /tell <name> <text>: Route::Main
          "steer"}   \* /steer <text>: Route::Steer of the nil id

ASSUME KindAssumption == Kind \subseteq Route
ASSUME NoTextAssumption == NoText \notin Request
ASSUME BoundAssumption == MaxTask \in Nat /\ MaxTurns \in Nat \ {0}
ASSUME StorageAssumption == StorageFails \in BOOLEAN

Task == 1 .. MaxTask     \* a task is named by its spawn_id, in spawn order
Agent == Task            \* an agent, by the spawn that created it
NoTask == 0
NoRequest == NoText

VARIABLES
  kind,       \* kind[r]: the route of the text of r, chosen when it is sent
  rows,       \* the Main rows of the agents table, ORDER BY created_at
  status,     \* status[a]: the status column of a's row
  agents,     \* agents[a]: spawn_id of a's RunningAgent entry, or NoTask
  lock,       \* the request that holds the session's spawn lock
  pc,         \* pc[r]: where the call of send_message stands
  target,     \* target[r]: the agent found or spawned for r
  fresh,      \* fresh[r]: the task r has spawned and not yet entered
  next,       \* number of tasks spawned so far, plus 1
  state,      \* state[t]: where the task stands
  agent_of,   \* agent_of[t]: the agent_id task t runs
  inbox,      \* inbox[t]: messages sent to t and not yet read by it
  cancelled,  \* cancelled[t]: t's CancellationToken
  turns,      \* turns[t]: turns started
  history,    \* history[t]: the user messages t has read (its dialogue)
  watched     \* watched[t]: a watcher awaits the handle of t

requestVars == <<kind, lock, pc, target, fresh>>
taskVars == <<state, agent_of, inbox, cancelled, turns, history>>
vars == <<kind, rows, status, agents, lock, pc, target, fresh, next,
          state, agent_of, inbox, cancelled, turns, history, watched>>

PC == {"idle", "waiting", "find", "spawn", "insert", "deliver",
       "restart", "reinsert", "done", "failed"}

State == {"unborn", "starting", "recv", "turn", "stream", "drain",
          "finishing", "ending", "dead"}

Init ==
  /\ kind = [r \in Request |-> "plain"]
  /\ rows = <<>>
  /\ status = [a \in Agent |-> "none"]
  /\ agents = [a \in Agent |-> NoTask]
  /\ lock = NoRequest
  /\ pc = [r \in Request |-> "idle"]
  /\ target = [r \in Request |-> NoTask]
  /\ fresh = [r \in Request |-> NoTask]
  /\ next = 1
  /\ state = [t \in Task |-> "unborn"]
  /\ agent_of = [t \in Task |-> NoTask]
  /\ inbox = [t \in Task |-> <<>>]
  /\ cancelled = [t \in Task |-> FALSE]
  /\ turns = [t \in Task |-> 0]
  /\ history = [t \in Task |-> <<>>]
  /\ watched = [t \in Task |-> FALSE]

\* Alive if the receiver were dropped with the loop, before the final status.
AliveUntilFinish(t) == state[t] \notin {"unborn", "finishing", "ending", "dead"}

\* The receiver of t's inbox exists: sends to it succeed.
Alive(t) == state[t] \notin {"unborn", "dead"}

\* The call of r returns: its guard on the session lock is dropped.
Return(r, result) ==
  /\ pc' = [pc EXCEPT ![r] = result]
  /\ lock' = NoRequest
  /\ UNCHANGED <<kind, target, fresh>>

Goto(r, place) ==
  /\ pc' = [pc EXCEPT ![r] = place]
  /\ UNCHANGED <<kind, lock>>

-------------------------------------------------------------------------------
(* send_message and handle_multiplex. *)

\* A client's MessageSend reaches the manager.
Arrive(r) ==
  /\ pc[r] = "idle"
  /\ pc' = [pc EXCEPT ![r] = "waiting"]
  /\ \E k \in Kind : kind' = [kind EXCEPT ![r] = k]
  /\ UNCHANGED <<lock, rows, status, agents, target, fresh, next, taskVars, watched>>

\* The session's lock is taken by every route but ToAgent and Steer.  /new goes straight
\* to the spawn.
AcquireLock(r) ==
  /\ pc[r] = "waiting"
  /\ kind[r] \in {"plain", "new", "main"}
  /\ lock = NoRequest
  /\ lock' = r
  /\ pc' = [pc EXCEPT ![r] = IF kind[r] = "new" THEN "spawn" ELSE "find"]
  /\ UNCHANGED <<kind, rows, status, agents, target, fresh, next, taskVars, watched>>

\* The session's main agent is the first Main row of the agents table.
FindMain(r) ==
  /\ pc[r] = "find"
  /\ \/ /\ rows = <<>>
        /\ Goto(r, "spawn")
        /\ UNCHANGED <<target, fresh>>
     \/ /\ rows # <<>>
        /\ kind[r] = "plain"
        /\ target' = [target EXCEPT ![r] = Head(rows)]
        /\ Goto(r, "deliver")
        /\ UNCHANGED fresh
     \/ /\ rows # <<>>
        /\ kind[r] = "main"
        /\ Return(r, "done")
  /\ UNCHANGED <<rows, status, agents, next, taskVars, watched>>

\* A new task of agent a with the messages box in its inbox (tokio::spawn).
Spawn(r, a, box) ==
  /\ next <= MaxTask
  /\ next' = next + 1
  /\ fresh' = [fresh EXCEPT ![r] = next]
  /\ state' = [state EXCEPT ![next] = "starting"]
  /\ agent_of' = [agent_of EXCEPT ![next] = a]
  /\ inbox' = [inbox EXCEPT ![next] = box]
  /\ UNCHANGED <<cancelled, turns, history>>

\* spawn_main_agent up to tokio::spawn: a new agent_id, an empty inbox.
SpawnMain(r) ==
  /\ pc[r] = "spawn"
  /\ Spawn(r, next, <<>>)
  /\ target' = [target EXCEPT ![r] = next]
  /\ Goto(r, "insert")
  /\ UNCHANGED <<rows, status, agents, watched>>

\* InsertEntry that arms no watcher.
InsertUnwatched(r) ==
  /\ pc[r] = "insert"
  /\ agents' = [agents EXCEPT ![target[r]] = fresh[r]]
  /\ IF kind[r] = "main"
       THEN Return(r, "done")
       ELSE Goto(r, "deliver") /\ UNCHANGED <<target, fresh>>
  /\ UNCHANGED <<rows, status, next, taskVars, watched>>

\* The rest of spawn_main_agent: the entry, then the watcher of the handle.
InsertEntry(r) ==
  /\ pc[r] = "insert"
  /\ agents' = [agents EXCEPT ![target[r]] = fresh[r]]
  /\ watched' = [watched EXCEPT ![fresh[r]] = TRUE]
  /\ IF kind[r] = "main"
       THEN Return(r, "done")
       ELSE Goto(r, "deliver") /\ UNCHANGED <<target, fresh>>
  /\ UNCHANGED <<rows, status, next, taskVars>>

\* Deliver that restarts an agent whose entry it finds although its task lives.
DeliverAlwaysRestarts(r) ==
  /\ pc[r] = "deliver"
  /\ Goto(r, "restart")
  /\ UNCHANGED <<rows, status, agents, target, fresh, next, taskVars, watched>>

\* Deliver moved to a helper that takes the session lock itself.
DeliverRelocks(r) ==
  /\ pc[r] = "deliver"
  /\ lock = NoRequest
  /\ Return(r, "done")
  /\ UNCHANGED <<rows, status, agents, next, taskVars, watched>>

\* Under the agents lock: send to the inbox of the agent's entry.  A plain
\* message whose send fails (the receiver is gone, or there is no entry) goes
\* to restart_agent; /new ignores a failed send.
Deliver(r) ==
  /\ pc[r] = "deliver"
  /\ LET t == agents[target[r]]
         sent == t # NoTask /\ Alive(t)
     IN \/ /\ sent
           /\ inbox' = [inbox EXCEPT ![t] = Append(@, r)]
           /\ Return(r, "done")
        \/ /\ ~sent /\ kind[r] = "new"
           /\ Return(r, "done")
           /\ UNCHANGED inbox
        \/ /\ ~sent /\ kind[r] = "plain"
           /\ Goto(r, "restart")
           /\ UNCHANGED <<target, fresh, inbox>>
  /\ UNCHANGED <<rows, status, agents, next, state, agent_of, cancelled, turns,
                 history, watched>>

\* restart_agent up to tokio::spawn: same agent_id, new inbox that already
\* holds the message, empty initial_history.
RestartSpawn(r) ==
  /\ pc[r] = "restart"
  /\ Spawn(r, target[r], <<r>>)
  /\ Goto(r, "reinsert")
  /\ UNCHANGED <<rows, status, agents, target, watched>>

\* The rest of restart_agent: the entry is replaced, the watcher armed.
RestartInsert(r) ==
  /\ pc[r] = "reinsert"
  /\ agents' = [agents EXCEPT ![target[r]] = fresh[r]]
  /\ watched' = [watched EXCEPT ![fresh[r]] = TRUE]
  /\ Return(r, "done")
  /\ UNCHANGED <<rows, status, next, taskVars>>

\* An error on the way (list_agents, get_session, unknown model, no secret)
\* before the task is spawned: the call returns Err.
Fail(r) ==
  /\ pc[r] \in {"find", "spawn", "restart"}
  /\ Return(r, "failed")
  /\ UNCHANGED <<rows, status, agents, next, taskVars, watched>>

\* /tell <id> <text> (Route::ToAgent): no session lock; the entry of the named
\* agent, if it has one, is sent the empty string.
Tell(r, a) ==
  /\ pc[r] = "waiting"
  /\ kind[r] = "tell"
  /\ LET t == agents[a] IN
       inbox' = IF t # NoTask /\ Alive(t)
                  THEN [inbox EXCEPT ![t] = Append(@, NoText)]
                  ELSE inbox
  /\ target' = [target EXCEPT ![r] = a]
  /\ Goto(r, "done")
  /\ UNCHANGED <<rows, status, agents, fresh, next, state, agent_of, cancelled,
                 turns, history, watched>>

\* /steer (Route::Steer): addressed to the nil id, which is no agent's.
Steer(r) ==
  /\ pc[r] = "waiting"
  /\ kind[r] = "steer"
  /\ Goto(r, "done")
  /\ UNCHANGED <<rows, status, agents, target, fresh, next, taskVars, watched>>

\* AgentInterrupt: the token of the agent's current entry is cancelled.
Interrupt(a) ==
  /\ agents[a] # NoTask
  /\ ~cancelled[agents[a]]
  /\ cancelled' = [cancelled EXCEPT ![agents[a]] = TRUE]
  /\ UNCHANGED <<rows, status, agents, requestVars, next, state, agent_of,
                 inbox, turns, history, watched>>

\* shutdown_all: every entry's token is cancelled.
ShutdownAll ==
  /\ cancelled' = [t \in Task |->
                     cancelled[t] \/ \E a \in Agent : agents[a] = t]
  /\ cancelled' # cancelled
  /\ UNCHANGED <<rows, status, agents, requestVars, next, state, agent_of,
                 inbox, turns, history, watched>>

-------------------------------------------------------------------------------
(* The agent task: run_agent. *)

\* A step of t from place p to place q that touches its control state only.
Move(t, p, q) ==
  /\ state[t] = p
  /\ state' = [state EXCEPT ![t] = q]

\* upsert_agent: the agent's row is inserted, or its status column updated.
\* The task ignores an error of the call (let _ =).
Upsert(t, value) ==
  \/ /\ status' = [status EXCEPT ![agent_of[t]] = value]
     /\ rows' = IF \E i \in DOMAIN rows : rows[i] = agent_of[t]
                  THEN rows ELSE Append(rows, agent_of[t])
  \/ /\ StorageFails
     /\ UNCHANGED <<rows, status>>

\* The task registers its agent.
Register(t) ==
  /\ Move(t, "starting", "recv")
  /\ Upsert(t, "working")
  /\ UNCHANGED <<agents, requestVars, next, agent_of, inbox, cancelled, turns,
                 history, watched>>

\* t takes the oldest message of its inbox into its history.
Take(t) ==
  /\ inbox[t] # <<>>
  /\ history' = [history EXCEPT ![t] = Append(@, Head(inbox[t]))]
  /\ inbox' = [inbox EXCEPT ![t] = Tail(@)]

\* inbox.recv().await: the first message; the token is not looked at.
RecvFirst(t) ==
  /\ Move(t, "recv", "turn")
  /\ Take(t)
  /\ UNCHANGED <<rows, status, agents, requestVars, next, agent_of, cancelled,
                 turns, watched>>

\* BeginTurn without the limit of turns.
BeginTurnUnlimited(t) ==
  /\ state[t] = "turn"
  /\ \/ cancelled[t] /\ Move(t, "turn", "finishing") /\ UNCHANGED turns
     \/ ~cancelled[t] /\ Move(t, "turn", "stream") /\ UNCHANGED turns
  /\ UNCHANGED <<rows, status, agents, requestVars, next, agent_of, inbox,
                 cancelled, history, watched>>

\* The top of the loop: cancelled, or the limit of turns, or a new stream.
BeginTurn(t) ==
  /\ state[t] = "turn"
  /\ \/ /\ cancelled[t]
        /\ Move(t, "turn", "finishing")
        /\ UNCHANGED turns
     \/ /\ ~cancelled[t]
        /\ turns' = [turns EXCEPT ![t] = @ + 1]
        /\ Move(t, "turn", IF turns[t] + 1 > MaxTurns THEN "finishing" ELSE "stream")
  /\ UNCHANGED <<rows, status, agents, requestVars, next, agent_of, inbox,
                 cancelled, history, watched>>

\* The stream ends with tool calls, which run (each upserts the agent's row):
\* on to the drain.
RunTools(t) ==
  /\ Move(t, "stream", "drain")
  /\ Upsert(t, "working")
  /\ UNCHANGED <<agents, requestVars, next, agent_of, inbox, cancelled, turns,
                 history, watched>>

\* The stream ends with a final answer, with an error of the provider or of a
\* tool, or because a chunk arrives after the cancel.
EndTurn(t) ==
  /\ Move(t, "stream", "finishing")
  /\ UNCHANGED <<rows, status, agents, requestVars, next, agent_of, inbox,
                 cancelled, turns, history, watched>>

\* Steering: while inbox.try_recv() yields a message, it joins the history.
Drain(t) ==
  /\ state[t] = "drain"
  /\ Take(t)
  /\ UNCHANGED <<rows, status, agents, requestVars, next, state, agent_of,
                 cancelled, turns, watched>>

DrainDone(t) ==
  /\ Move(t, "drain", "turn")
  /\ inbox[t] = <<>>
  /\ UNCHANGED <<rows, status, agents, requestVars, next, agent_of, inbox,
                 cancelled, turns, history, watched>>

\* The final status (Done, Failed or Interrupted) is written.
Finish(t) ==
  /\ Move(t, "finishing", "ending")
  /\ Upsert(t, "ended")
  /\ UNCHANGED <<agents, requestVars, next, agent_of, inbox, cancelled,
                 turns, history, watched>>

\* run_agent returns: the receiver of the inbox is dropped with what it holds.
Exit(t) ==
  /\ Move(t, "ending", "dead")
  /\ UNCHANGED <<rows, status, agents, requestVars, next, agent_of, inbox,
                 cancelled, turns, history, watched>>

\* The task panics while it works: no final status.
Panic(t) ==
  /\ state[t] \in {"stream", "drain"}
  /\ state' = [state EXCEPT ![t] = "dead"]
  /\ UNCHANGED <<rows, status, agents, requestVars, next, agent_of, inbox,
                 cancelled, turns, history, watched>>

\* The watcher without the comparison of spawn ids (C10).
WatchAny(t) ==
  /\ watched[t]
  /\ state[t] = "dead"
  /\ watched' = [watched EXCEPT ![t] = FALSE]
  /\ agents' = [agents EXCEPT ![agent_of[t]] = NoTask]
  /\ UNCHANGED <<rows, status, requestVars, next, taskVars>>

\* The watcher: the handle of t has ended; its entry is removed if it is
\* still the entry of this spawn.
Watch(t) ==
  /\ watched[t]
  /\ state[t] = "dead"
  /\ watched' = [watched EXCEPT ![t] = FALSE]
  /\ agents' = [agents EXCEPT ![agent_of[t]] = IF @ = t THEN NoTask ELSE @]
  /\ UNCHANGED <<rows, status, requestVars, next, taskVars>>

-------------------------------------------------------------------------------
CallStep(r) ==
  \/ AcquireLock(r) \/ FindMain(r) \/ SpawnMain(r) \/ InsertEntry(r)
  \/ Deliver(r) \/ RestartSpawn(r) \/ RestartInsert(r) \/ Fail(r)
  \/ Steer(r) \/ \E a \in Agent : Tell(r, a)

TaskStep(t) ==
  \/ Register(t) \/ RecvFirst(t) \/ BeginTurn(t) \/ RunTools(t) \/ EndTurn(t)
  \/ Drain(t) \/ DrainDone(t) \/ Finish(t) \/ Exit(t)

Next ==
  \/ \E r \in Request : Arrive(r) \/ CallStep(r)
  \/ \E t \in Task : TaskStep(t) \/ Panic(t) \/ Watch(t)
  \/ \E a \in Agent : Interrupt(a)
  \/ ShutdownAll

Spec == Init /\ [][Next]_vars

\* A task goes on; but a turn in progress may last for ever (the shell tool reads
\* timeout_secs and does nothing with it).
Proceed(t) == state[t] # "stream" /\ TaskStep(t)

\* Calls, tasks and watchers are scheduled by tokio and make progress (the
\* session lock is FIFO); users owe nothing, nor do tools.
FairSpec ==
  /\ Spec
  /\ \A r \in Request : WF_vars(CallStep(r))
  /\ \A t \in Task : WF_vars(Proceed(t)) /\ WF_vars(Watch(t))

-------------------------------------------------------------------------------
(* Properties. *)

TypeOK ==
  /\ kind \in [Request -> Route]
  /\ rows \in Seq(Agent)
  /\ status \in [Agent -> {"none", "working", "ended"}]
  /\ agents \in [Agent -> Task \cup {NoTask}]
  /\ lock \in Request \cup {NoRequest}
  /\ pc \in [Request -> PC]
  /\ target \in [Request -> Agent \cup {NoTask}]
  /\ fresh \in [Request -> Task \cup {NoTask}]
  /\ next \in 1 .. (MaxTask + 1)
  /\ state \in [Task -> State]
  /\ agent_of \in [Task -> Agent \cup {NoTask}]
  /\ inbox \in [Task -> Seq(Request \cup {NoText})]
  /\ cancelled \in [Task -> BOOLEAN]
  /\ turns \in [Task -> 0 .. (MaxTurns + 1)]
  /\ history \in [Task -> Seq(Request \cup {NoText})]
  /\ watched \in [Task -> BOOLEAN]

\* An agent_id never has two running tasks: a restart is reached only when the
\* previous task has dropped its inbox (send_message 151-160, C10/H15).
OneTaskPerAgent ==
  \A t, u \in Task :
    (Alive(t) /\ Alive(u) /\ agent_of[t] = agent_of[u]) => t = u

\* A running task can be reached: its entry is in the agents map from the end
\* of its spawn until its end, whatever watchers and restarts do meanwhile.
\* Otherwise it could be neither steered nor interrupted.
RunningIsReachable ==
  \A t \in Task :
    Alive(t) =>
      \/ agents[agent_of[t]] = t
      \/ \E r \in Request : fresh[r] = t /\ pc[r] \in {"insert", "reinsert"}

\* An ended task never overwrites the status of its successor: while a task is
\* past its registration and short of its end, nobody else takes its agent's row
\* out of the working state (its own write may fail, and the row lag behind).
StatusIsCurrent ==
  [][\A t \in Task :
       /\ state[t] \in {"recv", "turn", "stream", "drain", "finishing"}
       /\ status[agent_of[t]] = "working" /\ status'[agent_of[t]] # "working"
       => state'[t] # state[t]]_vars

\* A call of send_message returns: the session lock is always given back, and
\* no call waits for a task.
CallReturns ==
  \A r \in Request : pc[r] = "waiting" ~> pc[r] \in {"done", "failed"}

\* The entry of an ended task does not stay: its watcher removes it, or a
\* restart replaces it ("иначе send падает навсегда", C10).
DeadEntryLeaves ==
  \A t \in Task :
    (state[t] = "dead" /\ \E a \in Agent : agents[a] = t)
      ~> ~\E a \in Agent : agents[a] = t

\* A task that has its first message ends, the turns being limited, unless one of
\* its turns never does.
WorkEnds ==
  \A t \in Task :
    state[t] = "turn" ~> (state[t] = "dead" \/ [](state[t] = "stream"))

\* "find-or-spawn и restart атомарны (H5/H15)", "иначе два Main" (session_
\* manager.rs 39 and 194): without /new a session has one main agent.
OneMainAgent == \A t \in Task : agent_of[t] \in {NoTask, 1}
===============================================================================
