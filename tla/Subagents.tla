------------------------------- MODULE Subagents -------------------------------
(***************************************************************************)
(* SubagentManager (runtime/src/subagent.rs) and those who use it: the     *)
(* tools task and task_stop of agents (tools/task.rs), AgentSpawn and      *)
(* AgentInterrupt of clients (daemon/src/server.rs) and the shutdown of    *)
(* the daemon.  A spawn reads the agents of the session to find its depth, *)
(* writes the new agent's row, launches its task and enters the handle     *)
(* into the registry, with awaits between these steps.                     *)
(*                                                                         *)
(* A subagent is the number of the spawn call that makes it; 0 is the      *)
(* main agent, which runs all the time.  The dialogue of a task is left to *)
(* AgentLoop.                                                              *)
(***************************************************************************)
EXTENDS Naturals, FiniteSets

CONSTANTS
  MaxSubs,      \* bound: how many spawn calls
  MaxDepth,     \* the limit of nesting (3 in the code)
  MaxStops,     \* bound: interrupts
  MaxSqlErrors, \* bound: failures of SQLite
  NoRow

ASSUME BoundAssumption == {MaxSubs, MaxDepth, MaxStops, MaxSqlErrors} \subseteq Nat
ASSUME NoRowAssumption == NoRow \notin 0 .. MaxSubs

Main == 0
Sub == 1 .. MaxSubs
Agent == {Main} \cup Sub

VARIABLES
  place,      \* where each spawn call stands
  parent,     \* parent_agent_id of the call
  tool,       \* the calls made by the parent's own task, which waits for them
  parentOf,   \* the agents table: parent_id of each subagent's row
  task,       \* the task of each subagent
  cancelled,  \* the subagents whose token is cancelled
  registry,   \* agents: the subagents that have an entry
  stops,      \* interrupts made
  sqlErrors,  \* failures of SQLite
  down,       \* the shutdown of the daemon
  toStop,     \* what the shutdown still has to interrupt
  blind       \* ghost: the calls whose read of the agents failed

callVars == <<place, parent, tool, blind>>
downVars == <<down, toStop>>
subagentsVars == <<callVars, parentOf, task, cancelled, registry, stops, sqlErrors, downVars>>

SubagentsInit ==
  /\ place = [s \in Sub |-> "idle"]
  /\ parent = [s \in Sub |-> Main]
  /\ tool = {}
  /\ parentOf = [s \in Sub |-> NoRow]
  /\ task = [s \in Sub |-> "none"]
  /\ cancelled = {}
  /\ registry = {}
  /\ stops = 0
  /\ sqlErrors = 0
  /\ down = "up"
  /\ toStop = {}
  /\ blind = {}

-------------------------------------------------------------------------------
(* Rows.  A write names the agent and its parent, if the writer knows it;     *)
(* COALESCE keeps a parent that is there.  Status is in SessionManager.       *)

SqlFails == sqlErrors < MaxSqlErrors /\ sqlErrors' = sqlErrors + 1

\* Upsert whose conflict clause replaces the parent.
UpsertReplacing(s, p) == parentOf' = [parentOf EXCEPT ![s] = p]

\* upsert_agent.
Upsert(s, p) == parentOf' = [parentOf EXCEPT ![s] = IF @ = NoRow THEN p ELSE @]

\* The agents above a, one step of up after the other.
Chain(up, a) ==
  LET chain[n \in 0 .. MaxDepth] == IF n = 0 THEN a ELSE up[chain[n - 1]] IN chain

\* The parents in the table.
Up == [a \in Agent \cup {NoRow} |-> IF a \in Sub THEN parentOf[a] ELSE NoRow]

\* depth_of: how many parents there are, at most MaxDepth.
DepthOf(a) == Cardinality({n \in 1 .. MaxDepth : Chain(Up, a)[n] # NoRow})

-------------------------------------------------------------------------------
(* spawn.                                                                     *)

Running(a) == a = Main \/ task[a] \in {"launched", "working"}
InTool(a) == \E s \in tool : parent[s] = a /\ place[s] \notin {"idle", "done", "failed"}

Go(s, to) == place' = [place EXCEPT ![s] = to]

\* The tool task of an agent that is not in a tool, or AgentSpawn of a client
\* that has seen the agent.
CalledBy(s, a) ==
  /\ down # "exited"
  /\ place[s] = "idle" /\ \A r \in Sub : r < s => place[r] # "idle"
  /\ parent' = [parent EXCEPT ![s] = a]
  /\ \/ (a # Main => task[a] = "working") /\ ~InTool(a) /\ tool' = tool \cup {s}
     \/ (a # Main => parentOf[a] # NoRow) /\ UNCHANGED tool

\* depth_of: how deep the parent is.
Call(s, a) ==
  /\ CalledBy(s, a)
  /\ Go(s, IF DepthOf(a) >= MaxDepth THEN "failed" ELSE "checked")
  /\ UNCHANGED <<blind, parentOf, task, cancelled, registry, stops, sqlErrors, downVars>>

\* A read of the agents that fails counts as no agents at all.
CallBlind(s, a) ==
  /\ CalledBy(s, a)
  /\ SqlFails
  /\ Go(s, "checked")
  /\ blind' = blind \cup {s}
  /\ UNCHANGED <<parentOf, task, cancelled, registry, stops, downVars>>

\* No definition, no model, no key, no session, or a row that cannot be written.
Refuse(s) ==
  /\ down # "exited" /\ place[s] = "checked"
  /\ SqlFails
  /\ Go(s, "failed")
  /\ UNCHANGED <<parent, tool, blind, parentOf, task, cancelled, registry, stops, downVars>>

\* The row; once it is there, AgentSpawned and tokio::spawn without an await.
Launch(s) ==
  /\ down # "exited" /\ place[s] = "checked"
  /\ Upsert(s, parent[s])
  /\ task' = [task EXCEPT ![s] = "launched"]
  /\ Go(s, "launched")
  /\ UNCHANGED <<parent, tool, blind, cancelled, registry, stops, sqlErrors, downVars>>

\* Insert into the manager that was cloned for the parent's task, as if the
\* clones did not share their registry.
InsertOwn(s) ==
  /\ down # "exited" /\ place[s] = "launched"
  /\ registry' = IF s \in tool /\ parent[s] # Main THEN registry ELSE registry \cup {s}
  /\ Go(s, "done")
  /\ UNCHANGED <<parent, tool, blind, parentOf, task, cancelled, stops, sqlErrors, downVars>>

\* The handle gets its entry in the registry, which all clones share.
Insert(s) ==
  /\ down # "exited" /\ place[s] = "launched"
  /\ registry' = registry \cup {s}
  /\ Go(s, "done")
  /\ UNCHANGED <<parent, tool, blind, parentOf, task, cancelled, stops, sqlErrors, downVars>>

-------------------------------------------------------------------------------
(* The task of a subagent: run_agent, as far as it matters here. *)

\* Its own row, written without a parent (an error is ignored: the row is there).
Register(s) ==
  /\ down # "exited" /\ task[s] = "launched"
  /\ task' = [task EXCEPT ![s] = "working"]
  /\ Upsert(s, NoRow)
  /\ UNCHANGED <<callVars, cancelled, registry, stops, sqlErrors, downVars>>

\* The task ends, between two of its tools; its entry stays.
Finish(s) ==
  /\ down # "exited" /\ task[s] = "working" /\ ~InTool(s)
  /\ task' = [task EXCEPT ![s] = "dead"]
  /\ Upsert(s, NoRow)
  /\ UNCHANGED <<callVars, cancelled, registry, stops, sqlErrors, downVars>>

-------------------------------------------------------------------------------
(* Interrupts. *)

\* AgentInterrupt and task_stop for an agent that is known from the table or
\* from AgentSpawned: answered well, whether there is an entry or not.
Interrupt(s) ==
  /\ down # "exited" /\ stops < MaxStops
  /\ parentOf[s] # NoRow
  /\ stops' = stops + 1
  /\ cancelled' = cancelled \cup ({s} \cap registry)
  /\ UNCHANGED <<callVars, parentOf, task, registry, sqlErrors, downVars>>

\* shutdown_all: first a list of all entries.
ShutdownList ==
  /\ down = "up"
  /\ down' = "stopping"
  /\ toStop' = registry
  /\ UNCHANGED <<callVars, parentOf, task, cancelled, registry, stops, sqlErrors>>

\* Then the interrupt of each, by its id; the main agents are cancelled and the
\* process exits, waiting for no task.
ShutdownExit ==
  /\ down = "stopping"
  /\ down' = "exited"
  /\ toStop' = {}
  /\ cancelled' = cancelled \cup (toStop \cap registry)
  /\ UNCHANGED <<callVars, parentOf, task, registry, stops, sqlErrors>>

-------------------------------------------------------------------------------
CallStep(s) == Refuse(s) \/ Launch(s) \/ Insert(s)
TaskStep(s) == Register(s) \/ Finish(s)

SubagentsNext ==
  \/ \E s \in Sub : CallStep(s) \/ TaskStep(s) \/ Interrupt(s)
  \/ \E s \in Sub, a \in Agent : Call(s, a) \/ CallBlind(s, a)
  \/ ShutdownList \/ ShutdownExit

SubagentsSpec == SubagentsInit /\ [][SubagentsNext]_subagentsVars

-------------------------------------------------------------------------------
(* Properties. *)

TypeOK ==
  /\ place \in [Sub -> {"idle", "checked", "launched", "done", "failed"}]
  /\ parent \in [Sub -> Agent]
  /\ {tool, cancelled, registry, toStop, blind} \subseteq SUBSET Sub
  /\ parentOf \in [Sub -> Agent \cup {NoRow}]
  /\ task \in [Sub -> {"none", "launched", "working", "dead"}]
  /\ stops \in 0 .. MaxStops
  /\ sqlErrors \in 0 .. MaxSqlErrors
  /\ down \in {"up", "stopping", "exited"}

\* "Лимит глубины вложенности — 3": no subagent is launched below that depth,
\* by agents that spawn each other or by clients, while its task and theirs
\* write the same rows, unless the agents could not be read at its own spawn: such a
\* spawn does not open the way for those that it makes.
TrueUp == [a \in Agent |-> IF a = Main THEN Main ELSE parent[a]]
DepthLimited ==
  \A s \in Sub : task[s] # "none" /\ s \notin blind => Chain(TrueUp, s)[MaxDepth] = Main

\* A task that runs can be interrupted and told: it has an entry in the registry
\* that all managers share, or the spawn is about to make one.
RunningIsReachable ==
  \A s \in Sub : Running(s) => s \in registry \/ place[s] = "launched"
===============================================================================
