------------------------- MODULE SessionManager_proofs -------------------------
(***************************************************************************)
(* Proofs about SessionManager: type correctness, and that find-or-spawn   *)
(* and restart under the session lock never give one agent two running     *)
(* tasks, nor hide a running task from the agents map.                     *)
(***************************************************************************)
EXTENDS SessionManager, TLAPS

\* A call between the acquisition and the release of the session lock.
Holding(r) == pc[r] \in {"find", "spawn", "insert", "deliver", "restart", "reinsert"}

\* A call that has spawned a task and not yet entered it into the map.
Entering(r) == pc[r] \in {"insert", "reinsert"}

-------------------------------------------------------------------------------
(* The parts of the inductive invariant. *)

\* Mutual exclusion of the calls of one session.
LockInv ==
  \A r \in Request : Holding(r) <=> lock = r

\* Tasks are born in order, each for an agent that already has its name.
BirthInv ==
  \A t \in Task :
    /\ state[t] = "unborn" <=> t >= next
    /\ state[t] # "unborn" => agent_of[t] \in Agent /\ agent_of[t] < next

\* No row of an agent that is yet to come.
RowsInv ==
  \A i \in DOMAIN rows : rows[i] < next

\* The map leads from an agent to a task of that agent.
MapInv ==
  \A a \in Agent : agents[a] # NoTask =>
    state[agents[a]] # "unborn" /\ agent_of[agents[a]] = a

\* The agent a call is about, and the task it has spawned for it.
TargetInv ==
  \A r \in Request :
    /\ pc[r] \in {"insert", "deliver", "restart", "reinsert"} =>
         target[r] \in Agent /\ target[r] < next
    /\ Entering(r) =>
         /\ fresh[r] \in Task
         /\ state[fresh[r]] # "unborn"
         /\ agent_of[fresh[r]] = target[r]

\* A call that restarts an agent, or has just started it, is alone with it.
AloneInv ==
  \A r \in Request : \A t \in Task :
    /\ (pc[r] = "restart" /\ agent_of[t] = target[r]) => ~Alive(t)
    /\ (Entering(r) /\ agent_of[t] = target[r] /\ t # fresh[r]) => ~Alive(t)

SpawnInv ==
  /\ LockInv
  /\ BirthInv
  /\ RowsInv
  /\ MapInv
  /\ TargetInv
  /\ AloneInv
  /\ RunningIsReachable

-------------------------------------------------------------------------------
(* Type correctness. *)

\* The turn beyond the limit is counted, and is not run.
TurnInv ==
  \A t \in Task :
    state[t] \in {"unborn", "starting", "recv", "turn", "stream", "drain"}
      => turns[t] <= MaxTurns

\* Born tasks and working calls know their agent; tasks are born in order.
ScopeInv ==
  /\ \A t \in Task : state[t] # "unborn" => agent_of[t] \in Agent
  /\ \A t \in Task : t >= next => state[t] = "unborn"
  /\ \A r \in Request :
       pc[r] \in {"insert", "deliver", "restart", "reinsert"} => target[r] \in Agent
  /\ \A r \in Request : Entering(r) => fresh[r] \in Task

TypeInv == TypeOK /\ TurnInv /\ ScopeInv

LEMMA HeadTailType ==
  ASSUME NEW S, NEW s \in Seq(S), s # <<>>
  PROVE  Head(s) \in S /\ Tail(s) \in Seq(S)
OBVIOUS

LEMMA AppendType ==
  ASSUME NEW S, NEW s \in Seq(S), NEW e \in S
  PROVE  Append(s, e) \in Seq(S)
OBVIOUS

LEMMA TypeInit == Init => TypeInv
<1> SUFFICES ASSUME Init PROVE TypeInv
  OBVIOUS
<1> USE BoundAssumption DEF Init, Task, Agent, NoTask, NoRequest
<1>1. <<>> \in Seq(Agent) /\ <<>> \in Seq(Request \cup {NoText})
  OBVIOUS
<1>2. next \in 1 .. (MaxTask + 1) /\ 0 \in 0 .. (MaxTurns + 1)
  OBVIOUS
<1>3. TypeOK
  BY <1>1, <1>2 DEF TypeOK, Route, PC, State
<1>4. TurnInv /\ ScopeInv
  BY DEF TurnInv, ScopeInv, Entering
<1> QED
  BY <1>3, <1>4 DEF TypeInv

\* The steps of a call that spawn no task.
LEMMA TypeCallStep ==
  ASSUME TypeInv, NEW r \in Request,
         \/ Arrive(r) \/ AcquireLock(r) \/ FindMain(r) \/ InsertEntry(r)
         \/ Deliver(r) \/ RestartInsert(r) \/ Fail(r) \/ Steer(r)
         \/ \E a \in Agent : Tell(r, a)
  PROVE  TypeInv'
<1> USE BoundAssumption, KindAssumption
    DEF TypeInv, TypeOK, TurnInv, ScopeInv, Entering, taskVars, Goto, Return
<1>1. CASE Arrive(r)
  BY <1>1 DEF Arrive, PC
<1>6. CASE AcquireLock(r)
  BY <1>6 DEF AcquireLock, PC
<1>7. CASE Fail(r)
  BY <1>7 DEF Fail, PC, NoRequest
<1>8. CASE Steer(r)
  BY <1>8 DEF Steer, PC
<1>2. CASE FindMain(r)
  <2>1. CASE rows = <<>>
    BY <1>2, <2>1 DEF FindMain, PC
  <2>2. CASE rows # <<>> /\ kind[r] = "plain"
    <3>1. Head(rows) \in Agent
      BY <2>2, HeadTailType
    <3>2. target' = [target EXCEPT ![r] = Head(rows)]
          /\ pc' = [pc EXCEPT ![r] = "deliver"]
          /\ UNCHANGED <<kind, lock, fresh, rows, status, agents, next, taskVars, watched>>
      BY <1>2, <2>2 DEF FindMain
    <3>3. TypeOK'
      BY <3>1, <3>2 DEF PC
    <3>4. TurnInv' /\ ScopeInv'
      BY <3>1, <3>2
    <3> QED
      BY <3>3, <3>4
  <2>3. CASE rows # <<>> /\ kind[r] = "main"
    BY <1>2, <2>3 DEF FindMain, PC, NoRequest
  <2> QED
    BY <1>2, <2>1, <2>2, <2>3 DEF FindMain
<1>3. CASE InsertEntry(r)
  <2>1. fresh[r] \in Task
    BY <1>3 DEF InsertEntry
  <2> QED
    <3>1. CASE kind[r] = "main"
      BY <1>3, <2>1, <3>1 DEF InsertEntry, PC, NoRequest
    <3>2. CASE kind[r] # "main"
      BY <1>3, <2>1, <3>2 DEF InsertEntry, PC
    <3> QED
      BY <3>1, <3>2
<1>9. CASE RestartInsert(r)
  <2>1. fresh[r] \in Task
    BY <1>9 DEF RestartInsert
  <2> QED
    BY <1>9, <2>1 DEF RestartInsert, PC, NoRequest
<1>4. CASE Deliver(r)
  <2>1. \A t \in Task : Append(inbox[t], r) \in Seq(Request \cup {NoText})
    BY AppendType
  <2>2. inbox' \in [Task -> Seq(Request \cup {NoText})]
    <3>1. CASE UNCHANGED inbox
      BY <3>1
    <3>2. CASE inbox' = [inbox EXCEPT ![agents[target[r]]] =
                           Append(inbox[agents[target[r]]], r)]
      BY <3>2, <2>1
    <3> QED
      BY <1>4, <3>1, <3>2 DEF Deliver
  <2> QED
    BY <1>4, <2>2 DEF Deliver, PC, NoRequest
<1>5. ASSUME NEW a \in Agent, Tell(r, a)
      PROVE  TypeInv'
  <2>1. \A t \in Task : Append(inbox[t], NoText) \in Seq(Request \cup {NoText})
    BY AppendType
  <2>2. inbox' \in [Task -> Seq(Request \cup {NoText})]
    BY <1>5, <2>1 DEF Tell
  <2> QED
    BY <1>5, <2>2 DEF Tell, PC
<1> QED
  BY <1>1, <1>2, <1>3, <1>4, <1>5, <1>6, <1>7, <1>8, <1>9

\* The steps of a call that spawn a task.
LEMMA TypeSpawnStep ==
  ASSUME TypeInv, NEW r \in Request, SpawnMain(r) \/ RestartSpawn(r)
  PROVE  TypeInv'
<1> USE BoundAssumption
    DEF TypeInv, TypeOK, TurnInv, ScopeInv, Entering, Goto
<1>1. PICK a \in Agent, box \in Seq(Request \cup {NoText}) :
        Spawn(r, a, box) /\ target' = [target EXCEPT ![r] = a]
  <2>1. CASE SpawnMain(r)
    <3>1. next \in Agent
      BY <2>1 DEF SpawnMain, Spawn, Task, Agent
    <3>2. <<>> \in Seq(Request \cup {NoText})
      OBVIOUS
    <3> QED
      BY <2>1, <3>1, <3>2 DEF SpawnMain
  <2>2. CASE RestartSpawn(r)
    <3>1. <<r>> \in Seq(Request \cup {NoText})
      OBVIOUS
    <3> QED
      BY <2>2, <3>1 DEF RestartSpawn
  <2> QED
    BY <2>1, <2>2
<1>2. next \in Task /\ next' = next + 1 /\ next' \in 1 .. (MaxTask + 1)
  BY <1>1 DEF Spawn, Task
<1>3. state[next] = "unborn" /\ turns[next] <= MaxTurns
  BY <1>2 DEF Task
<1>4. /\ fresh' \in [Request -> Task \cup {NoTask}] /\ fresh'[r] \in Task
      /\ state' \in [Task -> State]
      /\ agent_of' \in [Task -> Agent \cup {NoTask}]
      /\ inbox' \in [Task -> Seq(Request \cup {NoText})]
      /\ target' \in [Request -> Agent \cup {NoTask}]
  BY <1>1, <1>2 DEF Spawn, State
<1>5. /\ pc' \in [Request -> PC] /\ \A q \in Request : q # r => pc'[q] = pc[q]
      /\ UNCHANGED <<kind, rows, status, agents, lock, cancelled, turns, history, watched>>
  BY <1>1 DEF SpawnMain, RestartSpawn, Spawn, PC
<1>6. TypeOK'
  BY <1>2, <1>4, <1>5
<1>7. TurnInv'
  BY <1>1, <1>2, <1>3, <1>5 DEF Spawn
<1>8. ScopeInv'
  <2>1. \A t \in Task : state'[t] # "unborn" => agent_of'[t] \in Agent
    BY <1>1, <1>2 DEF Spawn
  <2>2. \A t \in Task : t >= next' => state'[t] = "unborn"
    BY <1>1, <1>2 DEF Spawn, Task
  <2>3. target'[r] = a /\ \A q \in Request : q # r => target'[q] = target[q]
    BY <1>1
  <2>4. \A q \in Request : q # r => fresh'[q] = fresh[q]
    BY <1>1 DEF Spawn
  <2> QED
    BY <1>4, <1>5, <2>1, <2>2, <2>3, <2>4
<1> QED
  BY <1>6, <1>7, <1>8

\* The steps of a task, of its watcher and of the users.
LEMMA TypeTaskStep ==
  ASSUME TypeInv, NEW t \in Task, TaskStep(t) \/ Panic(t) \/ Watch(t)
  PROVE  TypeInv'
<1> USE BoundAssumption
    DEF TypeInv, TypeOK, TurnInv, ScopeInv, Entering, requestVars, Move
<1>1. ASSUME state[t] # "unborn",
             Upsert(t, "working") \/ Upsert(t, "ended")
      PROVE  rows' \in Seq(Agent) /\ status' \in [Agent -> {"none", "working", "ended"}]
  <2>1. Append(rows, agent_of[t]) \in Seq(Agent)
    BY <1>1, AppendType
  <2> QED
    BY <1>1, <2>1 DEF Upsert
<1>2. ASSUME Take(t)
      PROVE  /\ inbox' \in [Task -> Seq(Request \cup {NoText})]
             /\ history' \in [Task -> Seq(Request \cup {NoText})]
  <2>1. Head(inbox[t]) \in Request \cup {NoText}
        /\ Tail(inbox[t]) \in Seq(Request \cup {NoText})
    BY <1>2, HeadTailType DEF Take
  <2>2. Append(history[t], Head(inbox[t])) \in Seq(Request \cup {NoText})
    BY <2>1, AppendType
  <2> QED
    BY <1>2, <2>1, <2>2 DEF Take
<1>3. CASE Register(t)
  BY <1>3, <1>1 DEF Register, State
<1>4. CASE RecvFirst(t)
  BY <1>4, <1>2 DEF RecvFirst, State
<1>5. CASE BeginTurn(t)
  <2>1. CASE cancelled[t]
    <3>1. /\ state' = [state EXCEPT ![t] = "finishing"]
          /\ state[t] # "unborn"
          /\ UNCHANGED <<rows, status, agents, requestVars, next, agent_of, inbox,
                         cancelled, turns, history, watched>>
      BY <1>5, <2>1 DEF BeginTurn
    <3>2. TypeOK'
      BY <3>1 DEF State
    <3>3. TurnInv' /\ ScopeInv'
      BY <3>1
    <3> QED
      BY <3>2, <3>3
  <2>2. CASE ~cancelled[t]
    <3>1. PICK q \in {"finishing", "stream"} :
            /\ state' = [state EXCEPT ![t] = q]
            /\ q = "stream" => turns[t] + 1 <= MaxTurns
      BY <1>5, <2>2 DEF BeginTurn
    <3>2. /\ turns' = [turns EXCEPT ![t] = turns[t] + 1]
          /\ turns[t] <= MaxTurns
          /\ state[t] # "unborn"
          /\ UNCHANGED <<rows, status, agents, requestVars, next, agent_of, inbox,
                         cancelled, history, watched>>
      BY <1>5, <2>2 DEF BeginTurn
    <3>3. turns[t] + 1 \in 0 .. (MaxTurns + 1)
      BY <3>2
    <3>4. TypeOK'
      BY <3>1, <3>2, <3>3 DEF State
    <3>5. TurnInv'
      BY <3>1, <3>2
    <3>6. ScopeInv'
      BY <3>1, <3>2
    <3> QED
      BY <3>4, <3>5, <3>6
  <2> QED
    BY <2>1, <2>2
<1>6. CASE RunTools(t)
  BY <1>6, <1>1 DEF RunTools, State
<1>7. CASE EndTurn(t)
  BY <1>7 DEF EndTurn, State
<1>12. CASE DrainDone(t)
  BY <1>12 DEF DrainDone, State
<1>11. CASE Exit(t) \/ Panic(t)
  <2>1. /\ state' = [state EXCEPT ![t] = "dead"]
        /\ state[t] # "unborn"
        /\ UNCHANGED <<rows, status, agents, requestVars, next, agent_of, inbox,
                       cancelled, turns, history, watched>>
    BY <1>11 DEF Exit, Panic
  <2>2. TypeOK'
    BY <2>1 DEF State
  <2>3. TurnInv' /\ ScopeInv'
    BY <2>1
  <2> QED
    BY <2>2, <2>3
<1>8. CASE Drain(t)
  BY <1>8, <1>2 DEF Drain
<1>9. CASE Finish(t)
  BY <1>9, <1>1 DEF Finish, State
<1>10. CASE Watch(t)
  BY <1>10 DEF Watch, taskVars
<1> QED
  BY <1>3, <1>4, <1>5, <1>6, <1>7, <1>8, <1>9, <1>10,
     <1>11, <1>12 DEF TaskStep

LEMMA TypeUserStep ==
  ASSUME TypeInv, ShutdownAll \/ \E a \in Agent : Interrupt(a)
  PROVE  TypeInv'
<1>1. cancelled' \in [Task -> BOOLEAN]
  <2>1. CASE ShutdownAll
    BY <2>1 DEF ShutdownAll, TypeInv, TypeOK
  <2>2. CASE \E a \in Agent : Interrupt(a)
    BY <2>2 DEF Interrupt, TypeInv, TypeOK
  <2> QED
    BY <2>1, <2>2
<1>2. UNCHANGED <<rows, status, agents, requestVars, next, state, agent_of,
                  inbox, turns, history, watched>>
  BY DEF ShutdownAll, Interrupt
<1> QED
  BY <1>1, <1>2 DEF TypeInv, TypeOK, TurnInv, ScopeInv, Entering, requestVars

LEMMA TypeInductive == TypeInv /\ [Next]_vars => TypeInv'
<1> SUFFICES ASSUME TypeInv, [Next]_vars PROVE TypeInv'
  OBVIOUS
<1>1. CASE UNCHANGED vars
  BY <1>1 DEF vars, TypeInv, TypeOK, TurnInv, ScopeInv, Entering
<1>2. CASE Next
  BY <1>2, TypeCallStep, TypeSpawnStep, TypeTaskStep, TypeUserStep DEF Next, CallStep
<1> QED
  BY <1>1, <1>2

\* Every variable keeps to its type, in every behaviour and for any number of
\* requests, tasks and turns (SessionManager and run_agent).
THEOREM TypeCorrect == Spec => []TypeOK
<1>1. Init => TypeInv
  BY TypeInit
<1>2. TypeInv /\ [Next]_vars => TypeInv'
  BY TypeInductive
<1>3. TypeInv => TypeOK
  BY DEF TypeInv
<1> QED
  BY <1>1, <1>2, <1>3, PTL DEF Spec

-------------------------------------------------------------------------------
(* Find-or-spawn and restart. *)

LEMMA SpawnInit == Init => SpawnInv
BY BoundAssumption, NoTextAssumption
   DEF Init, SpawnInv, LockInv, BirthInv, RowsInv, MapInv, TargetInv, AloneInv, Holding,
       Entering, RunningIsReachable, Alive, Task, Agent, NoTask, NoRequest

\* Steps that bear no task, touch no entry and no call: whatever they do to
\* the tasks, they give none of them life.
LEMMA QuietStep ==
  ASSUME TypeInv, SpawnInv,
         UNCHANGED <<lock, pc, target, fresh, next, agents, agent_of>>,
         \A u \in Task : state'[u] = "unborn" <=> state[u] = "unborn",
         \A u \in Task : Alive(u)' => Alive(u),
         RowsInv'
  PROVE  SpawnInv'
<1> USE DEF SpawnInv, Holding, Entering
<1>1. LockInv'
  BY DEF LockInv
<1>2. BirthInv'
  BY DEF BirthInv
<1>3. MapInv'
  BY DEF MapInv, TypeInv, TypeOK, Agent, NoTask
<1>4. TargetInv'
  BY DEF TargetInv
<1>5. AloneInv'
  BY DEF AloneInv
<1>6. RunningIsReachable'
  BY DEF RunningIsReachable
<1> QED
  BY <1>1, <1>2, <1>3, <1>4, <1>5, <1>6

\* The row of a running task is that of a born agent.
LEMMA UpsertRows ==
  ASSUME TypeInv, SpawnInv, NEW t \in Task, state[t] # "unborn", UNCHANGED next,
         UNCHANGED rows \/ Upsert(t, "working") \/ Upsert(t, "ended")
  PROVE  RowsInv'
<1>1. agent_of[t] \in Agent /\ agent_of[t] < next
  BY DEF SpawnInv, BirthInv
<1>2. rows' = rows \/ rows' = Append(rows, agent_of[t])
  BY DEF Upsert
<1>3. rows \in Seq(Agent)
  BY DEF TypeInv, TypeOK
<1> QED
  BY <1>1, <1>2, <1>3 DEF SpawnInv, RowsInv

LEMMA SpawnTaskStep ==
  ASSUME TypeInv, SpawnInv, NEW t \in Task, TaskStep(t) \/ Panic(t)
  PROVE  SpawnInv'
<1>1. UNCHANGED <<requestVars, next, agents, agent_of>>
  BY DEF TaskStep, Register, RecvFirst, BeginTurn, RunTools, EndTurn, Drain,
         DrainDone, Finish, Exit, Panic
<1>2. \/ UNCHANGED state
      \/ \E p, q \in State \ {"unborn"} :
           p # "dead" /\ state[t] = p /\ state' = [state EXCEPT ![t] = q]
  BY DEF TaskStep, Register, RecvFirst, BeginTurn, RunTools, EndTurn, Drain,
         DrainDone, Finish, Exit, Panic, Move, State
<1>3. \A u \in Task : /\ state'[u] = "unborn" <=> state[u] = "unborn"
                      /\ Alive(u)' => Alive(u)
  BY <1>2 DEF Alive, TypeInv, TypeOK
<1>4. RowsInv'
  <2>1. UNCHANGED rows \/ Upsert(t, "working") \/ Upsert(t, "ended")
    BY DEF TaskStep, Register, RecvFirst, BeginTurn, RunTools, EndTurn, Drain,
           DrainDone, Finish, Exit, Panic
  <2>2. state[t] # "unborn"
    BY DEF TaskStep, Register, RecvFirst, BeginTurn, RunTools, EndTurn, Drain,
           DrainDone, Finish, Exit, Panic, Move
  <2> QED
    BY <1>1, <2>1, <2>2, UpsertRows
<1> QED
  BY <1>1, <1>3, <1>4, QuietStep DEF requestVars

\* A watcher removes no entry but that of the ended task.
LEMMA SpawnWatchStep ==
  ASSUME TypeInv, SpawnInv, NEW t \in Task, Watch(t)
  PROVE  SpawnInv'
<1> USE DEF SpawnInv, Watch, requestVars, taskVars
<1>1. LockInv' /\ BirthInv' /\ RowsInv' /\ TargetInv' /\ AloneInv'
  BY DEF LockInv, BirthInv, RowsInv, TargetInv, AloneInv, Holding, Entering, Alive
<1>2. \A a \in Agent : agents'[a] = agents[a] \/ (agents[a] = t /\ agents'[a] = NoTask)
  BY DEF TypeInv, TypeOK
<1>3. MapInv'
  BY <1>2 DEF MapInv
<1>4. RunningIsReachable'
  <2> SUFFICES ASSUME NEW u \in Task, Alive(u), agents[agent_of[u]] = u
               PROVE  agents'[agent_of[u]] = u
    BY DEF RunningIsReachable, Alive
  <2>1. u # t /\ agent_of[u] \in Agent
    BY DEF Alive, TypeInv, ScopeInv
  <2> QED
    BY <1>2, <2>1
<1> QED
  BY <1>1, <1>3, <1>4

\* The steps of a call that neither bear a task nor enter one.
LEMMA SpawnCallStep ==
  ASSUME TypeInv, SpawnInv, NEW r \in Request,
         \/ Arrive(r) \/ AcquireLock(r) \/ FindMain(r) \/ Deliver(r)
         \/ Fail(r) \/ Steer(r) \/ \E a \in Agent : Tell(r, a)
  PROVE  SpawnInv'
<1> USE DEF SpawnInv
<1>1. UNCHANGED <<rows, agents, next, state, agent_of, fresh>>
  BY DEF Arrive, AcquireLock, FindMain, Deliver, Fail, Steer, Tell, Goto, Return, taskVars
<1>2. BirthInv' /\ RowsInv' /\ MapInv'
  BY <1>1 DEF BirthInv, RowsInv, MapInv
<1>3. ~Entering(r) /\ ~Entering(r)' /\ \A q \in Request : q # r => pc'[q] = pc[q]
  BY DEF Arrive, AcquireLock, FindMain, Deliver, Fail, Steer, Tell, Goto, Return,
         Entering, TypeInv, TypeOK
<1>4. \A q \in Request : q # r => target'[q] = target[q]
  BY DEF Arrive, AcquireLock, FindMain, Deliver, Fail, Steer, Tell, Goto, Return,
         TypeInv, TypeOK
<1>5. LockInv'
  <2>1. \A q \in Request : q # r => (Holding(q)' <=> Holding(q))
    BY <1>3 DEF Holding
  <2>2. ASSUME Holding(r) <=> Holding(r)', lock' = lock PROVE LockInv'
    BY <2>1, <2>2 DEF LockInv
  <2>3. ASSUME Holding(r), ~Holding(r)', lock' = NoRequest PROVE LockInv'
    BY <2>1, <2>3, NoTextAssumption DEF LockInv, NoRequest
  <2>4. CASE Arrive(r) \/ Steer(r) \/ \E a \in Agent : Tell(r, a)
    <3>1. lock' = lock /\ ~Holding(r) /\ ~Holding(r)'
      BY <2>4 DEF Holding, Arrive, Steer, Tell, Goto, TypeInv, TypeOK
    <3> QED
      BY <2>2, <3>1
  <2>5. CASE AcquireLock(r)
    BY <2>1, <2>5, NoTextAssumption DEF LockInv, Holding, AcquireLock, NoRequest, TypeInv, TypeOK
  <2>6. CASE FindMain(r) \/ Deliver(r) \/ Fail(r)
    <3>1. Holding(r)
      BY <2>6 DEF Holding, FindMain, Deliver, Fail
    <3>2. \/ \E p \in {"spawn", "deliver", "restart"} : Goto(r, p)
          \/ \E p \in {"done", "failed"} : Return(r, p)
      BY <2>6 DEF FindMain, Deliver, Fail
    <3>3. \/ Holding(r)' /\ lock' = lock
          \/ ~Holding(r)' /\ lock' = NoRequest
      BY <3>2 DEF Holding, Goto, Return, TypeInv, TypeOK
    <3> QED
      BY <2>2, <2>3, <3>1, <3>3
  <2> QED
    BY <2>4, <2>5, <2>6
<1>6. TargetInv'
  <2>1. ScopeInv'
    BY TypeCallStep DEF TypeInv
  <2>2. rows # <<>> => Head(rows) < next
    BY DEF RowsInv, TypeInv, TypeOK
  <2>3. pc'[r] \in {"deliver", "restart"} => target'[r] < next
    BY <2>2 DEF Arrive, AcquireLock, FindMain, Deliver, Fail, Steer, Tell, Goto, Return,
                TargetInv, TypeInv, TypeOK
  <2> QED
    BY <1>1, <1>3, <1>4, <2>1, <2>3 DEF TargetInv, ScopeInv, Entering
<1>7. RunningIsReachable'
  BY <1>1, <1>3 DEF RunningIsReachable, Alive, Entering
<1>8. ASSUME pc'[r] = "restart", NEW t \in Task, agent_of[t] = target'[r]
      PROVE  ~Alive(t)
  <2>1. Deliver(r) /\ pc[r] = "deliver" /\ target'[r] = target[r]
        /\ ~(agents[target[r]] # NoTask /\ Alive(agents[target[r]]))
    BY <1>8 DEF Arrive, AcquireLock, FindMain, Deliver, Fail, Steer, Tell, Goto, Return,
                TypeInv, TypeOK
  <2>2. \A q \in Request : ~Entering(q)
    BY <2>1 DEF LockInv, Holding, Entering
  <2>3. t # NoTask
    BY DEF Task, NoTask
  <2> QED
    BY <1>8, <2>1, <2>2, <2>3 DEF RunningIsReachable, Entering
<1>9. AloneInv'
  BY <1>1, <1>3, <1>4, <1>8 DEF AloneInv, Entering, Alive
<1> QED
  BY <1>2, <1>5, <1>6, <1>7, <1>9

\* The birth of a task: nobody else is at work for its agent.
LEMMA SpawnBirthStep ==
  ASSUME TypeInv, SpawnInv, NEW r \in Request, SpawnMain(r) \/ RestartSpawn(r)
  PROVE  SpawnInv'
<1> USE DEF SpawnInv
<1>1. next \in Task /\ next' = next + 1
  BY DEF SpawnMain, RestartSpawn, Spawn, Task, TypeInv, TypeOK
<1>2. PICK a \in Agent :
        /\ target' = [target EXCEPT ![r] = a]
        /\ agent_of' = [agent_of EXCEPT ![next] = a]
        /\ a < next'
        /\ \A t \in Task : agent_of[t] = a => ~Alive(t)
  <2>1. CASE SpawnMain(r)
    <3>1. \A t \in Task : agent_of[t] = next => ~Alive(t)
      BY <1>1 DEF BirthInv, Alive, Task, TypeInv, TypeOK
    <3>2. next \in Agent /\ next < next'
      BY <1>1 DEF Agent, Task
    <3> QED
      BY <2>1, <3>1, <3>2 DEF SpawnMain, Spawn
  <2>2. CASE RestartSpawn(r)
    <3>1. target[r] \in Agent /\ target' = [target EXCEPT ![r] = target[r]]
      BY <2>2 DEF RestartSpawn, TargetInv, TypeInv, TypeOK
    <3>2. \A t \in Task : agent_of[t] = target[r] => ~Alive(t)
      BY <2>2 DEF RestartSpawn, AloneInv
    <3>3. target[r] < next'
      BY <1>1, <2>2 DEF RestartSpawn, TargetInv, Task, Agent
    <3> QED
      BY <2>2, <3>1, <3>2, <3>3 DEF RestartSpawn, Spawn
  <2> QED
    BY <2>1, <2>2
<1>3. /\ state[next] = "unborn"
      /\ state' = [state EXCEPT ![next] = "starting"]
      /\ fresh' = [fresh EXCEPT ![r] = next]
      /\ UNCHANGED <<rows, agents, lock>>
  BY <1>1 DEF SpawnMain, RestartSpawn, Spawn, Goto, BirthInv, Task
<1>4. /\ pc[r] \in {"spawn", "restart"} /\ Entering(r)'
      /\ \A q \in Request : q # r => pc'[q] = pc[q]
  BY DEF SpawnMain, RestartSpawn, Goto, Entering, TypeInv, TypeOK
<1>5. \A q \in Request : q # r => ~Holding(q) /\ ~Entering(q)
  BY <1>4 DEF LockInv, Holding, Entering
<1>6. LockInv'
  BY <1>3, <1>4 DEF LockInv, Holding, Entering
<1>7. BirthInv'
  BY <1>1, <1>2, <1>3 DEF BirthInv, Task, Agent, TypeInv, TypeOK
<1>8. RowsInv'
  <2>1. \A i \in DOMAIN rows : rows[i] \in Agent
    BY DEF TypeInv, TypeOK
  <2>2. \A i \in DOMAIN rows : rows[i] < next /\ rows[i] < next + 1
    BY <1>1, <2>1 DEF RowsInv, Agent, Task
  <2> QED
    BY <1>1, <1>3, <2>2 DEF RowsInv
<1>9. MapInv'
  BY <1>1, <1>2, <1>3 DEF MapInv, TypeInv, TypeOK
<1>10. \A q \in Request : q # r => pc'[q] \notin {"insert", "deliver", "restart", "reinsert"}
  BY <1>4, <1>5 DEF Holding
<1>11. /\ target'[r] = a /\ fresh'[r] = next
       /\ state'[next] = "starting" /\ agent_of'[next] = a
  BY <1>1, <1>2, <1>3 DEF TypeInv, TypeOK
<1>12. TargetInv'
  BY <1>1, <1>2, <1>10, <1>11 DEF TargetInv, Entering
<1>13. \A t \in Task : t # next => (Alive(t)' <=> Alive(t)) /\ agent_of'[t] = agent_of[t]
  BY <1>2, <1>3 DEF Alive, TypeInv, TypeOK
<1>14. AloneInv'
  BY <1>2, <1>4, <1>10, <1>11, <1>13 DEF AloneInv, Entering
<1>15. RunningIsReachable'
  <2>1. \A t \in Task : t = next => fresh'[r] = t /\ pc'[r] \in {"insert", "reinsert"}
    BY <1>4, <1>11 DEF Entering
  <2>2. ~Entering(r)
    BY <1>4 DEF Entering
  <2> QED
    BY <1>3, <1>5, <1>13, <2>1, <2>2 DEF RunningIsReachable, Entering
<1> QED
  BY <1>6, <1>7, <1>8, <1>9, <1>12, <1>14, <1>15

\* The entry of the new task replaces that of an ended one, or none.
LEMMA SpawnInsertStep ==
  ASSUME TypeInv, SpawnInv, NEW r \in Request, InsertEntry(r) \/ RestartInsert(r)
  PROVE  SpawnInv'
<1> USE DEF SpawnInv
<1>1. /\ Entering(r)
      /\ agents' = [agents EXCEPT ![target[r]] = fresh[r]]
      /\ UNCHANGED <<rows, next, state, agent_of, target, fresh>>
  BY DEF InsertEntry, RestartInsert, Entering, Goto, Return, taskVars
<1>2. /\ target[r] \in Agent /\ fresh[r] \in Task
      /\ state[fresh[r]] # "unborn" /\ agent_of[fresh[r]] = target[r]
  BY <1>1 DEF TargetInv, Entering
<1>3. /\ pc'[r] \in {"deliver", "done"}
      /\ pc'[r] = "deliver" => UNCHANGED lock
      /\ pc'[r] = "done" => lock' = NoRequest
      /\ \A q \in Request : q # r => pc'[q] = pc[q]
  BY DEF InsertEntry, RestartInsert, Goto, Return, TypeInv, TypeOK
<1>4. LockInv'
  BY <1>1, <1>3, NoTextAssumption DEF LockInv, Holding, Entering, NoRequest
<1>5. BirthInv' /\ RowsInv'
  BY <1>1 DEF BirthInv, RowsInv
<1>6. \A a \in Agent : agents'[a] = IF a = target[r] THEN fresh[r] ELSE agents[a]
  BY <1>1 DEF TypeInv, TypeOK
<1>7. MapInv'
  BY <1>1, <1>2, <1>6 DEF MapInv
<1>8. TargetInv'
  BY <1>1, <1>3 DEF TargetInv, Entering
<1>9. AloneInv'
  BY <1>1, <1>3 DEF AloneInv, Entering, Alive
<1>10. RunningIsReachable'
  <2> SUFFICES ASSUME NEW t \in Task, Alive(t)
               PROVE  \/ agents'[agent_of[t]] = t
                      \/ \E q \in Request : Entering(q)' /\ fresh[q] = t
    BY <1>1 DEF RunningIsReachable, Alive, Entering
  <2>1. agent_of[t] \in Agent
    BY DEF TypeInv, ScopeInv, Alive
  <2>2. CASE agent_of[t] = target[r]
    <3>1. t = fresh[r]
      BY <1>1, <2>2 DEF AloneInv
    <3> QED
      BY <1>6, <2>1, <2>2, <3>1
  <2>3. CASE agent_of[t] # target[r]
    <3>1. t # fresh[r]
      BY <1>2, <2>3
    <3>2. CASE agents[agent_of[t]] = t
      BY <1>6, <2>1, <2>3, <3>2
    <3>3. CASE \E q \in Request : fresh[q] = t /\ pc[q] \in {"insert", "reinsert"}
      BY <1>3, <3>1, <3>3 DEF Entering
    <3> QED
      BY <3>2, <3>3 DEF RunningIsReachable
  <2> QED
    BY <2>2, <2>3
<1> QED
  BY <1>4, <1>5, <1>7, <1>8, <1>9, <1>10

LEMMA SpawnInductive == TypeInv /\ SpawnInv /\ [Next]_vars => SpawnInv'
<1> SUFFICES ASSUME TypeInv, SpawnInv, [Next]_vars PROVE SpawnInv'
  OBVIOUS
<1>1. CASE UNCHANGED vars
  <2>1. \A u \in Task : Alive(u)' => Alive(u)
    BY <1>1 DEF Alive, vars
  <2>2. RowsInv'
    BY <1>1 DEF vars, RowsInv, SpawnInv
  <2> QED
    BY <1>1, <2>1, <2>2, QuietStep DEF vars
<1>2. CASE ShutdownAll \/ \E a \in Agent : Interrupt(a)
  <2>1. UNCHANGED <<rows, requestVars, next, agents, agent_of, state>>
    BY <1>2 DEF ShutdownAll, Interrupt
  <2>2. \A u \in Task : Alive(u)' => Alive(u)
    BY <2>1 DEF Alive
  <2>3. RowsInv'
    BY <2>1 DEF RowsInv, SpawnInv
  <2> QED
    BY <2>1, <2>2, <2>3, QuietStep DEF requestVars
<1>3. ASSUME NEW r \in Request, Arrive(r) \/ CallStep(r)
      PROVE  SpawnInv'
  BY <1>3, SpawnCallStep, SpawnBirthStep, SpawnInsertStep DEF CallStep
<1>4. ASSUME NEW t \in Task, TaskStep(t) \/ Panic(t) \/ Watch(t)
      PROVE  SpawnInv'
  BY <1>4, SpawnTaskStep, SpawnWatchStep
<1> QED
  BY <1>1, <1>2, <1>3, <1>4 DEF Next

LEMMA SpawnInvariant == Spec => [](TypeInv /\ SpawnInv)
<1>1. Init => TypeInv /\ SpawnInv
  BY TypeInit, SpawnInit
<1>2. TypeInv /\ SpawnInv /\ [Next]_vars => (TypeInv /\ SpawnInv)'
  BY TypeInductive, SpawnInductive
<1> QED
  BY <1>1, <1>2, PTL DEF Spec

\* A running task is always in the agents map or about to be entered by the
\* call that spawned it, whatever watchers, restarts and concurrent calls do.
THEOREM RunningStaysReachable == Spec => []RunningIsReachable
<1>1. SpawnInv => RunningIsReachable
  BY DEF SpawnInv
<1> QED
  BY <1>1, SpawnInvariant, PTL

\* However the calls, the tasks and their watchers interleave, an agent_id
\* never has two running tasks (session_manager.rs, find-or-spawn and restart).
THEOREM AgentHasOneTask == Spec => []OneTaskPerAgent
<1>1. ASSUME TypeInv, SpawnInv
      PROVE  OneTaskPerAgent
  <2> SUFFICES ASSUME NEW t \in Task, NEW u \in Task, Alive(t), Alive(u),
                      agent_of[t] = agent_of[u], t # u
               PROVE  FALSE
    BY DEF OneTaskPerAgent
  <2>1. \A q \in Request : Entering(q) =>
          fresh[q] # t /\ fresh[q] # u
    BY <1>1 DEF SpawnInv, TargetInv, AloneInv
  <2> QED
    BY <1>1, <2>1 DEF SpawnInv, RunningIsReachable, Entering
<1> QED
  BY <1>1, SpawnInvariant, PTL

\* The final status an ended task writes never covers that of a successor: the one
\* task of an agent that takes its row out of the working state is the one that runs.
THEOREM StatusStaysCurrent == Spec => StatusIsCurrent
<1>1. ASSUME OneTaskPerAgent, TypeInv, [Next]_vars, NEW t \in Task,
             state[t] \in {"recv", "turn", "stream", "drain", "finishing"},
             status[agent_of[t]] = "working", status'[agent_of[t]] # "working"
      PROVE  state'[t] # state[t]
  <2>1. status' # status
    BY <1>1
  <2>t. agent_of[t] \in Agent /\ status \in [Agent -> {"none", "working", "ended"}]
    BY <1>1 DEF TypeInv, TypeOK, ScopeInv
  <2>2. PICK u \in Task : Finish(u)
    <3>1. ASSUME NEW u \in Task, Register(u) \/ RunTools(u) PROVE FALSE
      BY <1>1, <2>t, <3>1 DEF Register, RunTools, Upsert
    <3>2. ASSUME NEW r \in Request, Arrive(r) \/ CallStep(r) PROVE FALSE
      BY <2>1, <3>2 DEF Arrive, CallStep, AcquireLock, FindMain, SpawnMain, InsertEntry, Deliver,
                        RestartSpawn, RestartInsert, Fail, Steer, Tell
    <3>3. ASSUME NEW u \in Task,
                 \/ RecvFirst(u) \/ BeginTurn(u) \/ EndTurn(u) \/ Drain(u) \/ DrainDone(u)
                 \/ Exit(u) \/ Panic(u) \/ Watch(u)
          PROVE  FALSE
      BY <2>1, <3>3 DEF RecvFirst, BeginTurn, EndTurn, Drain, DrainDone, Exit, Panic, Watch
    <3>4. ~ShutdownAll /\ \A a \in Agent : ~Interrupt(a)
      BY <2>1 DEF ShutdownAll, Interrupt
    <3>5. ~UNCHANGED vars
      BY <2>1 DEF vars
    <3>6. QED
      BY <1>1, <3>1, <3>2, <3>3, <3>4, <3>5 DEF Next, TaskStep
  <2>3. agent_of[u] = agent_of[t] /\ Alive(u) /\ Alive(t)
    BY <1>1, <2>1, <2>t, <2>2 DEF Finish, Upsert, Move, Alive
  <2>4. u = t
    BY <1>1, <2>3 DEF OneTaskPerAgent
  <2>5. QED
    BY <1>1, <2>2, <2>4 DEF Finish, Move, TypeInv, TypeOK
<1>2. OneTaskPerAgent /\ TypeInv /\ [Next]_vars =>
        [\A t \in Task :
           /\ state[t] \in {"recv", "turn", "stream", "drain", "finishing"}
           /\ status[agent_of[t]] = "working" /\ status'[agent_of[t]] # "working"
           => state'[t] # state[t]]_vars
  BY <1>1
<1>3. QED
  BY <1>2, AgentHasOneTask, SpawnInvariant, PTL DEF Spec, StatusIsCurrent
===============================================================================
