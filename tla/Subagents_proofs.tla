--------------------------- MODULE Subagents_proofs ----------------------------
(***************************************************************************)
(* Proofs about Subagents, for any number of spawns, any depth and any     *)
(* number of interrupts and failures.                                      *)
(***************************************************************************)
EXTENDS Subagents, FiniteSetTheorems, Induction, TLAPS

LEMMA MainIsNoSub == Main \notin Sub
BY BoundAssumption DEF Main, Sub

\* Every variable of the subagents keeps to its type.
THEOREM TypeCorrect == SubagentsSpec => []TypeOK
<1>1. SubagentsInit => TypeOK
  BY BoundAssumption DEF SubagentsInit, TypeOK, Agent
<1>2. TypeOK /\ [SubagentsNext]_subagentsVars => TypeOK'
  <2> SUFFICES ASSUME TypeOK, [SubagentsNext]_subagentsVars PROVE TypeOK'
    OBVIOUS
  <2> USE BoundAssumption DEF TypeOK, callVars, downVars
  <2>1. ASSUME NEW s \in Sub, NEW a \in Agent, Call(s, a) PROVE TypeOK'
    BY <2>1 DEF Call, CalledBy, Go
  <2>2. ASSUME NEW s \in Sub, NEW a \in Agent, CallBlind(s, a) PROVE TypeOK'
    BY <2>2 DEF CallBlind, CalledBy, Go, SqlFails
  <2>3. ASSUME NEW s \in Sub, Refuse(s) PROVE TypeOK'
    BY <2>3 DEF Refuse, Go, SqlFails
  <2>4. ASSUME NEW s \in Sub, Launch(s) PROVE TypeOK'
    BY <2>4 DEF Launch, Go, Upsert
  <2>5. ASSUME NEW s \in Sub, Insert(s) PROVE TypeOK'
    BY <2>5 DEF Insert, Go
  <2>6. ASSUME NEW s \in Sub, Register(s) \/ Finish(s) PROVE TypeOK'
    BY <2>6 DEF Register, Finish, Upsert
  <2>7. ASSUME NEW s \in Sub, Interrupt(s) PROVE TypeOK'
    BY <2>7 DEF Interrupt
  <2>8. ASSUME ShutdownList \/ ShutdownExit PROVE TypeOK'
    BY <2>8 DEF ShutdownList, ShutdownExit
  <2>9. CASE UNCHANGED subagentsVars
    BY <2>9 DEF subagentsVars
  <2> QED
    BY <2>1, <2>2, <2>3, <2>4, <2>5, <2>6, <2>7, <2>8, <2>9 DEF SubagentsNext, CallStep, TaskStep
<1> QED
  BY <1>1, <1>2, PTL DEF SubagentsSpec

-------------------------------------------------------------------------------
\* A task is launched by a spawn that then makes its entry.
SpawnInv ==
  \A s \in Sub :
    /\ task[s] # "none" => place[s] \in {"launched", "done"}
    /\ place[s] = "done" => s \in registry

THEOREM SpawnInvInductive == SubagentsSpec => []SpawnInv
<1>1. SubagentsInit => SpawnInv
  BY DEF SubagentsInit, SpawnInv
<1>2. TypeOK /\ SpawnInv /\ [SubagentsNext]_subagentsVars => SpawnInv'
  <2> SUFFICES ASSUME TypeOK, SpawnInv, [SubagentsNext]_subagentsVars PROVE SpawnInv'
    OBVIOUS
  <2> USE DEF SpawnInv, TypeOK, callVars, downVars
  <2>1. ASSUME NEW s \in Sub, NEW a \in Agent, Call(s, a) \/ CallBlind(s, a)
        PROVE SpawnInv'
    BY <2>1 DEF Call, CallBlind, CalledBy, Go
  <2>2. ASSUME NEW s \in Sub, Refuse(s) PROVE SpawnInv'
    BY <2>2 DEF Refuse, Go
  <2>3. ASSUME NEW s \in Sub, Launch(s) PROVE SpawnInv'
    BY <2>3 DEF Launch, Go
  <2>4. ASSUME NEW s \in Sub, Insert(s) PROVE SpawnInv'
    BY <2>4 DEF Insert, Go
  <2>5. ASSUME NEW s \in Sub, Register(s) \/ Finish(s) PROVE SpawnInv'
    BY <2>5 DEF Register, Finish
  <2>6. ASSUME NEW s \in Sub, Interrupt(s) PROVE SpawnInv'
    BY <2>6 DEF Interrupt
  <2>7. CASE ShutdownList
    BY <2>7, MainIsNoSub DEF ShutdownList, Running
  <2>8. CASE ShutdownExit
    BY <2>8 DEF ShutdownExit
  <2>9. CASE UNCHANGED subagentsVars
    BY <2>9 DEF subagentsVars
  <2> QED
    BY <2>1, <2>2, <2>3, <2>4, <2>5, <2>6, <2>7, <2>8, <2>9 DEF SubagentsNext, CallStep, TaskStep
<1> QED
  BY <1>1, <1>2, TypeCorrect, PTL DEF SubagentsSpec

\* RunningIsReachable for any number of spawns: SubagentManager::spawn enters what it
\* has launched, and nothing takes an entry out.
THEOREM RunningStaysReachable == SubagentsSpec => []RunningIsReachable
<1>1. SpawnInv => RunningIsReachable
  BY MainIsNoSub DEF SpawnInv, RunningIsReachable, Running
<1> QED
  BY <1>1, SpawnInvInductive, PTL

-------------------------------------------------------------------------------
(* Chains of agents. *)

\* A chain begins at its agent and goes on by a step of up.
LEMMA ChainRecursion ==
  ASSUME NEW S, NEW up \in [S -> S], NEW a \in S
  PROVE  /\ Chain(up, a) \in [0 .. MaxDepth -> S]
         /\ Chain(up, a)[0] = a
         /\ \A n \in 0 .. MaxDepth : n < MaxDepth => Chain(up, a)[n + 1] = up[Chain(up, a)[n]]
<1> DEFINE R(f) == f = [n \in 0 .. MaxDepth |-> IF n = 0 THEN a ELSE up[f[n - 1]]]
           c == CHOOSE f : R(f)
           step == [n \in 1 .. MaxDepth |-> up]
<1>1. MaxDepth \in Nat
  BY BoundAssumption
<1>2. PICK f \in [0 .. MaxDepth -> S] : Recurs(f, MaxDepth, a, step)
  <2>1. step \in [1 .. MaxDepth -> [S -> S]]
    OBVIOUS
  <2> HIDE DEF step
  <2> QED
    BY <1>1, <2>1, RecursionExists, Zenon
<1>3. R(f)
  <2>1. ASSUME NEW n \in 0 .. MaxDepth PROVE f[n] = IF n = 0 THEN a ELSE up[f[n - 1]]
    <3>1. n # 0 => n \in 1 .. MaxDepth
      BY <1>1
    <3> QED
      BY <1>2, <3>1 DEF Recurs
  <2> QED
    BY <1>2, <2>1
<1>4. R(c)
  <2> HIDE DEF R
  <2> QED
    BY <1>3, Zenon
<1> HIDE DEF c
<1>5. /\ c[0] = a
      /\ \A n \in 0 .. MaxDepth : n < MaxDepth => c[n + 1] = up[c[n]]
  <2>1. \A n \in 0 .. MaxDepth : c[n] = IF n = 0 THEN a ELSE up[c[n - 1]]
    BY <1>4
  <2>2. c[0] = a
    BY <1>1, <2>1
  <2>3. ASSUME NEW n \in 0 .. MaxDepth, n < MaxDepth PROVE c[n + 1] = up[c[n]]
    <3>1. n + 1 \in 0 .. MaxDepth /\ n + 1 # 0 /\ (n + 1) - 1 = n
      BY <1>1, <2>3
    <3>2. c[n + 1] = up[c[(n + 1) - 1]]
      BY <2>1, <3>1, Zenon
    <3> QED
      BY <3>1, <3>2
  <2> QED
    BY <2>2, <2>3
<1>6. c \in [0 .. MaxDepth -> S]
  <2>1. c = [n \in 0 .. MaxDepth |-> c[n]]
    BY <1>4
  <2>2. ASSUME NEW n \in 1 .. MaxDepth, c[n - 1] \in S PROVE c[n] \in S
    <3>1. n - 1 \in 0 .. MaxDepth /\ n - 1 < MaxDepth /\ (n - 1) + 1 = n
      BY <1>1
    <3> QED
      BY <1>5, <2>2, <3>1
  <2>3. c[0] \in S
    BY <1>5
  <2> QED
    BY <1>1, <2>1, <2>2, <2>3, RecursionType, Zenon
<1>7. Chain(up, a) = c
  BY Zenon DEF Chain, c
<1> QED
  BY <1>5, <1>6, <1>7

\* What holds of the agent at its start and is kept by every step holds of a whole chain.
LEMMA ChainKeeps ==
  ASSUME NEW S, NEW up \in [S -> S], NEW a \in S, NEW T, a \in T,
         \A b \in S : b \in T => up[b] \in T
  PROVE  \A n \in 0 .. MaxDepth : Chain(up, a)[n] \in T
<1> DEFINE Good == {n \in 0 .. MaxDepth : Chain(up, a)[n] \in T}
<1>1. MaxDepth \in Nat
  BY BoundAssumption
<1>2. 0 \in Good
  <2>1. Chain(up, a)[0] = a
    BY ChainRecursion
  <2> QED
    BY <1>1, <2>1
<1>3. \A n \in 0 .. MaxDepth : n \in Good /\ n < MaxDepth => n + 1 \in Good
  BY <1>1, ChainRecursion
<1> HIDE DEF Good
<1>4. \A n \in 0 .. MaxDepth : n \in Good
  BY <1>1, <1>2, <1>3, InductionUpTo, Zenon
<1> QED
  BY <1>4 DEF Good

\* Two chains that go on alike are the same.
LEMMA ChainsAgree ==
  ASSUME NEW S, NEW up \in [S -> S], NEW other \in [S -> S], NEW a \in S, NEW T, a \in T,
         \A b \in S : b \in T => up[b] \in T /\ other[b] = up[b]
  PROVE  \A n \in 0 .. MaxDepth : Chain(other, a)[n] = Chain(up, a)[n]
<1> DEFINE Good == {n \in 0 .. MaxDepth : Chain(other, a)[n] = Chain(up, a)[n]}
<1>1. MaxDepth \in Nat
  BY BoundAssumption
<1>2. 0 \in Good
  <2>1. Chain(up, a)[0] = a
    BY ChainRecursion
  <2>2. Chain(other, a)[0] = a
    BY ChainRecursion
  <2> QED
    BY <1>1, <2>1, <2>2
<1>3. \A n \in 0 .. MaxDepth : Chain(up, a)[n] \in T /\ Chain(up, a)[n] \in S
  BY ChainKeeps, ChainRecursion
<1>4. ASSUME NEW n \in 0 .. MaxDepth, n \in Good, n < MaxDepth PROVE n + 1 \in Good
  <2>1. /\ Chain(other, a)[n + 1] = other[Chain(other, a)[n]]
        /\ Chain(up, a)[n + 1] = up[Chain(up, a)[n]]
    BY <1>4, ChainRecursion
  <2>2. n + 1 \in 0 .. MaxDepth
    BY <1>1, <1>4
  <2> QED
    BY <1>3, <1>4, <2>1, <2>2
<1> HIDE DEF Good
<1>5. \A n \in 0 .. MaxDepth : n \in Good
  BY <1>1, <1>2, <1>4, InductionUpTo, Zenon
<1> QED
  BY <1>5 DEF Good

\* A chain goes on as the chain of the next agent.
LEMMA ChainShift ==
  ASSUME NEW S, NEW up \in [S -> S], NEW a \in S
  PROVE  \A n \in 0 .. MaxDepth : n < MaxDepth => Chain(up, a)[n + 1] = Chain(up, up[a])[n]
<1> DEFINE Good == {n \in 0 .. MaxDepth :
                      n < MaxDepth => Chain(up, a)[n + 1] = Chain(up, up[a])[n]}
<1>1. MaxDepth \in Nat
  BY BoundAssumption
<1>2. 0 \in Good
  <2>1. ASSUME 0 < MaxDepth PROVE Chain(up, a)[0 + 1] = Chain(up, up[a])[0]
    <3>1. Chain(up, a)[0 + 1] = up[Chain(up, a)[0]] /\ Chain(up, a)[0] = a
      BY <1>1, <2>1, ChainRecursion
    <3>2. Chain(up, up[a])[0] = up[a]
      BY ChainRecursion
    <3> QED
      BY <3>1, <3>2
  <2> QED
    BY <1>1, <2>1
<1>3. ASSUME NEW n \in 0 .. MaxDepth, n \in Good, n < MaxDepth PROVE n + 1 \in Good
  <2>1. n + 1 \in 0 .. MaxDepth
    BY <1>1, <1>3
  <2>2. ASSUME n + 1 < MaxDepth
        PROVE  Chain(up, a)[(n + 1) + 1] = Chain(up, up[a])[n + 1]
    <3>1. Chain(up, a)[(n + 1) + 1] = up[Chain(up, a)[n + 1]]
      BY <2>1, <2>2, ChainRecursion
    <3>2. Chain(up, up[a])[n + 1] = up[Chain(up, up[a])[n]]
      BY <1>3, ChainRecursion
    <3> QED
      BY <1>3, <3>1, <3>2
  <2> QED
    BY <2>1, <2>2
<1> HIDE DEF Good
<1>4. \A n \in 0 .. MaxDepth : n \in Good
  BY <1>1, <1>2, <1>3, InductionUpTo, Zenon
<1> QED
  BY <1>4 DEF Good

-------------------------------------------------------------------------------
(* The depth. *)

\* The row of an agent that was launched names its parent, which is the main agent or
\* was launched before the agent was called.
RowInv ==
  \A s \in Sub :
    /\ parentOf[s] = IF task[s] = "none" THEN NoRow ELSE parent[s]
    /\ task[s] # "none" => place[s] # "idle"
    /\ place[s] # "idle" => parent[s] = Main \/ task[parent[s]] # "none"
    /\ place[s] \in {"idle", "checked"} => task[s] = "none"

\* A call that got past depth_of is not too deep, unless it could not read the agents.
DepthInv ==
  \A s \in Sub :
    place[s] \in {"checked", "launched", "done"} /\ s \notin blind
      => Chain(TrueUp, s)[MaxDepth] = Main

LEMMA RowInvNext == TypeOK /\ SpawnInv /\ RowInv /\ [SubagentsNext]_subagentsVars => RowInv'
<1> SUFFICES ASSUME TypeOK, SpawnInv, RowInv, [SubagentsNext]_subagentsVars PROVE RowInv'
  OBVIOUS
<1> USE DEF callVars, downVars
<1>0. /\ parent \in [Sub -> Agent] /\ NoRow \notin Agent /\ NoRow \notin Sub
      /\ place \in [Sub -> {"idle", "checked", "launched", "done", "failed"}]
      /\ task \in [Sub -> {"none", "launched", "working", "dead"}]
      /\ parentOf \in [Sub -> Agent \cup {NoRow}]
      /\ \A a \in Agent : a = Main \/ a \in Sub
  BY NoRowAssumption, BoundAssumption DEF TypeOK, Agent, Main, Sub
<1>1. ASSUME NEW s \in Sub, NEW a \in Agent, CalledBy(s, a), UNCHANGED <<parentOf, task>>,
             Go(s, "failed") \/ Go(s, "checked")
      PROVE  RowInv'
  <2>1. /\ place[s] = "idle" /\ parent' = [parent EXCEPT ![s] = a]
        /\ a = Main \/ task[a] # "none"
    BY <1>0, <1>1 DEF CalledBy, RowInv
  <2> QED
    BY <1>0, <1>1, <2>1 DEF Go, RowInv
<1>2. ASSUME NEW s \in Sub, Refuse(s) \/ Insert(s) PROVE RowInv'
  BY <1>0, <1>2 DEF Refuse, Insert, Go, RowInv
<1>3. ASSUME NEW s \in Sub, Launch(s) PROVE RowInv'
  BY <1>0, <1>3 DEF Launch, Go, Upsert, RowInv
<1>4. ASSUME NEW s \in Sub, Register(s) \/ Finish(s) PROVE RowInv'
  BY <1>0, <1>4 DEF Register, Finish, Upsert, RowInv
<1>5. ASSUME UNCHANGED <<place, parent, parentOf, task>> PROVE RowInv'
  BY <1>5 DEF RowInv
<1> QED
  BY <1>1, <1>2, <1>3, <1>4, <1>5
     DEF SubagentsNext, CallStep, TaskStep, Call, CallBlind, Interrupt, ShutdownList, ShutdownExit, subagentsVars

\* An agent whose chain in the table is shorter than MaxDepth is above it in truth.
LEMMA ShallowIsTrue ==
  ASSUME TypeOK, RowInv, NEW a \in Agent, a = Main \/ task[a] # "none",
         ~ DepthOf(a) >= MaxDepth
  PROVE  /\ MaxDepth > 0
         /\ Chain(TrueUp, a)[MaxDepth - 1] = Main
<1> DEFINE S == Agent \cup {NoRow}
           C == Chain(Up, a)
           T == Chain(TrueUp, a)
<1>0. /\ MaxDepth \in Nat /\ Main \in Agent /\ Main \notin Sub /\ Sub \subseteq Agent
      /\ NoRow \notin Agent /\ \A b \in Agent : b = Main \/ b \in Sub
  BY NoRowAssumption, BoundAssumption DEF Agent, Main, Sub
<1>1. Up \in [S -> S] /\ TrueUp \in [Agent -> Agent]
  BY <1>0 DEF TypeOK, Up, TrueUp
<1>2. /\ C \in [0 .. MaxDepth -> S] /\ C[0] = a
      /\ \A n \in 0 .. MaxDepth : n < MaxDepth => C[n + 1] = Up[C[n]]
  BY <1>1, ChainRecursion
<1>3. /\ T \in [0 .. MaxDepth -> Agent] /\ T[0] = a
      /\ \A n \in 0 .. MaxDepth : n < MaxDepth => T[n + 1] = TrueUp[T[n]]
  BY <1>1, ChainRecursion
<1> HIDE DEF C, T
<1>4. ASSUME NEW b \in Agent, b = Main \/ task[b] # "none"
      PROVE  /\ b = Main => Up[b] = NoRow /\ TrueUp[b] = Main
             /\ b # Main => /\ Up[b] = TrueUp[b] /\ Up[b] \in Agent
                            /\ Up[b] = Main \/ task[Up[b]] # "none"
  BY <1>0, <1>4 DEF TypeOK, RowInv, Up, TrueUp
<1>5. Up[NoRow] = NoRow
  BY <1>0 DEF Up
<1> DEFINE Same == {n \in 0 .. MaxDepth :
                      \/ C[n] = T[n] /\ C[n] \in Agent /\ (C[n] = Main \/ task[C[n]] # "none")
                      \/ n > 0 /\ C[n] = NoRow /\ T[n - 1] = Main /\ T[n] = Main}
<1>6. 0 \in Same
  BY <1>0, <1>2, <1>3
<1>7. ASSUME NEW n \in 0 .. MaxDepth, n \in Same, n < MaxDepth PROVE n + 1 \in Same
  <2>1. /\ n + 1 \in 0 .. MaxDepth /\ n + 1 > 0 /\ (n + 1) - 1 = n
        /\ C[n + 1] = Up[C[n]] /\ T[n + 1] = TrueUp[T[n]] /\ T[n] \in Agent
    BY <1>0, <1>2, <1>3, <1>7
  <2>2. CASE C[n] = T[n] /\ C[n] \in Agent /\ (C[n] = Main \/ task[C[n]] # "none")
    BY <1>4, <2>1, <2>2
  <2>3. CASE C[n] = NoRow /\ T[n] = Main
    BY <1>0, <1>4, <1>5, <2>1, <2>3
  <2> QED
    BY <1>7, <2>2, <2>3
<1>8. \A n \in 0 .. MaxDepth : n \in Same
  <2> HIDE DEF Same
  <2> QED
    BY <1>0, <1>6, <1>7, InductionUpTo, Zenon
<1>9. PICK n \in 1 .. MaxDepth : C[n] = NoRow
  <2>1. ASSUME \A n \in 1 .. MaxDepth : C[n] # NoRow PROVE FALSE
    <3>1. {n \in 1 .. MaxDepth : C[n] # NoRow} = 1 .. MaxDepth
      BY <2>1
    <3>2. DepthOf(a) = Cardinality(1 .. MaxDepth)
      BY <3>1 DEF DepthOf, C
    <3>3. Cardinality(1 .. MaxDepth) = MaxDepth
      BY <1>0, FS_Interval
    <3> QED
      BY <1>0, <3>2, <3>3
  <2> QED
    BY <2>1
<1>10. n - 1 \in 0 .. MaxDepth /\ T[n - 1] = Main
  BY <1>0, <1>8, <1>9
<1> DEFINE Stays == {m \in 0 .. MaxDepth : m >= n - 1 => T[m] = Main}
<1>11. 0 \in Stays
  BY <1>0, <1>10
<1>12. ASSUME NEW m \in 0 .. MaxDepth, m \in Stays, m < MaxDepth PROVE m + 1 \in Stays
  <2>1. m + 1 \in 0 .. MaxDepth /\ T[m + 1] = TrueUp[T[m]]
    BY <1>0, <1>3, <1>12
  <2>2. CASE m >= n - 1
    BY <1>0, <1>4, <1>12, <2>1, <2>2
  <2>3. CASE m + 1 = n - 1
    BY <1>10, <2>1, <2>3
  <2> QED
    BY <1>0, <2>1, <2>2, <2>3
<1>13. \A m \in 0 .. MaxDepth : m \in Stays
  <2> HIDE DEF Stays
  <2> QED
    BY <1>0, <1>11, <1>12, InductionUpTo, Zenon
<1>14. MaxDepth > 0 /\ MaxDepth - 1 \in 0 .. MaxDepth /\ MaxDepth - 1 >= n - 1
  BY <1>0
<1> QED
  BY <1>13, <1>14 DEF T

\* The chains of the agents that have been called are not disturbed by a later call.
LEMMA TrueChainsKept ==
  ASSUME TypeOK, RowInv, SpawnInv, TypeOK',
         \A r \in Sub : place[r] # "idle" => parent'[r] = parent[r],
         NEW a \in Agent, a = Main \/ place[a] # "idle"
  PROVE  \A n \in 0 .. MaxDepth : Chain(TrueUp', a)[n] = Chain(TrueUp, a)[n]
<1> DEFINE T == {b \in Agent : b = Main \/ place[b] # "idle"}
           other == TrueUp'
<1>0. Main \in Agent /\ Main \notin Sub /\ \A b \in Agent : b = Main \/ b \in Sub
  BY BoundAssumption DEF Agent, Main, Sub
<1>1. TrueUp \in [Agent -> Agent] /\ other \in [Agent -> Agent]
  BY <1>0 DEF TypeOK, TrueUp
<1>2. ASSUME NEW b \in Agent, b \in T PROVE TrueUp[b] \in T /\ other[b] = TrueUp[b]
  BY <1>0, <1>2 DEF TrueUp, TypeOK, RowInv
<1>3. a \in T
  OBVIOUS
<1> HIDE DEF T, other
<1>4. \A b \in Agent : b \in T => TrueUp[b] \in T /\ other[b] = TrueUp[b]
  BY <1>2
<1>5. \A n \in 0 .. MaxDepth : Chain(other, a)[n] = Chain(TrueUp, a)[n]
  BY <1>1, <1>3, <1>4, ChainsAgree
<1> QED
  BY <1>5 DEF other

LEMMA DepthInvNext ==
  TypeOK /\ TypeOK' /\ SpawnInv /\ RowInv /\ DepthInv /\ [SubagentsNext]_subagentsVars => DepthInv'
<1> SUFFICES ASSUME TypeOK, TypeOK', SpawnInv, RowInv, DepthInv, [SubagentsNext]_subagentsVars, NEW r \in Sub,
                    place'[r] \in {"checked", "launched", "done"}, r \notin blind'
             PROVE  Chain(TrueUp', r)[MaxDepth] = Main
  BY DEF DepthInv
<1> USE DEF callVars, downVars
<1>0. /\ MaxDepth \in Nat /\ Main \in Agent /\ Main \notin Sub /\ Sub \subseteq Agent
      /\ \A b \in Agent : b = Main \/ b \in Sub
      /\ place \in [Sub -> {"idle", "checked", "launched", "done", "failed"}]
      /\ parent \in [Sub -> Agent]
  BY BoundAssumption DEF Agent, Main, Sub, TypeOK
<1>1. ASSUME place[r] \in {"checked", "launched", "done"}, r \notin blind,
             \A s \in Sub : place[s] # "idle" => parent'[s] = parent[s]
      PROVE  Chain(TrueUp', r)[MaxDepth] = Main
  <2>1. \A n \in 0 .. MaxDepth : Chain(TrueUp', r)[n] = Chain(TrueUp, r)[n]
    BY <1>0, <1>1, TrueChainsKept
  <2>2. MaxDepth \in 0 .. MaxDepth
    BY <1>0
  <2>3. Chain(TrueUp, r)[MaxDepth] = Main
    BY <1>1 DEF DepthInv
  <2> QED
    BY <2>1, <2>2, <2>3
<1>2. ASSUME NEW s \in Sub, NEW a \in Agent, Call(s, a), r = s
      PROVE  Chain(TrueUp', r)[MaxDepth] = Main
  <2>1. /\ place[s] = "idle" /\ parent' = [parent EXCEPT ![s] = a]
        /\ a = Main \/ task[a] # "none"
        /\ ~ DepthOf(a) >= MaxDepth
    <3>1. DepthOf(a) >= MaxDepth => place'[s] = "failed"
      BY <1>0, <1>2 DEF Call, Go
    <3>2. place[s] = "idle" /\ parent' = [parent EXCEPT ![s] = a]
          /\ (a = Main \/ task[a] # "none")
      BY <1>0, <1>2 DEF Call, CalledBy, RowInv
    <3> QED
      BY <1>2, <3>1, <3>2
  <2>2. MaxDepth > 0 /\ Chain(TrueUp, a)[MaxDepth - 1] = Main
    BY <2>1, ShallowIsTrue
  <2>3. \A n \in 0 .. MaxDepth : Chain(TrueUp', a)[n] = Chain(TrueUp, a)[n]
    <3>1. a = Main \/ place[a] # "idle"
      BY <1>0, <2>1 DEF RowInv
    <3>2. \A t \in Sub : place[t] # "idle" => parent'[t] = parent[t]
      BY <1>0, <2>1
    <3> QED
      BY <3>1, <3>2, TrueChainsKept
  <2> DEFINE other == TrueUp'
  <2>4. other \in [Agent -> Agent] /\ other[s] = a
    BY <1>0, <2>1 DEF TrueUp, TypeOK
  <2>5. /\ MaxDepth - 1 \in 0 .. MaxDepth /\ MaxDepth - 1 < MaxDepth
        /\ (MaxDepth - 1) + 1 = MaxDepth
    BY <1>0, <2>2
  <2>6. Chain(other, a)[MaxDepth - 1] = Main
    BY <2>2, <2>3, <2>5
  <2> HIDE DEF other
  <2>7. Chain(other, s)[(MaxDepth - 1) + 1] = Chain(other, other[s])[MaxDepth - 1]
    BY <1>0, <2>4, <2>5, ChainShift
  <2>8. Chain(other, s)[MaxDepth] = Main
    BY <2>4, <2>5, <2>6, <2>7
  <2> QED
    BY <1>2, <2>8 DEF other
<1>3. ASSUME NEW s \in Sub, NEW a \in Agent, Call(s, a) \/ CallBlind(s, a), r # s
      PROVE  Chain(TrueUp', r)[MaxDepth] = Main
  <2>1. /\ place[s] = "idle" /\ parent' = [parent EXCEPT ![s] = a]
        /\ place'[r] = place[r] /\ (r \in blind => r \in blind')
    BY <1>0, <1>3 DEF Call, CallBlind, CalledBy, Go
  <2> QED
    BY <1>0, <1>1, <2>1
<1>4. ASSUME NEW s \in Sub, NEW a \in Agent, CallBlind(s, a), r = s PROVE FALSE
  BY <1>4 DEF CallBlind
<1>5. ASSUME NEW s \in Sub, CallStep(s) \/ TaskStep(s) \/ Interrupt(s)
      PROVE  Chain(TrueUp', r)[MaxDepth] = Main
  <2>1. /\ parent' = parent /\ blind' = blind
        /\ place[r] \in {"checked", "launched", "done"}
    BY <1>0, <1>5 DEF CallStep, TaskStep, Refuse, Launch, Insert, Register, Finish, Interrupt, Go
  <2> QED
    BY <1>1, <2>1
<1>6. CASE ShutdownList \/ ShutdownExit \/ UNCHANGED subagentsVars
  BY <1>1, <1>6 DEF ShutdownList, ShutdownExit, subagentsVars
<1> QED
  BY <1>2, <1>3, <1>4, <1>5, <1>6 DEF SubagentsNext

\* DepthLimited for any limit and any number of spawns: depth_of counts in the table what
\* spawn has written, so that no task is launched below the limit.
THEOREM DepthStaysLimited == SubagentsSpec => []DepthLimited
<1>1. SubagentsInit => RowInv /\ DepthInv
  BY DEF SubagentsInit, RowInv, DepthInv
<1>2. TypeOK /\ SpawnInv /\ DepthInv => DepthLimited
  BY DEF TypeOK, SpawnInv, DepthInv, DepthLimited
<1> QED
  BY <1>1, <1>2, RowInvNext, DepthInvNext, TypeCorrect, SpawnInvInductive, PTL DEF SubagentsSpec
===============================================================================
