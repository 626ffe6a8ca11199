---------------------------- MODULE ToolCalls_proofs ----------------------------
(***************************************************************************)
(* Proofs about ToolCalls, for any number of agents, files and calls:      *)
(* whatever is under way at the same time, what the policy asks about is   *)
(* not done without a yes, and what it denies is not done; what a tool     *)
(* writes is what it has read with the edits it was asked for; and of a    *)
(* todo list never more than one task is in progress.                      *)
(*                                                                         *)
(* And about PendingAnswers, the yes that such a call waits for, for any   *)
(* number of calls and clients, as long as the ids of the calls differ:    *)
(* whatever timeouts, late answers and other calls do, a call ends as its  *)
(* user has said.                                                          *)
(***************************************************************************)
EXTENDS ToolCalls, PendingAnswers, FiniteSetTheorems, SequenceTheorems, Induction, TLAPS

\* The policy knows three answers; it lets a tool that writes through only where
\* everything or every edit is allowed, and nothing that writes in plan mode.
LEMMA PolicyAnswers ==
  ASSUME NEW m, NEW tool
  PROVE  Check(m, tool) \in {"Allow", "Ask", "Deny"}
BY DEF Check

LEMMA PlanDeniesWriters ==
  ASSUME NEW tool \in {"write", "edit", "multi_edit", "apply_patch", "shell"}
  PROVE  Check("Plan", tool) = "Deny"
BY DEF Check, Risk, ReadOnlyTools

LEMMA PatchIsAskedAbout ==
  ASSUME NEW m \in Modes, m # "BypassPermissions", NEW tool \in {"apply_patch", "shell"}
  PROVE  Check(m, tool) # "Allow"
BY DEF Check, Risk, ReadOnlyTools

\* The shape of the state: a function of the files, and the record of a call for each
\* agent.
Whole(f, domain) == f = [x \in domain |-> f[x]]
ShapeInv ==
  /\ Whole(disk, Files)
  /\ Whole(call, Agents)
  /\ \A a \in Agents : Whole(call[a], DOMAIN Idle)
  /\ mode \in Modes
  /\ strays \in Nat /\ shells \in Nat

\* A call runs when the policy allows it, or asked and the user said yes; it writes
\* when it is a tool that writes, within its bounds.
PolicyOf(a) ==
  /\ InStage(a, "asked") => Check(mode, Tool(a)) = "Ask"
  /\ call[a].stage \in {"run", "put", "fill"} =>
       Check(mode, Tool(a)) = "Allow" \/ (Check(mode, Tool(a)) = "Ask" /\ a \in yes)
  /\ call[a].stage \in {"put", "fill"} =>
       /\ Tool(a) \in {"write", "edit", "multi_edit", "apply_patch"}
       /\ InBounds(Tool(a), File(a))

CallsInv == ShapeInv /\ \A a \in Agents : PolicyOf(a)

\* Being told that the file has changed changes nothing else of a call.
LEMMA DisturbKeeps ==
  ASSUME ShapeInv, NEW f, NEW w
  PROVE  /\ Whole(Disturb(call, f, w), Agents)
         /\ \A a \in Agents :
              /\ Whole(Disturb(call, f, w)[a], DOMAIN Idle)
              /\ Disturb(call, f, w)[a].input = call[a].input
              /\ Disturb(call, f, w)[a].stage = call[a].stage
BY DEF ShapeInv, Whole, Disturb, Idle

\* What a step of agent a may do to the others.
OthersStay(a) ==
  /\ Whole(call', Agents)
  /\ \A b \in Agents : Whole(call'[b], DOMAIN Idle)
  /\ \A b \in Agents \ {a} :
       /\ call'[b].input = call[b].input
       /\ call'[b].stage = call[b].stage
       /\ b \in yes => b \in yes'
  /\ Whole(disk', Files)
  /\ UNCHANGED <<mode, strays, shells>>

LEMMA StepOfOne ==
  ASSUME CallsInv, NEW a \in Agents, OthersStay(a), PolicyOf(a)'
  PROVE  CallsInv'
<1>1. ASSUME NEW b \in Agents \ {a} PROVE PolicyOf(b)'
  BY DEF CallsInv, OthersStay, PolicyOf, InStage, Tool, File, InBounds
<1> QED
  BY <1>1 DEF CallsInv, ShapeInv, OthersStay

LEMMA CallsInductive ==
  ASSUME CallsInv, [Next]_vars
  PROVE  CallsInv'
<1> USE DEF CallsInv, counts
<1>1. ASSUME NEW a \in Agents, NEW input \in Calls, Decide(a, input) PROVE CallsInv'
  <2> DEFINE decision == Check(mode, input.tool)
  <2>1. /\ decision \in {"Allow", "Ask"}
        /\ call' = [call EXCEPT ![a].input = input,
                               ![a].stage = IF decision = "Ask" THEN "asked" ELSE "run"]
        /\ UNCHANGED <<disk, mode, strays, shells, yes>>
    BY <1>1, PolicyAnswers DEF Decide
  <2>2. OthersStay(a)
    BY <2>1 DEF OthersStay, ShapeInv, Whole, Idle
  <2>3. /\ call'[a].input = input
        /\ call'[a].stage = IF decision = "Ask" THEN "asked" ELSE "run"
    BY <2>1 DEF ShapeInv, Whole, Idle
  <2>4. PolicyOf(a)'
    BY <2>1, <2>3 DEF PolicyOf, InStage, Tool
  <2> QED
    BY <2>2, <2>4, StepOfOne
<1>2. ASSUME NEW a \in Agents, Allowed(a) PROVE CallsInv'
  <2>1. /\ InStage(a, "asked") /\ call' = [call EXCEPT ![a].stage = "run"]
        /\ yes' = yes \cup {a} /\ UNCHANGED <<disk, mode, strays, shells>>
    BY <1>2 DEF Allowed
  <2>2. OthersStay(a)
    BY <2>1 DEF OthersStay, ShapeInv, Whole, Idle
  <2>3. call'[a].input = call[a].input /\ call'[a].stage = "run"
    BY <2>1 DEF ShapeInv, Whole, Idle
  <2>4. PolicyOf(a)'
    BY <2>1, <2>3 DEF PolicyOf, InStage, Tool
  <2> QED
    BY <2>2, <2>4, StepOfOne
<1>3. ASSUME NEW a \in Agents, call' = [call EXCEPT ![a] = Idle], yes' = yes \ {a},
             Whole(disk', Files), UNCHANGED <<mode, strays, shells>>
      PROVE  CallsInv'
  <2>1. OthersStay(a)
    <3>1. call'[a] = Idle /\ \A b \in Agents \ {a} : call'[b] = call[b]
      BY <1>3 DEF ShapeInv, Whole
    <3>2. Whole(call', Agents)
      BY <1>3 DEF ShapeInv, Whole
    <3>3. \A b \in Agents : Whole(call'[b], DOMAIN Idle)
      BY <3>1 DEF ShapeInv, Whole, Idle
    <3> QED
      BY <1>3, <3>1, <3>2, <3>3 DEF OthersStay
  <2>2. PolicyOf(a)'
    BY <1>3 DEF PolicyOf, InStage, Idle, ShapeInv, Whole
  <2> QED
    BY <2>1, <2>2, StepOfOne
<1>4. ASSUME NEW a \in Agents, Refused(a) \/ PutFails(a) \/ ShellEnds(a) PROVE CallsInv'
  BY <1>3, <1>4 DEF Refused, PutFails, ShellEnds, Return, ShapeInv
<1>5. ASSUME NEW a \in Agents, WriteBegins(a) PROVE CallsInv'
  <2>1. CASE InBounds("write", File(a))
    <3>1. /\ InStage(a, "run") /\ Tool(a) = "write"
          /\ call' = [call EXCEPT ![a].stage = "put", ![a].text = call[a].input.text]
          /\ UNCHANGED <<disk, mode, strays, shells, yes>>
      BY <1>5, <2>1 DEF WriteBegins
    <3>2. OthersStay(a)
      BY <3>1 DEF OthersStay, ShapeInv, Whole, Idle
    <3>3. call'[a].input = call[a].input /\ call'[a].stage = "put"
      BY <3>1 DEF ShapeInv, Whole, Idle
    <3>4. PolicyOf(a)'
      BY <2>1, <3>1, <3>3 DEF PolicyOf, InStage, Tool, File, InBounds
    <3> QED
      BY <3>2, <3>4, StepOfOne
  <2>2. CASE ~InBounds("write", File(a))
    BY <1>3, <1>5, <2>2 DEF WriteBegins, Return, ShapeInv
  <2> QED
    BY <2>1, <2>2
<1>6. ASSUME NEW a \in Agents, EditReads(a) PROVE CallsInv'
  <2> DEFINE out == Computed(call[a].input, Text(File(a)))
             ok == InBounds(Tool(a), File(a)) /\ disk[File(a)] # NoFile /\ ~out.error
  <2>1. CASE ok
    <3>1. /\ InStage(a, "run") /\ Tool(a) \in {"edit", "multi_edit", "apply_patch"}
          /\ call' = [call EXCEPT ![a].stage = "put", ![a].read = TRUE,
                                 ![a].seen = disk[File(a)], ![a].text = out.text]
          /\ UNCHANGED <<disk, mode, strays, shells, yes>>
      BY <1>6, <2>1 DEF EditReads
    <3> HIDE DEF out
    <3>2. OthersStay(a)
      BY <3>1 DEF OthersStay, ShapeInv, Whole, Idle
    <3>3. call'[a].input = call[a].input /\ call'[a].stage = "put"
      BY <3>1 DEF ShapeInv, Whole, Idle
    <3>4. PolicyOf(a)'
      BY <2>1, <3>1, <3>3 DEF PolicyOf, InStage, Tool, File, InBounds
    <3> QED
      BY <3>2, <3>4, StepOfOne
  <2>2. CASE ~ok
    BY <1>3, <1>6, <2>2 DEF EditReads, Return, ShapeInv
  <2> QED
    BY <2>1, <2>2
<1>7. ASSUME NEW a \in Agents, Put(a) PROVE CallsInv'
  <2> DEFINE told == Disturb(call, File(a), a)
  <2>1. /\ InStage(a, "put") /\ call' = [told EXCEPT ![a].stage = "fill"]
        /\ disk' = [disk EXCEPT ![File(a)] = <<>>]
        /\ UNCHANGED <<mode, strays, shells, yes>>
    BY <1>7 DEF Put
  <2>2. /\ Whole(told, Agents)
        /\ \A b \in Agents : /\ Whole(told[b], DOMAIN Idle)
                            /\ told[b].input = call[b].input
                            /\ told[b].stage = call[b].stage
    BY DisturbKeeps
  <2> HIDE DEF told
  <2>3. OthersStay(a)
    BY <2>1, <2>2 DEF OthersStay, ShapeInv, Whole, Idle
  <2>4. call'[a].input = call[a].input /\ call'[a].stage = "fill"
    BY <2>1, <2>2 DEF Whole, Idle
  <2>5. PolicyOf(a)'
    BY <2>1, <2>4 DEF PolicyOf, InStage, Tool, File, InBounds
  <2> QED
    BY <2>3, <2>5, StepOfOne
<1>8. ASSUME NEW a \in Agents, Fill(a) \/ FillFails(a) PROVE CallsInv'
  <2> DEFINE told == Disturb(call, File(a), a)
  <2>1. /\ call' = [told EXCEPT ![a] = Idle] /\ yes' = yes \ {a}
        /\ UNCHANGED <<mode, strays, shells>>
    BY <1>8 DEF Fill, FillFails
  <2>2. Whole(disk', Files)
    BY <1>8 DEF Fill, FillFails, ShapeInv, Whole
  <2>3. /\ Whole(told, Agents)
        /\ \A b \in Agents : /\ Whole(told[b], DOMAIN Idle)
                            /\ told[b].input = call[b].input
                            /\ told[b].stage = call[b].stage
    BY DisturbKeeps
  <2> HIDE DEF told
  <2>4. OthersStay(a)
    BY <2>1, <2>2, <2>3 DEF OthersStay, Whole, Idle
  <2>5. PolicyOf(a)'
    BY <2>1, <2>3 DEF PolicyOf, InStage, Idle, Whole
  <2> QED
    BY <2>4, <2>5, StepOfOne
<1>9. ASSUME NEW f \in Files, StrayWrite(f), strays' \in Nat, shells' \in Nat
      PROVE  CallsInv'
  <2> DEFINE told == Disturb(call, f, NoCall)
  <2>1. call' = told /\ UNCHANGED <<mode, yes>>
    BY <1>9 DEF StrayWrite
  <2>2. Whole(disk', Files)
    BY <1>9 DEF StrayWrite, ShapeInv, Whole
  <2>3. /\ Whole(told, Agents)
        /\ \A b \in Agents : /\ Whole(told[b], DOMAIN Idle)
                            /\ told[b].input = call[b].input
                            /\ told[b].stage = call[b].stage
    BY DisturbKeeps
  <2> HIDE DEF told
  <2>4. ASSUME NEW b \in Agents PROVE PolicyOf(b)'
    BY <2>1, <2>3 DEF PolicyOf, InStage, Tool, File, InBounds
  <2> QED
    BY <1>9, <2>1, <2>2, <2>3, <2>4 DEF ShapeInv
<1>13. ASSUME NEW f \in Files, UserWrites(f) \/ \E a \in Agents : ShellWrites(a, f)
       PROVE  CallsInv'
  BY <1>9, <1>13 DEF UserWrites, ShellWrites, ShapeInv
<1>10. ASSUME NEW a \in Agents, TodoCall(a) PROVE CallsInv'
  BY <1>10 DEF TodoCall, ShapeInv, PolicyOf, InStage, Tool, File, InBounds
<1>11. CASE Kill
  BY <1>11 DEF Kill, ShapeInv, Whole, PolicyOf, InStage, Idle
<1>12. CASE UNCHANGED vars
  BY <1>12 DEF vars, ShapeInv, PolicyOf, InStage, Tool, File, InBounds
<1> QED
  BY <1>1, <1>2, <1>4, <1>5, <1>6, <1>7, <1>8, <1>10, <1>11, <1>12, <1>13 DEF Next

THEOREM CallsInvariant == Spec => []CallsInv
<1>1. Init => CallsInv
  <2> SUFFICES ASSUME Init PROVE CallsInv
    OBVIOUS
  <2>1. Whole(disk, Files)
    BY TextsAssumption DEF Init, Whole
  <2>2. /\ Whole(call, Agents)
        /\ \A a \in Agents : Whole(call[a], DOMAIN Idle) /\ call[a].stage = "idle"
    BY DEF Init, Whole, Idle
  <2>3. \A a \in Agents : PolicyOf(a)
    BY <2>2 DEF PolicyOf, InStage
  <2> QED
    BY <2>1, <2>2, <2>3 DEF Init, CallsInv, ShapeInv
<1>2. CallsInv /\ [Next]_vars => CallsInv'
  BY CallsInductive
<1> QED
  BY <1>1, <1>2, PTL DEF Spec

\* What PolicyIsKept asks of a step.
StepKeepsPolicy ==
  strays' = strays =>
    /\ mode = "Plan" => UNCHANGED <<disk, dirs>>
    /\ \A f \in Outside : disk'[f] # disk[f] => mode = "BypassPermissions" \/ HasYes(f)

\* PolicyIsKept for any number of agents, calls and files: with the check of
\* run_agent and the bounds of the tools, no interleaving of calls, commands, writes of
\* the user, failures and kills writes what was denied or was not allowed.
THEOREM PolicyHolds == Spec => PolicyIsKept
<1>1. ASSUME CallsInv, Next, strays' = strays PROVE StepKeepsPolicy
  <2>1. ASSUME NEW a \in Agents, WriteBegins(a) PROVE StepKeepsPolicy
    <3>1. mode # "Plan"
      BY <1>1, <2>1, PlanDeniesWriters DEF WriteBegins, CallsInv, PolicyOf, InStage
    <3> QED
      BY <2>1, <3>1 DEF WriteBegins, StepKeepsPolicy
  <2>2. ASSUME NEW a \in Agents, Put(a) \/ Fill(a) \/ FillFails(a) PROVE StepKeepsPolicy
    <3>1. call[a].stage \in {"put", "fill"} /\ PolicyOf(a)
      BY <1>1, <2>2 DEF Put, Fill, FillFails, InStage, CallsInv
    <3>2. mode # "Plan"
      BY <3>1, PlanDeniesWriters DEF PolicyOf
    <3>3. ASSUME NEW f \in Outside, disk'[f] # disk[f], mode # "BypassPermissions"
          PROVE  HasYes(f)
      <4>1. File(a) = f
        BY <1>1, <2>2, <3>3 DEF Put, Fill, FillFails, CallsInv, ShapeInv, Whole, Files
      <4>2. Tool(a) = "apply_patch"
        BY <3>1, <3>3, <4>1, FilesAssumption DEF PolicyOf, InBounds
      <4>3. a \in yes /\ AtFile(a, f)
        BY <1>1, <3>1, <3>3, <4>1, <4>2, PatchIsAskedAbout
           DEF PolicyOf, AtFile, CallsInv, ShapeInv
      <4>4. shells' = shells
        BY <2>2 DEF Put, Fill, FillFails, counts
      <4> QED
        BY <4>2, <4>3, <4>4 DEF HasYes
    <3> QED
      BY <3>2, <3>3 DEF StepKeepsPolicy
  <2>3. ASSUME NEW f \in Files, UserWrites(f) PROVE FALSE
    BY <1>1, <2>3 DEF UserWrites, CallsInv, ShapeInv
  <2>6. ASSUME NEW a \in Agents, NEW f \in Files, ShellWrites(a, f) PROVE StepKeepsPolicy
    <3>1. InStage(a, "run") /\ Tool(a) = "shell" /\ shells' = shells + 1 /\ PolicyOf(a)
      BY <1>1, <2>6 DEF ShellWrites, CallsInv
    <3>2. mode # "Plan"
      BY <3>1, PlanDeniesWriters DEF PolicyOf, InStage
    <3>3. ASSUME mode # "BypassPermissions" PROVE a \in yes
      BY <1>1, <3>1, <3>3, PatchIsAskedAbout DEF PolicyOf, InStage, CallsInv, ShapeInv
    <3>4. shells' # shells
      BY <1>1, <3>1 DEF CallsInv, ShapeInv
    <3> QED
      BY <3>1, <3>2, <3>3, <3>4 DEF StepKeepsPolicy, HasYes
  <2>4. ASSUME NEW a \in Agents,
               \/ \E input \in Calls : Decide(a, input)
               \/ Allowed(a) \/ Refused(a) \/ EditReads(a) \/ PutFails(a) \/ ShellEnds(a)
               \/ TodoCall(a)
        PROVE  StepKeepsPolicy
    BY <2>4 DEF Decide, Allowed, Refused, EditReads, PutFails, ShellEnds, TodoCall,
                StepKeepsPolicy
  <2>5. CASE Kill
    BY <2>5 DEF Kill, StepKeepsPolicy
  <2> QED
    BY <1>1, <2>1, <2>2, <2>3, <2>4, <2>5, <2>6 DEF Next
<1>2. CallsInv /\ [Next]_vars => [StepKeepsPolicy]_vars
  BY <1>1 DEF StepKeepsPolicy
<1>3. Spec => [][StepKeepsPolicy]_vars
  BY <1>2, CallsInvariant, PTL DEF Spec
<1> QED
  BY <1>3 DEF PolicyIsKept, StepKeepsPolicy

-------------------------------------------------------------------------------
(* The todo lists. *)

\* A list whose tasks in progress are one, or none.
OneAtMost(list) ==
  \A i, j \in DOMAIN list : list[i] = "InProgress" /\ list[j] = "InProgress" => i = j

TodoInv ==
  /\ Whole(todo, Agents)
  /\ \A a \in Agents : OneAtMost(todo[a])

\* Create leaves the first task in progress, update the one it names.
LEMMA CreatedHasOne ==
  ASSUME NEW list, OneAtMost(list), NEW spellings \in Seq(STRING)
  PROVE  OneAtMost(Created(list, spellings))
<1>1. DOMAIN spellings \subseteq Nat
  OBVIOUS
<1> DEFINE named == [i \in DOMAIN spellings |-> Named(spellings[i])]
<1>2. OneAtMost(SingleInProgress(named))
  <2>1. DOMAIN SingleInProgress(named) = DOMAIN spellings
    BY DEF SingleInProgress
  <2>2. ASSUME NEW i \in DOMAIN spellings, NEW j \in DOMAIN spellings, i < j,
               SingleInProgress(named)[i] = "InProgress",
               SingleInProgress(named)[j] = "InProgress"
        PROVE  FALSE
    <3>1. named[i] = "InProgress"
      BY <2>2 DEF SingleInProgress
    <3>2. i \in 1 .. j - 1
      BY <1>1, <2>2
    <3> QED
      BY <2>2, <3>1, <3>2 DEF SingleInProgress
  <2> QED
    BY <1>1, <2>1, <2>2 DEF OneAtMost
<1> QED
  BY <1>2 DEF Created

LEMMA UpdatedHasOne ==
  ASSUME NEW list, OneAtMost(list), NEW index, NEW status
  PROVE  OneAtMost(Updated(list, index, status))
BY DEF OneAtMost, Updated

LEMMA TodoInductive ==
  ASSUME TodoInv, [Next]_vars
  PROVE  TodoInv'
<1> USE DEF TodoInv
<1>1. ASSUME NEW a \in Agents, NEW list, OneAtMost(list), todo' = [todo EXCEPT ![a] = list]
      PROVE  TodoInv'
  BY <1>1 DEF Whole
<1>2. ASSUME NEW a \in Agents, TodoCall(a) PROVE TodoInv'
  <2>1. ASSUME NEW spellings \in ListedTodos,
               todo' = [todo EXCEPT ![a] = Created(todo[a], spellings)]
        PROVE  TodoInv'
    BY <1>1, <2>1, CreatedHasOne, ListedTodosAssumption
  <2>2. ASSUME NEW index, NEW status,
               todo' = [todo EXCEPT ![a] = Updated(todo[a], index, status)]
        PROVE  TodoInv'
    BY <1>1, <2>2, UpdatedHasOne
  <2>3. CASE todo' = [todo EXCEPT ![a] = <<>>]
    <3>1. OneAtMost(<<>>)
      BY DEF OneAtMost
    <3> QED
      BY <1>1, <2>3, <3>1
  <2> QED
    BY <1>2, <2>1, <2>2, <2>3 DEF TodoCall
<1>3. CASE Kill
  BY <1>3 DEF Kill, Whole, OneAtMost
<1>4. CASE UNCHANGED todo
  BY <1>4
<1> QED
  BY <1>2, <1>3, <1>4
     DEF Next, vars, Decide, Allowed, Refused, WriteBegins, EditReads, Put, PutFails, Fill,
         FillFails, ShellEnds, ShellWrites, UserWrites, StrayWrite

\* OneInProgress for any agents and any lists: whatever is created, updated and
\* cleared, in any order, "только один in_progress за раз" (todo.rs).
THEOREM OneStaysInProgress == Spec => []OneInProgress
<1>1. Init => TodoInv
  BY DEF Init, TodoInv, Whole, OneAtMost
<1>2. TodoInv /\ [Next]_vars => TodoInv'
  BY TodoInductive
<1>3. TodoInv => OneInProgress
  <2> SUFFICES ASSUME TodoInv, NEW a \in Agents
               PROVE  Cardinality({i \in DOMAIN todo[a] : todo[a][i] = "InProgress"}) <= 1
    BY DEF OneInProgress
  <2> DEFINE inProgress == {i \in DOMAIN todo[a] : todo[a][i] = "InProgress"}
  <2>1. CASE inProgress = {}
    BY <2>1, FS_EmptySet
  <2>2. ASSUME NEW i \in inProgress PROVE Cardinality(inProgress) <= 1
    <3>1. inProgress = {i}
      BY DEF TodoInv, OneAtMost
    <3> QED
      BY <3>1, FS_Singleton
  <2> QED
    BY <2>1, <2>2
<1> QED
  BY <1>1, <1>2, <1>3, PTL DEF Spec

-------------------------------------------------------------------------------
(* The texts that edits make. *)

\* A run stands in a text where there is room for it, and somewhere first.
LEMMA PlacesInText ==
  ASSUME NEW text \in Seq(Line), NEW run \in Seq(Line)
  PROVE  /\ Places(text, run) \subseteq 1 .. Len(text) + 1
         /\ \A p \in Places(text, run) : p + Len(run) <= Len(text) + 1
BY DEF Places

LEMMA FirstIsLeast ==
  ASSUME NEW text \in Seq(Line), NEW run \in Seq(Line), Places(text, run) # {}
  PROVE  /\ FirstPlace(text, run) \in Places(text, run)
         /\ \A q \in Places(text, run) : FirstPlace(text, run) <= q
<1>1. Places(text, run) \subseteq Nat
  BY PlacesInText
<1>2. \E p \in Places(text, run) : \A q \in Places(text, run) : p <= q
  BY <1>1, LeastNatural
<1> QED
  BY <1>2, Zenon DEF FirstPlace

\* The matches are places that do not overlap, and every place is one or is covered by
\* one that begins before it.
Covered(found, text, run, p) ==
  \A q \in Places(text, run) :
    q <= p => \E m \in found : m = q \/ (m < q /\ q < m + Len(run))

Spaced(found, run) == \A p, q \in found : p < q => p + Len(run) <= q

LEMMA MatchesCover ==
  ASSUME NEW text \in Seq(Line), NEW run \in Seq(Line)
  PROVE  /\ Matches(text, run) \subseteq Places(text, run)
         /\ Spaced(Matches(text, run), run)
         /\ Covered(Matches(text, run), text, run, Len(text) + 1)
<1> DEFINE n == Len(text) + 1
           S == SUBSET Nat
           Next1(found, p) ==
             IF p = 0 THEN {}
             ELSE IF p \in Places(text, run) /\ \A q \in found[p - 1] : q + Len(run) <= p
                  THEN found[p - 1] \cup {p}
                  ELSE found[p - 1]
           R(found) == found = [p \in 0 .. Len(text) + 1 |-> Next1(found, p)]
           c == CHOOSE found : R(found)
           step == [p \in 1 .. n |-> [s \in S |->
                      IF p \in Places(text, run) /\ \A q \in s : q + Len(run) <= p
                      THEN s \cup {p} ELSE s]]
<1>1. n \in Nat /\ Len(text) \in Nat /\ Len(run) \in Nat
  OBVIOUS
<1>2. step \in [1 .. n -> [S -> S]]
  <2>1. ASSUME NEW p \in 1 .. n, NEW s \in S
        PROVE  (IF p \in Places(text, run) /\ \A q \in s : q + Len(run) <= p
                THEN s \cup {p} ELSE s) \in S
    <3>1. p \in Nat
      BY <1>1
    <3> QED
      BY <3>1
  <2> QED
    BY <2>1
<1>3. PICK f \in [0 .. n -> S] : Recurs(f, n, {}, step)
  <2>1. {} \in S
    OBVIOUS
  <2> HIDE DEF step, S, n
  <2> QED
    BY <1>1, <1>2, <2>1, RecursionExists, Zenon
<1>4. R(f)
  <2> SUFFICES ASSUME NEW p \in 0 .. n PROVE f[p] = Next1(f, p)
    BY <1>3
  <2>1. p # 0 => p \in 1 .. n /\ p - 1 \in 0 .. n
    BY <1>1
  <2>2. p # 0 => f[p - 1] \in S
    BY <1>3, <2>1
  <2> QED
    BY <2>1, <2>2, <1>3 DEF Recurs
<1>5. R(c)
  <2> HIDE DEF R
  <2> QED
    BY <1>4, Zenon
<1>6. Matches(text, run) = c[n]
  BY Zenon DEF Matches, c
<1> HIDE DEF c
<1>7. \A p \in 0 .. n : c[p] = Next1(c, p)
  BY <1>5
<1> DEFINE Good == {p \in 0 .. n :
             /\ c[p] \subseteq Places(text, run) /\ \A k \in c[p] : k <= p
             /\ Spaced(c[p], run) /\ Covered(c[p], text, run, p)}
<1>8. 0 \in Good
  <2>1. 0 \in 0 .. n
    BY <1>1
  <2>2. c[0] = {}
    BY <1>7, <2>1, Zenon
  <2>3. \A q \in Places(text, run) : ~ (q <= 0)
    BY PlacesInText
  <2> QED
    BY <2>1, <2>2, <2>3 DEF Covered, Spaced
<1>9. ASSUME NEW p \in 0 .. n, p \in Good, p < n PROVE p + 1 \in Good
  <2>1. /\ p + 1 \in 0 .. n /\ p + 1 # 0 /\ (p + 1) - 1 = p
        /\ c[p] \subseteq Places(text, run) /\ \A k \in c[p] : k <= p
        /\ Spaced(c[p], run) /\ Covered(c[p], text, run, p)
    BY <1>1, <1>9
  <2>2. c[p + 1] = IF /\ p + 1 \in Places(text, run)
                     /\ \A q \in c[(p + 1) - 1] : q + Len(run) <= p + 1
                   THEN c[(p + 1) - 1] \cup {p + 1} ELSE c[(p + 1) - 1]
    BY <1>7, <2>1, Zenon
  <2>3. /\ c[p + 1] \subseteq Places(text, run) /\ c[p] \subseteq c[p + 1]
        /\ \A k \in c[p + 1] : k <= p + 1
    <3>1. c[p] \subseteq Nat
      BY <2>1, PlacesInText
    <3> QED
      BY <1>1, <2>1, <2>2, <3>1
  <2>4. ASSUME NEW q \in Places(text, run), q <= p + 1
        PROVE  \E m \in c[p + 1] : m = q \/ (m < q /\ q < m + Len(run))
    <3>1. q \in Nat /\ c[p] \subseteq Nat
      BY <2>1, PlacesInText
    <3>2. CASE q <= p
      BY <2>1, <2>3, <3>2 DEF Covered
    <3>3. CASE q = p + 1 /\ \A m \in c[p] : m + Len(run) <= p + 1
      BY <2>1, <2>2, <3>3
    <3>4. CASE q = p + 1 /\ \E m \in c[p] : ~ (m + Len(run) <= p + 1)
      <4>1. PICK m \in c[p] : ~ (m + Len(run) <= p + 1)
        BY <3>4
      <4>2. m <= p + 1
        BY <1>1, <2>1, <3>1, <4>1
      <4>3. m = q \/ (m < q /\ q < m + Len(run))
        BY <1>1, <3>1, <3>4, <4>1, <4>2
      <4> QED
        BY <2>3, <4>3
    <3> QED
      BY <1>1, <1>9, <2>4, <3>1, <3>2, <3>3, <3>4
  <2>5. Spaced(c[p + 1], run)
    <3>1. c[p] \subseteq Nat
      BY <2>1, PlacesInText
    <3>2. \A k \in c[p] : k < p + 1
      BY <1>1, <2>1, <3>1
    <3> QED
      BY <1>1, <2>1, <2>2, <3>1, <3>2 DEF Spaced
  <2> QED
    BY <2>1, <2>3, <2>4, <2>5 DEF Covered
<1> HIDE DEF Good
<1>10. \A p \in 0 .. n : p \in Good
  BY <1>1, <1>8, <1>9, InductionUpTo, Zenon
<1> QED
  BY <1>1, <1>6, <1>10 DEF Good

\* Putting lines in at a place, or at every match, makes a text again.
LEMMA PutAtMakesText ==
  ASSUME NEW text \in Seq(Line), NEW edit \in Edit, NEW p \in Places(text, edit.old)
  PROVE  PutAt(text, p, edit) \in Seq(Line)
<1>1. /\ edit.old \in Seq(Line) /\ edit.new \in Seq(Line)
      /\ Len(edit.old) \in Nat /\ Len(text) \in Nat
  BY DEF Edit
<1>2. p \in Nat /\ 1 <= p /\ p + Len(edit.old) <= Len(text) + 1
  BY <1>1, PlacesInText
<1>3. SubSeq(text, 1, p - 1) \in Seq(Line)
  <2>1. \A i \in 1 .. p - 1 : text[i] \in Line
    BY <1>1, <1>2
  <2> QED
    BY <1>2, <2>1, SubSeqProperties
<1>4. SubSeq(text, p + Len(edit.old), Len(text)) \in Seq(Line)
  <2>1. \A i \in p + Len(edit.old) .. Len(text) : text[i] \in Line
    BY <1>1, <1>2
  <2> QED
    BY <1>1, <1>2, <2>1, SubSeqProperties
<1> QED
  BY <1>1, <1>3, <1>4, ConcatProperties DEF PutAt

LEMMA ReplaceFirstMakesText ==
  ASSUME NEW text \in Seq(Line), NEW edit \in Edit, Places(text, edit.old) # {}
  PROVE  ReplaceFirst(text, edit) \in Seq(Line)
<1>1. edit.old \in Seq(Line)
  BY DEF Edit
<1> QED
  BY <1>1, FirstIsLeast, PutAtMakesText DEF ReplaceFirst

LEMMA ReplaceAtMakesText ==
  ASSUME NEW text \in Seq(Line), NEW edit \in Edit, NEW matches
  PROVE  ReplaceAt(text, matches, edit) \in Seq(Line)
<1> DEFINE kept(p) == p <= Len(text) /\ \A q \in matches : p < q \/ p >= q + Len(edit.old)
           added(p) == IF p \in matches THEN edit.new ELSE <<>>
           left(p) == IF kept(p) THEN <<text[p]>> ELSE <<>>
           n == Len(text) + 1
           S == Seq(Line)
           Next1(out, p) == IF p = 0 THEN <<>> ELSE out[p - 1] \o added(p) \o left(p)
           R(out) == out = [p \in 0 .. Len(text) + 1 |-> Next1(out, p)]
           c == CHOOSE out : R(out)
           step == [p \in 1 .. n |-> [s \in S |-> s \o added(p) \o left(p)]]
<1>1. n \in Nat /\ Len(text) \in Nat
  OBVIOUS
<1>2. ASSUME NEW p \in 1 .. n, NEW s \in S PROVE s \o added(p) \o left(p) \in S
  <2>1. added(p) \in S
    BY DEF Edit
  <2>2. left(p) \in S
    <3>1. p <= Len(text) => text[p] \in Line
      BY <1>1
    <3> QED
      BY <3>1
  <2> HIDE DEF added, left
  <2> QED
    BY <2>1, <2>2, ConcatProperties
<1>3. step \in [1 .. n -> [S -> S]]
  <2> HIDE DEF added, left
  <2> QED
    BY <1>2
<1>4. PICK f \in [0 .. n -> S] : Recurs(f, n, <<>>, step)
  <2>1. <<>> \in S
    OBVIOUS
  <2> HIDE DEF step, S, n
  <2> QED
    BY <1>1, <1>3, <2>1, RecursionExists, Zenon
<1>5. R(f)
  <2> HIDE DEF added, left
  <2> SUFFICES ASSUME NEW p \in 0 .. n PROVE f[p] = Next1(f, p)
    BY <1>4
  <2>1. p # 0 => p \in 1 .. n /\ p - 1 \in 0 .. n
    BY <1>1
  <2>2. p # 0 => f[p - 1] \in S
    BY <1>4, <2>1
  <2> QED
    BY <2>1, <2>2, <1>4 DEF Recurs
<1>6. R(c)
  <2> HIDE DEF R
  <2> QED
    BY <1>5, Zenon
<1>7. ReplaceAt(text, matches, edit) = c[n]
  BY Zenon DEF ReplaceAt, c
<1> HIDE DEF c, added, left
<1>8. c \in [0 .. n -> S]
  <2>1. \A p \in 0 .. n : c[p] = Next1(c, p)
    BY <1>6
  <2>2. c = [p \in 0 .. n |-> c[p]]
    BY <1>6
  <2>3. c[0] \in S
    <3>1. 0 \in 0 .. n
      BY <1>1
    <3>2. c[0] = <<>>
      BY <2>1, <3>1, Zenon
    <3> QED
      BY <3>2
  <2>4. ASSUME NEW p \in 1 .. n, c[p - 1] \in S PROVE c[p] \in S
    <3>1. p \in 0 .. n /\ p # 0
      BY <1>1
    <3>2. c[p] = c[p - 1] \o added(p) \o left(p)
      BY <2>1, <3>1, Zenon
    <3> QED
      BY <1>2, <2>4, <3>2
  <2> HIDE DEF S, n
  <2> QED
    BY <1>1, <2>2, <2>3, <2>4, RecursionType
<1> QED
  BY <1>1, <1>7, <1>8

Outcome == [error : BOOLEAN, text : Seq(Line)]

\* What an edit makes of a text at a place that every other one overlaps, and at places
\* that leave none out.
AtOne(text, edit, made) ==
  \E p \in Places(text, edit.old) :
    /\ made = PutAt(text, p, edit)
    /\ \A q \in Places(text, edit.old) : Overlap(p, q, edit.old)
AtAll(text, edit, made) ==
  \E taken \in SUBSET Places(text, edit.old) :
    /\ made = ReplaceAt(text, taken, edit)
    /\ \A p, q \in taken : Overlap(p, q, edit.old) => p = q
    /\ \A q \in Places(text, edit.old) : \E p \in taken : Overlap(p, q, edit.old)

\* The places that str::replace takes are such.
LEMMA MatchesAreAll ==
  ASSUME NEW text \in Seq(Line), NEW edit \in Edit
  PROVE  AtAll(text, edit, ReplaceEvery(text, edit))
<1> DEFINE matches == Matches(text, edit.old)
           places == Places(text, edit.old)
<1>1. /\ edit.old \in Seq(Line) /\ Len(edit.old) \in Nat /\ Len(text) \in Nat
      /\ places \subseteq 1 .. Len(text) + 1
  BY PlacesInText DEF Edit
<1>2. /\ matches \subseteq places /\ Spaced(matches, edit.old)
      /\ Covered(matches, text, edit.old, Len(text) + 1)
  BY <1>1, MatchesCover
<1>3. ReplaceEvery(text, edit) = ReplaceAt(text, matches, edit)
  BY DEF ReplaceEvery
<1> HIDE DEF matches
<1>4. matches \subseteq Nat /\ places \subseteq Nat
  BY <1>1, <1>2
<1>5. \A p, q \in matches : Overlap(p, q, edit.old) => p = q
  BY <1>1, <1>2, <1>4 DEF Spaced, Overlap
<1>6. ASSUME NEW q \in places PROVE \E p \in matches : Overlap(p, q, edit.old)
  <2>1. q <= Len(text) + 1
    BY <1>1
  <2>2. PICK m \in matches : m = q \/ (m < q /\ q < m + Len(edit.old))
    BY <1>2, <2>1 DEF Covered
  <2>3. Overlap(m, q, edit.old)
    BY <1>1, <1>4, <2>2 DEF Overlap
  <2> QED
    BY <2>3
<1> QED
  BY <1>2, <1>3, <1>5, <1>6 DEF AtAll

\* edit that is not to replace every match has found one that every place overlaps.
LEMMA EditTextOfOne ==
  ASSUME NEW text \in Seq(Line), NEW edit \in Edit, NEW all \in BOOLEAN
  PROVE  /\ EditText(text, edit, all) \in Outcome
         /\ ~ EditText(text, edit, all).error /\ ~ all =>
              AtOne(text, edit, EditText(text, edit, all).text)
         /\ ~ EditText(text, edit, all).error /\ all =>
              AtAll(text, edit, EditText(text, edit, all).text)
<1> DEFINE matches == Matches(text, edit.old)
           places == Places(text, edit.old)
           count == Cardinality(matches)
           first == FirstPlace(text, edit.old)
<1>1. /\ edit.old \in Seq(Line) /\ Len(edit.old) \in Nat /\ Len(text) \in Nat
      /\ places \subseteq 1 .. Len(text) + 1
  BY PlacesInText DEF Edit
<1>2. matches \subseteq places /\ Covered(matches, text, edit.old, Len(text) + 1)
  BY <1>1, MatchesCover
<1>3. IsFiniteSet(matches) /\ count \in Nat
  <2>1. Len(text) + 1 \in Nat
    BY <1>1
  <2>2. IsFiniteSet(1 .. Len(text) + 1)
    BY <2>1, FS_Interval
  <2> HIDE DEF matches, places
  <2> QED
    BY <1>1, <1>2, <2>2, FS_Subset, FS_CardinalityType
<1>4. EditText(text, edit, all) =
        IF count = 0 \/ (count > 1 /\ ~all) THEN Fails
        ELSE Gives(IF all THEN ReplaceEvery(text, edit) ELSE ReplaceFirst(text, edit))
  BY DEF EditText
<1> HIDE DEF matches, count
<1>5. CASE count = 0 \/ (count > 1 /\ ~all)
  BY <1>4, <1>5 DEF Fails, Outcome
<1>6. CASE ~ (count = 0 \/ (count > 1 /\ ~all))
  <2>1. matches # {}
    BY <1>3, <1>6, FS_EmptySet DEF count
  <2>2. places # {}
    BY <1>2, <2>1
  <2>3. ReplaceEvery(text, edit) \in Seq(Line) /\ ReplaceFirst(text, edit) \in Seq(Line)
    BY <2>2, ReplaceAtMakesText, ReplaceFirstMakesText DEF ReplaceEvery
  <2>4. EditText(text, edit, all) \in Outcome
    BY <1>4, <1>6, <2>3 DEF Gives, Outcome
  <2>5. ASSUME ~ all
        PROVE  AtOne(text, edit, EditText(text, edit, all).text)
    <3>1. first \in places /\ \A q \in places : first <= q
      BY <1>1, <2>2, FirstIsLeast
    <3>2. EditText(text, edit, all).text = PutAt(text, first, edit)
      BY <1>4, <1>6, <2>5 DEF Gives, ReplaceFirst
    <3>3. PICK m : matches = {m}
      <4>1. count = 1
        BY <1>3, <1>6, <2>5
      <4> QED
        BY <1>3, <4>1, FS_Singleton DEF count
    <3>4. \A q \in places : m = q \/ (m < q /\ q < m + Len(edit.old))
      BY <1>1, <1>2, <3>3 DEF Covered
    <3>5. m = first
      BY <1>1, <1>2, <3>1, <3>3, <3>4
    <3>6. \A q \in places : Overlap(first, q, edit.old)
      BY <1>1, <3>1, <3>4, <3>5 DEF Overlap
    <3> QED
      BY <3>1, <3>2, <3>6 DEF AtOne
  <2>6. ASSUME all PROVE AtAll(text, edit, EditText(text, edit, all).text)
    <3>1. EditText(text, edit, all).text = ReplaceEvery(text, edit)
      BY <1>4, <1>6, <2>6 DEF Gives
    <3> QED
      BY <3>1, MatchesAreAll
  <2> QED
    BY <2>4, <2>5, <2>6
<1> QED
  BY <1>5, <1>6

\* What one edit of a series makes is reached by it, or it is an error.
LEMMA NextEditIsMade ==
  ASSUME NEW out \in Outcome, NEW edit \in Edit, NEW texts \in SUBSET Seq(Line),
         out.error \/ out.text \in texts
  PROVE  /\ NextEdit(out, edit) \in Outcome
         /\ NextEdit(out, edit).error \/ NextEdit(out, edit).text \in ByOne(texts, edit)
         /\ ByOne(texts, edit) \in SUBSET Seq(Line)
<1>1. edit.old \in Seq(Line) /\ out.text \in Seq(Line)
  BY DEF Edit, Outcome
<1>2. ByOne(texts, edit) \in SUBSET Seq(Line)
  BY PutAtMakesText DEF ByOne
<1>3. CASE out.error \/ edit.old = <<>>
  BY <1>2, <1>3 DEF NextEdit, ByOne
<1>4. CASE ~ out.error /\ edit.old # <<>> /\ Places(out.text, edit.old) = {}
  BY <1>2, <1>4 DEF NextEdit, Fails, Outcome
<1>5. CASE ~ out.error /\ edit.old # <<>> /\ Places(out.text, edit.old) # {}
  <2>1. NextEdit(out, edit) = Gives(ReplaceFirst(out.text, edit))
    BY <1>5 DEF NextEdit
  <2>2. ReplaceFirst(out.text, edit) \in Seq(Line)
    BY <1>1, <1>5, ReplaceFirstMakesText
  <2>3. FirstPlace(out.text, edit.old) \in Places(out.text, edit.old)
    BY <1>1, <1>5, FirstIsLeast
  <2>4. ReplaceFirst(out.text, edit) \in ByOne(texts, edit)
    BY <1>5, <2>3 DEF ByOne, ReplaceFirst
  <2> QED
    BY <1>2, <2>1, <2>2, <2>4 DEF Gives, Outcome
<1> QED
  BY <1>3, <1>4, <1>5

\* The texts a series of edits reaches, and what it computes, go edit by edit.
LEMMA ReachedByEdits ==
  ASSUME NEW text \in Seq(Line), NEW edits \in Seq(Edit)
  PROVE  \E t \in [0 .. Len(edits) -> SUBSET Seq(Line)] :
           /\ t[0] = {text}
           /\ \A i \in 1 .. Len(edits) : t[i] = ByOne(t[i - 1], edits[i])
           /\ Reached(text, edits) = t[Len(edits)]
<1> DEFINE n == Len(edits)
           S == SUBSET Seq(Line)
           Next1(t, i) == IF i = 0 THEN {text} ELSE ByOne(t[i - 1], edits[i])
           R(t) == t = [i \in 0 .. Len(edits) |-> Next1(t, i)]
           c == CHOOSE t : R(t)
           step == [i \in 1 .. n |-> [s \in S |-> ByOne(s, edits[i])]]
<1>1. n \in Nat
  OBVIOUS
<1>2. ASSUME NEW i \in 1 .. n, NEW s \in S PROVE ByOne(s, edits[i]) \in S
  <2>1. edits[i] \in Edit
    BY <1>1
  <2>2. ASSUME NEW edit \in Edit, NEW x \in ByOne(s, edit) PROVE x \in Seq(Line)
    <3>1. CASE edit.old = <<>>
      BY <2>2, <3>1 DEF ByOne
    <3>2. CASE edit.old # <<>>
      BY <2>2, <3>2, PutAtMakesText DEF ByOne
    <3> QED
      BY <3>1, <3>2
  <2> QED
    BY <2>1, <2>2
<1>3. step \in [1 .. n -> [S -> S]]
  BY <1>2
<1>4. PICK f \in [0 .. n -> S] : Recurs(f, n, {text}, step)
  <2>1. {text} \in S
    OBVIOUS
  <2> HIDE DEF step, S, n
  <2> QED
    BY <1>1, <1>3, <2>1, RecursionExists, Zenon
<1>5. R(f)
  <2> SUFFICES ASSUME NEW i \in 0 .. n PROVE f[i] = Next1(f, i)
    BY <1>4
  <2>1. i # 0 => i \in 1 .. n /\ i - 1 \in 0 .. n
    BY <1>1
  <2>2. i # 0 => f[i - 1] \in S
    BY <1>4, <2>1
  <2> QED
    BY <2>1, <2>2, <1>4 DEF Recurs
<1>6. R(c)
  <2> HIDE DEF R
  <2> QED
    BY <1>5, Zenon
<1>7. Reached(text, edits) = c[n]
  BY Zenon DEF Reached, c
<1> HIDE DEF c
<1>8. \A i \in 0 .. n : c[i] = Next1(c, i)
  BY <1>6
<1>9. c[0] = {text}
  <2>1. 0 \in 0 .. n
    BY <1>1
  <2> QED
    BY <1>8, <2>1, Zenon
<1>10. ASSUME NEW i \in 1 .. n PROVE c[i] = ByOne(c[i - 1], edits[i])
  <2>1. i \in 0 .. n /\ i # 0
    BY <1>1
  <2> QED
    BY <1>8, <2>1, Zenon
<1>11. c \in [0 .. n -> S]
  <2>1. c = [i \in 0 .. n |-> c[i]]
    BY <1>6
  <2>2. c[0] \in S
    BY <1>9
  <2>3. \A i \in 1 .. n : c[i - 1] \in S => c[i] \in S
    BY <1>2, <1>10
  <2> HIDE DEF S, n
  <2> QED
    BY <1>1, <2>1, <2>2, <2>3, RecursionType
<1> QED
  BY <1>7, <1>9, <1>10, <1>11

LEMMA SeriesByEdits ==
  ASSUME NEW text \in Seq(Line), NEW edits \in Seq(Edit)
  PROVE  \E t \in [0 .. Len(edits) -> Outcome] :
           /\ t[0] = Gives(text)
           /\ \A i \in 1 .. Len(edits) : t[i] = NextEdit(t[i - 1], edits[i])
           /\ EditSeries(text, edits) = t[Len(edits)]
<1> DEFINE n == Len(edits)
           S == Outcome
           Next1(t, i) == IF i = 0 THEN Gives(text) ELSE NextEdit(t[i - 1], edits[i])
           R(t) == t = [i \in 0 .. Len(edits) |-> Next1(t, i)]
           c == CHOOSE t : R(t)
           step == [i \in 1 .. n |-> [s \in S |-> NextEdit(s, edits[i])]]
<1>1. n \in Nat /\ Gives(text) \in S
  BY DEF Gives, Outcome
<1>2. ASSUME NEW i \in 1 .. n, NEW s \in S PROVE NextEdit(s, edits[i]) \in S
  <2>1. edits[i] \in Edit
    BY <1>1
  <2>2. Seq(Line) \in SUBSET Seq(Line) /\ s.text \in Seq(Line)
    BY DEF Outcome
  <2> QED
    BY <2>1, <2>2, NextEditIsMade
<1>3. step \in [1 .. n -> [S -> S]]
  BY <1>2
<1>4. PICK f \in [0 .. n -> S] : Recurs(f, n, Gives(text), step)
  <2> HIDE DEF step, S, n
  <2> QED
    BY <1>1, <1>3, RecursionExists, Zenon
<1>5. R(f)
  <2> SUFFICES ASSUME NEW i \in 0 .. n PROVE f[i] = Next1(f, i)
    BY <1>4
  <2>1. i # 0 => i \in 1 .. n /\ i - 1 \in 0 .. n
    BY <1>1
  <2>2. i # 0 => f[i - 1] \in S
    BY <1>4, <2>1
  <2> QED
    BY <2>1, <2>2, <1>4 DEF Recurs
<1>6. R(c)
  <2> HIDE DEF R
  <2> QED
    BY <1>5, Zenon
<1>7. EditSeries(text, edits) = c[n]
  BY Zenon DEF EditSeries, c
<1> HIDE DEF c
<1>8. \A i \in 0 .. n : c[i] = Next1(c, i)
  BY <1>6
<1>9. c[0] = Gives(text)
  <2>1. 0 \in 0 .. n
    BY <1>1
  <2> QED
    BY <1>8, <2>1, Zenon
<1>10. ASSUME NEW i \in 1 .. n PROVE c[i] = NextEdit(c[i - 1], edits[i])
  <2>1. i \in 0 .. n /\ i # 0
    BY <1>1
  <2> QED
    BY <1>8, <2>1, Zenon
<1>11. c \in [0 .. n -> S]
  <2>1. c = [i \in 0 .. n |-> c[i]]
    BY <1>6
  <2>2. c[0] \in S
    BY <1>1, <1>9
  <2>3. \A i \in 1 .. n : c[i - 1] \in S => c[i] \in S
    BY <1>2, <1>10
  <2> HIDE DEF S, n
  <2> QED
    BY <1>1, <2>1, <2>2, <2>3, RecursionType
<1> QED
  BY <1>7, <1>9, <1>10, <1>11

\* What a series computes is reached by all of its edits, or it is an error.
LEMMA SeriesIsMade ==
  ASSUME NEW text \in Seq(Line), NEW edits \in Seq(Edit)
  PROVE  /\ EditSeries(text, edits) \in Outcome
         /\ EditSeries(text, edits).error
              \/ EditSeries(text, edits).text \in Reached(text, edits)
<1>1. PICK t \in [0 .. Len(edits) -> SUBSET Seq(Line)] :
        /\ t[0] = {text}
        /\ \A i \in 1 .. Len(edits) : t[i] = ByOne(t[i - 1], edits[i])
        /\ Reached(text, edits) = t[Len(edits)]
  BY ReachedByEdits
<1>2. PICK u \in [0 .. Len(edits) -> Outcome] :
        /\ u[0] = Gives(text)
        /\ \A i \in 1 .. Len(edits) : u[i] = NextEdit(u[i - 1], edits[i])
        /\ EditSeries(text, edits) = u[Len(edits)]
  BY SeriesByEdits
<1> DEFINE n == Len(edits)
           Good == {i \in 0 .. n : u[i].error \/ u[i].text \in t[i]}
<1>3. n \in Nat
  OBVIOUS
<1>4. 0 \in Good
  BY <1>1, <1>2, <1>3 DEF Gives
<1>5. ASSUME NEW i \in 0 .. n, i \in Good, i < n PROVE i + 1 \in Good
  <2>1. i + 1 \in 1 .. n /\ (i + 1) - 1 = i
    BY <1>3, <1>5
  <2>2. edits[i + 1] \in Edit /\ u[i] \in Outcome /\ t[i] \in SUBSET Seq(Line)
    BY <2>1
  <2>3. u[i + 1] = NextEdit(u[i], edits[i + 1]) /\ t[i + 1] = ByOne(t[i], edits[i + 1])
    BY <1>1, <1>2, <2>1
  <2>4. u[i].error \/ u[i].text \in t[i]
    BY <1>5
  <2>5. u[i + 1].error \/ u[i + 1].text \in t[i + 1]
    BY <2>2, <2>3, <2>4, NextEditIsMade
  <2> QED
    BY <2>1, <2>5
<1> HIDE DEF Good
<1>6. \A i \in 0 .. n : i \in Good
  BY <1>3, <1>4, <1>5, InductionUpTo, Zenon
<1>7. n \in Good /\ n \in 0 .. n
  BY <1>3, <1>6
<1> QED
  BY <1>1, <1>2, <1>7 DEF Good

\* A patch makes a text, or is an error.
LEMMA NextLineMakesText ==
  ASSUME NEW out \in Outcome, NEW line \in Line
  PROVE  NextLine(out, line) \in Outcome
<1> DEFINE plain == Plain(line.body)
           copied == Append(out.text, plain)
           gone == [old |-> <<plain>>, new |-> <<>>]
<1>1. plain \in Line /\ out.text \in Seq(Line) /\ gone \in Edit /\ gone.old = <<plain>>
  <2>1. plain \in Line
    <3>1. line.body \in STRING
      BY DEF Line
    <3>2. " " \in Marks
      BY DEF Marks
    <3> QED
      BY <3>1, <3>2 DEF Line, Plain
  <2> HIDE DEF plain
  <2>2. <<plain>> \in Seq(Line) /\ <<>> \in Seq(Line)
    BY <2>1
  <2>3. gone \in Edit
    <3> DEFINE run == <<plain>>
    <3>1. run \in Seq(Line) /\ <<>> \in Seq(Line)
      BY <2>2
    <3> HIDE DEF run
    <3>2. [old |-> run, new |-> <<>>] \in Edit
      BY <3>1 DEF Edit
    <3> QED
      BY <3>2 DEF run
  <2> QED
    BY <2>1, <2>3 DEF Outcome
<1>2. copied \in Seq(Line)
  BY <1>1, AppendProperties
<1>3. NextLine(out, line) =
        IF line.mark = "@" \/ line = Blank THEN out
        ELSE IF line.mark = " " THEN [out EXCEPT !.text = copied]
        ELSE IF line.mark = "+" THEN Gives(copied)
        ELSE IF Places(out.text, <<plain>>) = {} THEN out
        ELSE Gives(ReplaceFirst(out.text, gone))
  BY DEF NextLine
<1>4. Places(out.text, <<plain>>) # {} => ReplaceFirst(out.text, gone) \in Seq(Line)
  BY <1>1, ReplaceFirstMakesText
<1> HIDE DEF plain, copied, gone
<1>5. Gives(copied) \in Outcome /\ [out EXCEPT !.text = copied] \in Outcome
  BY <1>2 DEF Outcome, Gives
<1>6. Places(out.text, <<plain>>) # {} => Gives(ReplaceFirst(out.text, gone)) \in Outcome
  BY <1>4 DEF Outcome, Gives
<1> QED
  BY <1>3, <1>5, <1>6, Zenon

LEMMA DiffMakesText ==
  ASSUME NEW text \in Seq(Line)
  PROVE  ApplyDiff(text) \in Outcome
<1> DEFINE n == Len(text)
           S == Outcome
           Next1(t, i) == IF i = 0 THEN Fails ELSE NextLine(t[i - 1], text[i])
           R(t) == t = [i \in 0 .. Len(text) |-> Next1(t, i)]
           c == CHOOSE t : R(t)
           step == [i \in 1 .. n |-> [s \in S |-> NextLine(s, text[i])]]
<1>1. n \in Nat /\ Fails \in S
  BY DEF Fails, Outcome
<1>2. ASSUME NEW i \in 1 .. n, NEW s \in S PROVE NextLine(s, text[i]) \in S
  <2>1. text[i] \in Line
    BY <1>1
  <2> QED
    BY <2>1, NextLineMakesText
<1>3. step \in [1 .. n -> [S -> S]]
  BY <1>2
<1>4. PICK f \in [0 .. n -> S] : Recurs(f, n, Fails, step)
  <2> HIDE DEF step, S, n
  <2> QED
    BY <1>1, <1>3, RecursionExists, Zenon
<1>5. R(f)
  <2> SUFFICES ASSUME NEW i \in 0 .. n PROVE f[i] = Next1(f, i)
    BY <1>4
  <2>1. i # 0 => i \in 1 .. n /\ i - 1 \in 0 .. n
    BY <1>1
  <2>2. i # 0 => f[i - 1] \in S
    BY <1>4, <2>1
  <2> QED
    BY <2>1, <2>2, <1>4 DEF Recurs
<1>6. R(c)
  <2> HIDE DEF R
  <2> QED
    BY <1>5, Zenon
<1>7. ApplyDiff(text) = IF c[n].error THEN Fails ELSE c[n]
  BY Zenon DEF ApplyDiff, c
<1> HIDE DEF c
<1>8. c \in [0 .. n -> S]
  <2>1. \A i \in 0 .. n : c[i] = Next1(c, i)
    BY <1>6
  <2>2. c = [i \in 0 .. n |-> c[i]]
    BY <1>6
  <2>3. c[0] \in S
    <3>1. 0 \in 0 .. n
      BY <1>1
    <3>2. c[0] = Fails
      BY <2>1, <3>1, Zenon
    <3> QED
      BY <1>1, <3>2
  <2>4. ASSUME NEW i \in 1 .. n, c[i - 1] \in S PROVE c[i] \in S
    <3>1. i \in 0 .. n /\ i # 0
      BY <1>1
    <3>2. c[i] = NextLine(c[i - 1], text[i])
      BY <2>1, <3>1, Zenon
    <3> QED
      BY <1>2, <2>4, <3>2
  <2> HIDE DEF S, n
  <2> QED
    BY <1>1, <2>2, <2>3, <2>4, RecursionType
<1> QED
  BY <1>1, <1>7, <1>8

\* What a tool computes is a text, or an error.
LEMMA ComputedMakesText ==
  ASSUME NEW input \in Calls, NEW text \in Seq(Line)
  PROVE  Computed(input, text) \in Outcome
<1>1. /\ input.edits \in Seq(Edit) /\ input.all \in BOOLEAN
      /\ input.tool = "edit" => input.edits # <<>>
  BY CallsAssumption
<1>2. CASE input.tool = "edit"
  <2>1. input.edits[1] \in Edit
    BY <1>1, <1>2
  <2> QED
    BY <1>1, <1>2, <2>1, EditTextOfOne DEF Computed
<1>3. CASE input.tool # "edit" /\ input.edits # <<>>
  BY <1>1, <1>3, SeriesIsMade DEF Computed
<1>4. CASE input.tool # "edit" /\ input.edits = <<>>
  BY <1>4, DiffMakesText DEF Computed
<1> QED
  BY <1>2, <1>3, <1>4

\* A text written over another from its start is a text, and the whole of it where
\* nothing stood.
LEMMA OverlayMakesText ==
  ASSUME NEW text \in Seq(Line), NEW under \in Seq(Line)
  PROVE  /\ Overlay(text, under) \in Seq(Line)
         /\ Overlay(text, <<>>) = text
<1>1. Len(text) \in Nat /\ Len(under) \in Nat
  OBVIOUS
<1>2. SubSeq(under, Len(text) + 1, Len(under)) \in Seq(Line)
  <2>1. \A i \in Len(text) + 1 .. Len(under) : under[i] \in Line
    BY <1>1
  <2> QED
    BY <1>1, <2>1, SubSeqProperties
<1>3. SubSeq(<<>>, Len(text) + 1, Len(<<>>)) = <<>>
  <2>1. Len(<<>>) = 0
    OBVIOUS
  <2> QED
    BY <1>1, <2>1, SubSeqEmpty
<1> QED
  BY <1>2, <1>3, ConcatProperties, ConcatEmptySeq DEF Overlay

-------------------------------------------------------------------------------
(* What is read, computed and written. *)

\* The text of a call that is about to write is what its edits make of what it read.
Made(c) ==
  c.stage \in {"put", "fill"} =>
    /\ c.input.tool \in {"multi_edit", "apply_patch"} /\ c.input.edits # <<>> =>
         c.text \in Reached(c.seen, c.input.edits)
    /\ c.input.tool = "edit" /\ ~ c.input.all => AtOne(c.seen, c.input.edits[1], c.text)
    /\ c.input.tool = "edit" /\ c.input.all => AtAll(c.seen, c.input.edits[1], c.text)

\* And until another hand writes, the file is as it was read, then as it was opened.
TextOf(c, d) ==
  /\ c.stage # "idle" => c.input \in Calls
  /\ c.text \in Seq(Line)
  /\ c.stage \notin {"put", "fill"} => ~ c.read
  /\ c.stage = "put" /\ c.read /\ ~ c.disturbed => d[c.input.file] = c.seen
  /\ c.stage = "fill" /\ ~ c.disturbed => d[c.input.file] = <<>>
  /\ Made(c)

DiskHasTexts(d) == \A f \in Files : d[f] = NoFile \/ d[f] \in Seq(Line)
TextsInv == DiskHasTexts(disk) /\ \A a \in Agents : TextOf(call[a], disk)

\* A call that is told of each write to its file keeps to that, whatever is written.
Told(c, e, d, d2) ==
  /\ e.input = c.input /\ e.stage = c.stage /\ e.text = c.text
  /\ e.seen = c.seen /\ e.read = c.read
  /\ c.disturbed => e.disturbed
  /\ c.stage \in {"put", "fill"} =>
       e.disturbed \/ d2[c.input.file] = d[c.input.file]

LEMMA ToldKeeps ==
  ASSUME NEW c, NEW e, NEW d, NEW d2, TextOf(c, d), Told(c, e, d, d2)
  PROVE  TextOf(e, d2)
<1>1. Made(e)
  BY DEF TextOf, Told, Made
<1> QED
  BY <1>1 DEF TextOf, Told

\* Of a write to f, all the others that are at f are told.
LEMMA DisturbTells ==
  ASSUME ShapeInv, NEW f, NEW w, NEW d2, \A g \in Files : g # f => d2[g] = disk[g],
         \A a \in Agents : call[a].stage \in {"put", "fill"} => File(a) \in Files
  PROVE  \A a \in Agents : a # w => Told(call[a], Disturb(call, f, w)[a], disk, d2)
<1> SUFFICES ASSUME NEW a \in Agents, a # w
             PROVE  Told(call[a], Disturb(call, f, w)[a], disk, d2)
  OBVIOUS
<1> DEFINE e == Disturb(call, f, w)[a]
<1>1. e = IF AtFile(a, f) THEN [call[a] EXCEPT !.disturbed = TRUE] ELSE call[a]
  BY DEF Disturb
<1>2. call[a] = [x \in DOMAIN Idle |-> call[a][x]]
  BY DEF ShapeInv, Whole
<1> HIDE DEF e
<1>3. ASSUME AtFile(a, f) PROVE Told(call[a], e, disk, d2)
  <2>1. e = [call[a] EXCEPT !.disturbed = TRUE]
    BY <1>1, <1>3
  <2>2. /\ e.input = call[a].input /\ e.stage = call[a].stage /\ e.text = call[a].text
        /\ e.seen = call[a].seen /\ e.read = call[a].read
        /\ e.disturbed = TRUE
    BY <1>2, <2>1 DEF Idle
  <2> QED
    BY <2>2 DEF Told
<1>4. ASSUME ~ AtFile(a, f) PROVE Told(call[a], e, disk, d2)
  <2>1. e = call[a]
    BY <1>1, <1>4
  <2>2. ASSUME call[a].stage \in {"put", "fill"} PROVE d2[File(a)] = disk[File(a)]
    BY <1>4, <2>2 DEF AtFile
  <2> QED
    BY <2>1, <2>2 DEF Told, File
<1> QED
  BY <1>3, <1>4 DEF e

\* A step of one call that leaves the files alone.
LEMMA TextsStepOfOne ==
  ASSUME CallsInv, TextsInv, NEW a \in Agents, NEW r, call' = [call EXCEPT ![a] = r],
         disk' = disk, TextOf(r, disk)
  PROVE  TextsInv'
<1>1. call'[a] = r /\ \A b \in Agents \ {a} : call'[b] = call[b]
  BY DEF CallsInv, ShapeInv, Whole
<1> QED
  BY <1>1 DEF TextsInv, DiskHasTexts

\* A step that writes one file, of which the others are told.
LEMMA TextsStepOnFile ==
  ASSUME CallsInv, TextsInv, NEW f \in Files, NEW w, NEW text,
         text = NoFile \/ text \in Seq(Line),
         disk' = [disk EXCEPT ![f] = text],
         \A b \in Agents : b # w => call'[b] = Disturb(call, f, w)[b],
         w \in Agents => TextOf(call'[w], disk')
  PROVE  TextsInv'
<1>1. disk'[f] = text /\ \A g \in Files : g # f => disk'[g] = disk[g]
  BY DEF CallsInv, ShapeInv, Whole
<1>2. \A a \in Agents : call[a].stage \in {"put", "fill"} => File(a) \in Files
  BY CallsAssumption DEF TextsInv, TextOf, File
<1>3. \A b \in Agents : b # w => Told(call[b], call'[b], disk, disk')
  <2>1. ShapeInv
    BY DEF CallsInv
  <2>2. \A b \in Agents : b # w => Told(call[b], Disturb(call, f, w)[b], disk, disk')
    BY <1>1, <1>2, <2>1, DisturbTells
  <2> QED
    BY <2>2
<1>4. \A b \in Agents : TextOf(call'[b], disk')
  BY <1>3, ToldKeeps DEF TextsInv
<1>5. DiskHasTexts(disk')
  BY <1>1 DEF TextsInv, DiskHasTexts
<1> QED
  BY <1>4, <1>5 DEF TextsInv

\* What Computed gives is what was asked for.
LEMMA ComputedIsMade ==
  ASSUME NEW c, c.input \in Calls, c.seen \in Seq(Line),
         ~ Computed(c.input, c.seen).error, c.text = Computed(c.input, c.seen).text
  PROVE  Made(c)
<1>1. /\ c.input.edits \in Seq(Edit) /\ c.input.all \in BOOLEAN
      /\ c.input.tool = "edit" => c.input.edits # <<>>
  BY CallsAssumption
<1>2. ASSUME c.input.tool # "edit", c.input.edits # <<>>
      PROVE  c.text \in Reached(c.seen, c.input.edits)
  <2>1. Computed(c.input, c.seen) = EditSeries(c.seen, c.input.edits)
    BY <1>2 DEF Computed
  <2> QED
    BY <1>1, <2>1, SeriesIsMade
<1>3. ASSUME c.input.tool = "edit"
      PROVE  /\ ~ c.input.all => AtOne(c.seen, c.input.edits[1], c.text)
             /\ c.input.all => AtAll(c.seen, c.input.edits[1], c.text)
  <2>1. Computed(c.input, c.seen) = EditText(c.seen, c.input.edits[1], c.input.all)
    BY <1>3 DEF Computed
  <2>2. c.input.edits[1] \in Edit
    BY <1>1, <1>3
  <2> QED
    BY <1>1, <1>3, <2>1, <2>2, EditTextOfOne
<1> QED
  BY <1>2, <1>3 DEF Made

LEMMA IdleHasText ==
  ASSUME NEW d
  PROVE  TextOf(Idle, d)
BY DEF TextOf, Idle, Made

\* What stands in a file that is written from its start.
LEMMA TextIsText ==
  ASSUME TextsInv, NEW f \in Files
  PROVE  Text(f) \in Seq(Line)
<1>1. <<>> \in Seq(Line)
  OBVIOUS
<1> QED
  BY <1>1 DEF TextsInv, DiskHasTexts, Text

LEMMA TextsInductive ==
  ASSUME CallsInv, TextsInv, [Next]_vars
  PROVE  TextsInv'
<1> USE DEF counts
<1>1. ASSUME NEW a \in Agents, NEW input \in Calls, Decide(a, input) PROVE TextsInv'
  <2> DEFINE stage == IF Check(mode, input.tool) = "Ask" THEN "asked" ELSE "run"
             r == [call[a] EXCEPT !.input = input, !.stage = stage]
  <2>1. call' = [call EXCEPT ![a].input = input, ![a].stage = stage] /\ disk' = disk
        /\ InStage(a, "idle")
    BY <1>1 DEF Decide
  <2>2. stage \in {"asked", "run"}
    OBVIOUS
  <2> HIDE DEF stage
  <2>3. call' = [call EXCEPT ![a] = r]
    BY <2>1 DEF CallsInv, ShapeInv, Whole
  <2>4. /\ r.input = input /\ r.stage = stage /\ r.text = call[a].text
        /\ r.read = call[a].read
    BY DEF CallsInv, ShapeInv, Whole, Idle
  <2> HIDE DEF r
  <2>5. TextOf(r, disk)
    BY <2>1, <2>2, <2>4 DEF TextsInv, TextOf, InStage, Made
  <2> QED
    BY <2>1, <2>3, <2>5, TextsStepOfOne
<1>2. ASSUME NEW a \in Agents, Allowed(a) PROVE TextsInv'
  <2> DEFINE r == [call[a] EXCEPT !.stage = "run"]
  <2>1. call' = [call EXCEPT ![a].stage = "run"] /\ disk' = disk /\ InStage(a, "asked")
    BY <1>2 DEF Allowed
  <2>2. call' = [call EXCEPT ![a] = r]
    BY <2>1 DEF CallsInv, ShapeInv, Whole
  <2>3. /\ r.input = call[a].input /\ r.stage = "run" /\ r.text = call[a].text
        /\ r.read = call[a].read
    BY DEF CallsInv, ShapeInv, Whole, Idle
  <2> HIDE DEF r
  <2>4. TextOf(r, disk)
    BY <2>1, <2>3 DEF TextsInv, TextOf, InStage, Made
  <2> QED
    BY <2>1, <2>2, <2>4, TextsStepOfOne
<1>3. ASSUME NEW a \in Agents, call' = [call EXCEPT ![a] = Idle], disk' = disk
      PROVE  TextsInv'
  BY <1>3, IdleHasText, TextsStepOfOne
<1>4. ASSUME NEW a \in Agents, Refused(a) \/ PutFails(a) \/ ShellEnds(a) PROVE TextsInv'
  BY <1>3, <1>4 DEF Refused, PutFails, ShellEnds, Return
<1>5. ASSUME NEW a \in Agents, WriteBegins(a) PROVE TextsInv'
  <2>1. CASE InBounds("write", File(a))
    <3> DEFINE r == [call[a] EXCEPT !.stage = "put", !.text = call[a].input.text]
    <3>1. /\ InStage(a, "run") /\ Tool(a) = "write" /\ disk' = disk
          /\ call' = [call EXCEPT ![a].stage = "put", ![a].text = call[a].input.text]
      BY <1>5, <2>1 DEF WriteBegins
    <3>2. call' = [call EXCEPT ![a] = r]
      BY <3>1 DEF CallsInv, ShapeInv, Whole
    <3>3. /\ r.input = call[a].input /\ r.stage = "put" /\ r.text = call[a].input.text
          /\ r.read = call[a].read
      BY DEF CallsInv, ShapeInv, Whole, Idle
    <3> HIDE DEF r
    <3>4. call[a].input \in Calls /\ ~ call[a].read
      BY <3>1 DEF TextsInv, TextOf, InStage
    <3>5. TextOf(r, disk)
      BY <3>1, <3>3, <3>4, CallsAssumption DEF TextOf, Made, Tool
    <3> QED
      BY <3>1, <3>2, <3>5, TextsStepOfOne
  <2>2. CASE ~InBounds("write", File(a))
    BY <1>3, <1>5, <2>2 DEF WriteBegins, Return
  <2> QED
    BY <2>1, <2>2
<1>6. ASSUME NEW a \in Agents, EditReads(a) PROVE TextsInv'
  <2> DEFINE out == Computed(call[a].input, Text(File(a)))
             ok == InBounds(Tool(a), File(a)) /\ disk[File(a)] # NoFile /\ ~out.error
  <2>1. CASE ok
    <3> DEFINE r == [call[a] EXCEPT !.stage = "put", !.read = TRUE,
                                    !.seen = disk[File(a)], !.text = out.text]
    <3>1. /\ InStage(a, "run") /\ disk' = disk
          /\ call' = [call EXCEPT ![a].stage = "put", ![a].read = TRUE,
                                 ![a].seen = disk[File(a)], ![a].text = out.text]
      BY <1>6, <2>1 DEF EditReads
    <3>2. call[a].input \in Calls /\ File(a) \in Files
      BY <3>1, CallsAssumption DEF TextsInv, TextOf, InStage, File
    <3>3. disk[File(a)] = Text(File(a)) /\ Text(File(a)) \in Seq(Line)
      BY <2>1, <3>2, TextIsText DEF Text
    <3>4. out \in Outcome /\ ~ out.error
      BY <2>1, <3>2, <3>3, ComputedMakesText
    <3> HIDE DEF out
    <3>5. call' = [call EXCEPT ![a] = r]
      BY <3>1 DEF CallsInv, ShapeInv, Whole
    <3>6. /\ r.input = call[a].input /\ r.stage = "put" /\ r.text = out.text
          /\ r.read = TRUE /\ r.seen = disk[File(a)]
      BY DEF CallsInv, ShapeInv, Whole, Idle
    <3> HIDE DEF r
    <3>7. Made(r)
      BY <3>2, <3>3, <3>4, <3>6, ComputedIsMade DEF out
    <3>8. TextOf(r, disk)
      BY <3>2, <3>4, <3>6, <3>7 DEF TextOf, Outcome, File
    <3> QED
      BY <3>1, <3>5, <3>8, TextsStepOfOne
  <2>2. CASE ~ok
    BY <1>3, <1>6, <2>2 DEF EditReads, Return
  <2> QED
    BY <2>1, <2>2
<1>7. ASSUME NEW a \in Agents, Put(a) PROVE TextsInv'
  <2> DEFINE told == Disturb(call, File(a), a)
             r == [told[a] EXCEPT !.stage = "fill"]
  <2>1. /\ InStage(a, "put") /\ call' = [told EXCEPT ![a].stage = "fill"]
        /\ disk' = [disk EXCEPT ![File(a)] = <<>>]
    BY <1>7 DEF Put
  <2>2. call[a].input \in Calls /\ File(a) \in Files
    BY <2>1, CallsAssumption DEF TextsInv, TextOf, InStage, File
  <2>3. Whole(told, Agents) /\ told[a] = call[a]
    BY DEF Disturb, Whole
  <2> HIDE DEF told
  <2>4. call'[a] = r /\ \A b \in Agents : b # a => call'[b] = told[b]
    BY <2>1, <2>3 DEF Whole
  <2>5. /\ r.input = call[a].input /\ r.stage = "fill" /\ r.text = call[a].text
        /\ r.read = call[a].read /\ r.seen = call[a].seen
    BY <2>3 DEF CallsInv, ShapeInv, Whole, Idle
  <2> HIDE DEF r
  <2>6. disk'[File(a)] = <<>>
    BY <2>1, <2>2 DEF CallsInv, ShapeInv, Whole
  <2>7. Made(r)
    BY <2>1, <2>5 DEF TextsInv, TextOf, InStage, Made
  <2>8. TextOf(r, disk')
    BY <2>2, <2>5, <2>6, <2>7 DEF TextsInv, TextOf, File
  <2>9. <<>> \in Seq(Line)
    OBVIOUS
  <2> QED
    BY <2>1, <2>2, <2>4, <2>8, <2>9, TextsStepOnFile DEF told
<1>8. ASSUME NEW a \in Agents, NEW text \in Seq(Line), InStage(a, "fill"),
             disk' = [disk EXCEPT ![File(a)] = Overlay(text, Text(File(a)))],
             call' = [Disturb(call, File(a), a) EXCEPT ![a] = Idle]
      PROVE  TextsInv'
  <2>1. File(a) \in Files
    BY <1>8, CallsAssumption DEF TextsInv, TextOf, InStage, File
  <2>2. Overlay(text, Text(File(a))) \in Seq(Line)
    BY <2>1, OverlayMakesText, TextIsText
  <2>3. call'[a] = Idle /\ \A b \in Agents : b # a => call'[b] = Disturb(call, File(a), a)[b]
    BY <1>8 DEF Disturb
  <2> QED
    BY <1>8, <2>1, <2>2, <2>3, IdleHasText, TextsStepOnFile
<1>9. ASSUME NEW a \in Agents, Fill(a) \/ FillFails(a) PROVE TextsInv'
  <2>1. call[a].text \in Seq(Line) /\ Len(call[a].text) \in Nat
    BY DEF TextsInv, TextOf
  <2>2. ASSUME NEW n \in 0 .. Len(call[a].text)
        PROVE  SubSeq(call[a].text, 1, n) \in Seq(Line)
    <3>1. \A i \in 1 .. n : call[a].text[i] \in Line
      BY <2>1
    <3> QED
      BY <2>1, <3>1, SubSeqProperties
  <2>3. CASE Fill(a)
    BY <1>8, <2>1, <2>3 DEF Fill
  <2>4. CASE FillFails(a)
    BY <1>8, <2>2, <2>4 DEF FillFails
  <2> QED
    BY <1>9, <2>3, <2>4
<1>10. ASSUME NEW f \in Files, StrayWrite(f) PROVE TextsInv'
  <2>1. PICK text \in StrayTexts : disk' = [disk EXCEPT ![f] = text]
    BY <1>10 DEF StrayWrite
  <2>2. text \in Seq(Line)
    BY <2>1, TextsAssumption
  <2>3. call' = Disturb(call, f, NoCall)
    BY <1>10 DEF StrayWrite
  <2> QED
    BY <2>1, <2>2, <2>3, NoCallAssumption, TextsStepOnFile
<1>11. ASSUME NEW a \in Agents, TodoCall(a) PROVE TextsInv'
  BY <1>11 DEF TodoCall, TextsInv, DiskHasTexts
<1>12. CASE Kill
  BY <1>12, IdleHasText DEF Kill, TextsInv, DiskHasTexts
<1>13. CASE UNCHANGED vars
  BY <1>13 DEF vars, TextsInv, DiskHasTexts
<1> QED
  BY <1>1, <1>2, <1>4, <1>5, <1>6, <1>7, <1>9, <1>10, <1>11, <1>12, <1>13
     DEF Next, ShellWrites, UserWrites

THEOREM TextsInvariant == Spec => [](CallsInv /\ TextsInv)
<1>1. Init => TextsInv
  <2> SUFFICES ASSUME Init PROVE TextsInv
    OBVIOUS
  <2>1. DiskHasTexts(disk)
    BY TextsAssumption DEF Init, DiskHasTexts
  <2>2. \A a \in Agents : call[a] = Idle
    BY DEF Init
  <2> QED
    BY <2>1, <2>2, IdleHasText DEF TextsInv
<1>2. CallsInv /\ TextsInv /\ [Next]_vars => TextsInv'
  BY TextsInductive
<1> QED
  BY <1>1, <1>2, CallsInvariant, PTL DEF Spec

\* EditsAreAsAsked for any texts and any edits: what an edit or a list of edits is about
\* to write is what it has read with the edits it was asked for, at the one place, at all
\* places, or each at a place of its own, however the calls of the agents overlap.
THEOREM EditsStayAsAsked == Spec => []EditsAreAsAsked
<1>1. TextsInv => EditsAreAsAsked
  <2> SUFFICES ASSUME TextsInv, NEW a \in Agents
               PROVE  EveryEditIsMade(a) /\ EditHasOnePlace(a) /\ EditHasAllPlaces(a)
    BY DEF EditsAreAsAsked
  <2>1. Made(call[a])
    BY DEF TextsInv, TextOf
  <2>2. EveryEditIsMade(a)
    BY <2>1 DEF EveryEditIsMade, Series, Writing, Tool, Made
  <2>3. EditHasOnePlace(a)
    BY <2>1 DEF EditHasOnePlace, Writing, Tool, Made, AtOne
  <2>4. EditHasAllPlaces(a)
    BY <2>1 DEF EditHasAllPlaces, Writing, Tool, Made, AtAll
  <2> QED
    BY <2>2, <2>3, <2>4
<1> QED
  BY <1>1, TextsInvariant, PTL

\* The counts of what fails and of what others write are numbers.
LEMMA CountsAreNumbers == Spec => [](fails \in Nat)
<1>1. Init => fails \in Nat
  BY DEF Init
<1>2. fails \in Nat /\ [Next]_vars => (fails \in Nat)'
  <2> SUFFICES ASSUME fails \in Nat, [Next]_vars PROVE fails' \in Nat
    OBVIOUS
  <2>1. ASSUME NEW a \in Agents,
               \/ \E input \in Calls : Decide(a, input)
               \/ Allowed(a) \/ Refused(a) \/ WriteBegins(a) \/ EditReads(a) \/ Put(a)
               \/ Fill(a) \/ ShellEnds(a) \/ TodoCall(a)
        PROVE  fails' = fails
    BY <2>1 DEF counts, Decide, Allowed, Refused, WriteBegins, EditReads, Put, Fill,
                ShellEnds, TodoCall
  <2>2. ASSUME NEW a \in Agents, PutFails(a) \/ FillFails(a) PROVE fails' = fails + 1
    BY <2>2 DEF PutFails, FillFails
  <2>3. ASSUME NEW f \in Files, StrayWrite(f) PROVE fails' = fails
    BY <2>3 DEF StrayWrite
  <2>4. Kill => fails' = fails + 1
    BY DEF Kill
  <2>5. UNCHANGED vars => fails' = fails
    BY DEF vars, counts
  <2> QED
    BY <2>1, <2>2, <2>3, <2>4, <2>5 DEF Next, ShellWrites, UserWrites
<1> QED
  BY <1>1, <1>2, PTL DEF Spec

\* What UndisturbedIsExact asks of a step.
StepIsExact ==
  \A a \in Agents :
    ~call[a].disturbed =>
      /\ InStage(a, "put") /\ call'[a].stage = "fill" /\ call[a].read =>
           disk[File(a)] = call[a].seen
      /\ InStage(a, "fill") /\ call'[a] = Idle /\ fails' = fails =>
           disk'[File(a)] = call[a].text

\* Only its own write ends a call that fills its file, unless something fails.
LEMMA OnlyFillEnds ==
  ASSUME CallsInv, fails \in Nat, Next, fails' = fails,
         NEW a \in Agents, InStage(a, "fill"), call'[a] = Idle
  PROVE  Fill(a)
<1>1. ASSUME NEW b \in Agents, Fill(b) PROVE b = a
  <2>1. b # a => call'[a] = Disturb(call, File(b), b)[a]
    BY <1>1 DEF Fill, Disturb
  <2>2. Disturb(call, File(b), b)[a].stage = "fill"
    BY DisturbKeeps DEF CallsInv, InStage
  <2> QED
    BY <2>1, <2>2 DEF Idle
<1>2. ASSUME NEW b \in Agents,
             \/ \E input \in Calls : Decide(b, input)
             \/ Allowed(b) \/ Refused(b) \/ WriteBegins(b) \/ EditReads(b)
             \/ ShellEnds(b) \/ TodoCall(b)
      PROVE  FALSE
  <2>1. call'[a].stage = "idle"
    BY DEF Idle
  <2>2. /\ call[b].stage \in {"idle", "asked", "run"}
        /\ \A x \in Agents \ {b} : call'[x] = call[x]
    BY <1>2 DEF Decide, Allowed, Refused, WriteBegins, EditReads, ShellEnds, TodoCall,
                Return, InStage, CallsInv, ShapeInv, Whole
  <2>3. a # b
    BY <2>2 DEF InStage
  <2> QED
    BY <2>1, <2>2, <2>3 DEF InStage
<1>3. ASSUME NEW b \in Agents, Put(b) PROVE FALSE
  <2>1. Disturb(call, File(b), b)[a].stage = "fill"
    BY DisturbKeeps DEF CallsInv, InStage
  <2>2. call'[a].stage = "fill"
    <3>1. Whole(Disturb(call, File(b), b)[a], DOMAIN Idle)
          /\ Whole(Disturb(call, File(b), b), Agents)
      BY DisturbKeeps DEF CallsInv
    <3>2. call' = [Disturb(call, File(b), b) EXCEPT ![b].stage = "fill"]
      BY <1>3 DEF Put
    <3> QED
      BY <2>1, <3>1, <3>2 DEF Whole, Idle
  <2> QED
    BY <2>2 DEF Idle
<1>4. ASSUME NEW f \in Files, StrayWrite(f) PROVE FALSE
  <2>1. Disturb(call, f, NoCall)[a].stage = "fill"
    BY DisturbKeeps DEF CallsInv, InStage
  <2> QED
    BY <1>4, <2>1 DEF StrayWrite, Idle
<1>5. ASSUME NEW b \in Agents, PutFails(b) \/ FillFails(b) PROVE FALSE
  BY <1>5 DEF PutFails, FillFails
<1>6. ~ Kill
  BY DEF Kill
<1> QED
  BY <1>1, <1>2, <1>3, <1>4, <1>5, <1>6 DEF Next, ShellWrites, UserWrites

\* UndisturbedIsExact for any number of agents: an edit whose file no other hand has
\* written since it was read replaces exactly what it has read, by exactly what it has
\* computed.
THEOREM UndisturbedStaysExact == Spec => UndisturbedIsExact
<1>1. ASSUME CallsInv, TextsInv, fails \in Nat, Next PROVE StepIsExact
  <2> SUFFICES ASSUME NEW a \in Agents, ~ call[a].disturbed
               PROVE  /\ InStage(a, "put") /\ call[a].read => disk[File(a)] = call[a].seen
                      /\ InStage(a, "fill") /\ call'[a] = Idle /\ fails' = fails =>
                           disk'[File(a)] = call[a].text
    BY DEF StepIsExact
  <2>1. TextOf(call[a], disk)
    BY <1>1 DEF TextsInv
  <2>2. ASSUME InStage(a, "fill"), call'[a] = Idle, fails' = fails
        PROVE  disk'[File(a)] = call[a].text
    <3>1. Fill(a)
      BY <1>1, <2>2, OnlyFillEnds
    <3>2. File(a) \in Files /\ call[a].text \in Seq(Line) /\ disk[File(a)] = <<>>
      BY <2>1, <2>2, CallsAssumption DEF TextOf, InStage, File
    <3>3. Overlay(call[a].text, Text(File(a))) = call[a].text
      <4>1. Text(File(a)) = <<>>
        BY <3>2 DEF Text
      <4>2. <<>> \in Seq(Line)
        OBVIOUS
      <4> QED
        BY <3>2, <4>1, <4>2, OverlayMakesText
    <3>4. disk' = [disk EXCEPT ![File(a)] = Overlay(call[a].text, Text(File(a)))]
      BY <3>1 DEF Fill
    <3> QED
      BY <1>1, <3>2, <3>3, <3>4 DEF CallsInv, ShapeInv, Whole
  <2> QED
    BY <2>1, <2>2 DEF TextOf, InStage, File
<1>2. CallsInv /\ TextsInv /\ fails \in Nat /\ [Next]_vars => [StepIsExact]_vars
  BY <1>1
<1>3. Spec => [][StepIsExact]_vars
  BY <1>2, TextsInvariant, CountsAreNumbers, PTL DEF Spec
<1> QED
  BY <1>3 DEF UndisturbedIsExact, StepIsExact

-------------------------------------------------------------------------------
(* The answer that a call waits for. *)

\* The ids are unique across agents and turns, which pending.rs relies on.
UniqueIds == \A c, d \in Call : Id[c] = Id[d] => c = d

\* Every variable keeps to its type, and an accepted answer is one that was given.
WireInv == \A k \in Client : \A i \in 1 .. Len(replies[k]) : replies[k][i] \in said

\* What the daemon takes from a replies is an answer that a client has given.
LEMMA HeadIsSaid ==
  ASSUME AnswersTypeOK, WireInv, NEW k \in Client, replies[k] # <<>>
  PROVE  /\ Head(replies[k]) \in said
         /\ Head(replies[k]) \in AnswerRecord
         /\ Tail(replies[k]) \in Seq(AnswerRecord)
         /\ \A i \in 1 .. Len(Tail(replies[k])) : Tail(replies[k])[i] \in said
<1>1. replies[k] \in Seq(AnswerRecord) /\ Len(replies[k]) > 0
  BY DEF AnswersTypeOK
<1>2. Head(replies[k]) = replies[k][1] /\ Head(replies[k]) \in AnswerRecord
  BY <1>1
<1> QED
  BY <1>1, <1>2 DEF WireInv

LEMMA AnswersTypeInductive ==
  ASSUME AnswersTypeOK, WireInv, [AnswersNext]_answersVars
  PROVE  AnswersTypeOK' /\ WireInv'
<1> USE CallAssumption, IdAssumption DEF AnswersTypeOK, WireInv, Place, callVars, clientVars, Goto
<1>1. ASSUME NEW c \in Call, Announce(c) PROVE AnswersTypeOK' /\ WireInv'
  BY <1>1 DEF Announce, Call
<1>2. ASSUME NEW c \in Call, Register(c) \/ RegisterQuestion(c) PROVE AnswersTypeOK' /\ WireInv'
  <2>1. Id[c] \in Ids
    BY DEF Ids
  <2>2. registry[Id[c]] = None \/ registry[Id[c]] \in Call
    BY <2>1
  <2>3. Insert(c) /\ UNCHANGED <<stream, seen, slot, replies, said, accepted>>
    BY <1>2 DEF Register, RegisterQuestion
  <2>4. registry' \in [Ids -> Call \cup {None}]
    BY <2>1, <2>3 DEF Insert
  <2>5. value' \in [Call -> {"empty", "allow", "deny", "closed"}]
    BY <2>2, <2>3 DEF Insert, Closed
  <2>6. place' \in [Call -> Place]
    BY <1>2 DEF Register, RegisterQuestion
  <2> QED
    BY <2>3, <2>4, <2>5, <2>6
<1>3. ASSUME NEW c \in Call, AskQuestion(c) PROVE AnswersTypeOK' /\ WireInv'
  BY <1>3 DEF AskQuestion
<1>4. ASSUME NEW c \in Call, ReadAnswer(c) \/ Elapse(c) \/ DropReceiver(c)
      PROVE AnswersTypeOK' /\ WireInv'
  BY <1>4 DEF ReadAnswer, Elapse, DropReceiver
<1>5. ASSUME NEW c \in Call, CleanUp(c) PROVE AnswersTypeOK' /\ WireInv'
  BY <1>5 DEF CleanUp, Remove, Closed, Ids
<1>6. ASSUME NEW k \in Client, See(k) PROVE AnswersTypeOK' /\ WireInv'
  BY <1>6 DEF See
<1>7. ASSUME NEW k \in Client, NEW v \in {"allow", "deny"}, Answer(k, v)
      PROVE AnswersTypeOK' /\ WireInv'
  <2> DEFINE a == [call |-> slot[k], value |-> v, by |-> k]
  <2>1. a \in AnswerRecord
    BY <1>7 DEF Answer, AnswerRecord, Call
  <2>2. replies' = [replies EXCEPT ![k] = Append(@, a)] /\ said' = said \cup {a}
    BY <1>7 DEF Answer
  <2>3. replies' \in [Client -> Seq(AnswerRecord)] /\ said' \subseteq AnswerRecord
    BY <2>1, <2>2
  <2>4. WireInv'
    BY <2>1, <2>2
  <2> HIDE DEF a
  <2> QED
    BY <1>7, <2>2, <2>3, <2>4 DEF Answer
<1>8. ASSUME NEW k \in Client, NEW q \in Question, AnswerQuestion(k, q)
      PROVE AnswersTypeOK' /\ WireInv'
  <2> DEFINE a == [call |-> q, value |-> "allow", by |-> k]
  <2>1. a \in AnswerRecord
    BY DEF AnswerRecord, Call
  <2>2. replies' = [replies EXCEPT ![k] = Append(@, a)] /\ said' = said \cup {a}
    BY <1>8 DEF AnswerQuestion
  <2>3. replies' \in [Client -> Seq(AnswerRecord)] /\ said' \subseteq AnswerRecord
    BY <2>1, <2>2
  <2>4. WireInv'
    BY <2>1, <2>2
  <2> HIDE DEF a
  <2> QED
    BY <1>8, <2>2, <2>3, <2>4 DEF AnswerQuestion
<1>9. ASSUME NEW k \in Client, Resolve(k) PROVE AnswersTypeOK' /\ WireInv'
  <2>1. replies[k] # <<>> /\ replies' = [replies EXCEPT ![k] = Tail(@)]
    BY <1>9 DEF Resolve
  <2>2. /\ Head(replies[k]) \in said /\ Head(replies[k]) \in AnswerRecord
        /\ replies' \in [Client -> Seq(AnswerRecord)]
    BY <2>1, HeadIsSaid
  <2>3. WireInv'
    BY <1>9, <2>1, HeadIsSaid DEF Resolve
  <2>4. Head(replies[k]).call \in Call /\ Head(replies[k]).value \in {"allow", "deny"}
    BY <2>2 DEF AnswerRecord
  <2> QED
    BY <1>9, <2>2, <2>3, <2>4 DEF Resolve, Ids
<1>10. ASSUME NEW k \in Client, IgnoreUserInput(k) PROVE AnswersTypeOK' /\ WireInv'
  <2>1. replies[k] # <<>> /\ replies' = [replies EXCEPT ![k] = Tail(@)]
    BY <1>10 DEF IgnoreUserInput
  <2>2. /\ Head(replies[k]) \in said
        /\ replies' \in [Client -> Seq(AnswerRecord)]
    BY <2>1, HeadIsSaid
  <2>3. WireInv'
    BY <1>10, <2>1, HeadIsSaid DEF IgnoreUserInput
  <2> QED
    BY <1>10, <2>2, <2>3 DEF IgnoreUserInput
<1>11. CASE UNCHANGED answersVars
  BY <1>11 DEF answersVars
<1> QED
  BY <1>1, <1>2, <1>3, <1>4, <1>5, <1>6, <1>7, <1>8, <1>9, <1>10, <1>11
     DEF AnswersNext, WaitStep, ClientStep, DaemonStep

THEOREM AnswersTypeCorrect == AnswersSpec => [](AnswersTypeOK /\ WireInv)
<1>1. AnswersInit => AnswersTypeOK /\ WireInv
  BY DEF AnswersInit, AnswersTypeOK, WireInv, Place
<1>2. AnswersTypeOK /\ WireInv /\ [AnswersNext]_answersVars => (AnswersTypeOK /\ WireInv)'
  BY AnswersTypeInductive
<1> QED
  BY <1>1, <1>2, PTL DEF AnswersSpec

-------------------------------------------------------------------------------
\* The sender of a call is in the registry only while the call waits, under its own
\* id, and as long as it is there the channel is empty.
RegistryInv ==
  \A i \in Ids : registry[i] # None =>
    /\ Id[registry[i]] = i
    /\ place[registry[i]] \in {"registered", "waiting", "elapsed", "expiring"}
    /\ value[registry[i]] = "empty"

\* What the channel of a call says is what a user has said, and where the call goes.
ValueInv ==
  \A c \in Call :
    /\ place[c] \in {"idle", "announced"} => value[c] = "empty"
    /\ value[c] = "closed" => place[c] = "expired"
    /\ c \in Question => value[c] \in {"empty", "closed"}
    /\ value[c] \in {"allow", "deny"} => Said(c, value[c])
    /\ place[c] = "ran" => value[c] = "allow"
    /\ place[c] \in {"refusing", "refused"} => value[c] = "deny"

\* The channel of a call holds the one answer that was accepted.
AcceptedInv ==
  \A a \in accepted : a.call \in Permission => value[a.call] = a.value

OnceInv ==
  \A a, b \in accepted : (a.call = b.call /\ a.call \in Permission) => a = b

AnswerInv == RegistryInv /\ ValueInv /\ AcceptedInv /\ OnceInv

LEMMA SaidStays ==
  ASSUME NEW c \in Call, NEW v, Said(c, v), said \subseteq said'
  PROVE  Said(c, v)'
BY DEF Said

LEMMA OwnEntry ==
  ASSUME UniqueIds, AnswersTypeOK, RegistryInv, NEW c \in Call
  PROVE  /\ Id[c] \in Ids
         /\ registry[Id[c]] \in {c, None}
<1>1. Id[c] \in Ids
  BY DEF Ids
<1>2. registry[Id[c]] = None \/ registry[Id[c]] \in Call
  BY <1>1 DEF AnswersTypeOK
<1>3. registry[Id[c]] # None => Id[registry[Id[c]]] = Id[c]
  BY <1>1 DEF RegistryInv
<1> QED
  BY <1>1, <1>2, <1>3 DEF UniqueIds

LEMMA AnswerInductive ==
  ASSUME UniqueIds, AnswersTypeOK, AnswersTypeOK', WireInv, AnswerInv, [AnswersNext]_answersVars
  PROVE  AnswerInv'
<1> USE CallAssumption, IdAssumption
    DEF AnswerInv, AnswersTypeOK, Place, callVars, clientVars, Goto
<1>1. ASSUME NEW c \in Call, Announce(c) \/ AskQuestion(c) PROVE AnswerInv'
  <2>1. UNCHANGED <<registry, value, said, accepted>>
    BY <1>1 DEF Announce, AskQuestion
  <2>2. RegistryInv'
    <3>1. \/ place[c] = "idle" /\ place' = [place EXCEPT ![c] = "announced"]
          \/ place[c] = "registered" /\ place' = [place EXCEPT ![c] = "waiting"]
      BY <1>1 DEF Announce, AskQuestion
    <3>2. ASSUME NEW d \in Call,
                 place[d] \in {"registered", "waiting", "elapsed", "expiring"}
          PROVE  place'[d] \in {"registered", "waiting", "elapsed", "expiring"}
      BY <3>1, <3>2
    <3>3. \A i \in Ids : registry[i] # None => registry[i] \in Call
      OBVIOUS
    <3> QED
      BY <2>1, <3>2, <3>3 DEF RegistryInv
  <2>3. ValueInv'
    BY <1>1, <2>1, SaidStays DEF Announce, AskQuestion, ValueInv
  <2> QED
    BY <2>1, <2>2, <2>3 DEF AcceptedInv, OnceInv
<1>2. ASSUME NEW c \in Call, Register(c) \/ RegisterQuestion(c) PROVE AnswerInv'
  <2>1. /\ Id[c] \in Ids /\ registry[Id[c]] \in {c, None} 
        /\ place[c] \in {"idle", "announced"} /\ value[c] = "empty"
        /\ place' = [place EXCEPT ![c] = IF c \in Question /\ place[c] = "idle"
                                          THEN "registered" ELSE "waiting"]
        /\ UNCHANGED <<stream, seen, slot, replies, said, accepted>>
    BY <1>2, OwnEntry DEF Register, RegisterQuestion, ValueInv
  <2>2. registry[Id[c]] = None
    BY <2>1 DEF RegistryInv
  <2>3. registry' = [registry EXCEPT ![Id[c]] = c] /\ UNCHANGED value
    BY <1>2, <2>2 DEF Register, RegisterQuestion, Insert
  <2>4. RegistryInv'
    BY <2>1, <2>2, <2>3 DEF RegistryInv
  <2> QED
    BY <2>1, <2>3, <2>4 DEF ValueInv, AcceptedInv, OnceInv, Said
<1>3. ASSUME NEW c \in Call, ReadAnswer(c) PROVE AnswerInv'
  <2>1. RegistryInv'
    BY <1>3 DEF ReadAnswer, RegistryInv
  <2>2. ValueInv'
    BY <1>3 DEF ReadAnswer, ValueInv, Said, Call
  <2> QED
    BY <1>3, <2>1, <2>2 DEF ReadAnswer, AcceptedInv, OnceInv
<1>4. ASSUME NEW c \in Call, Elapse(c) \/ DropReceiver(c) PROVE AnswerInv'
  <2>1. UNCHANGED <<registry, value, said, accepted>>
    BY <1>4 DEF Elapse, DropReceiver
  <2>2. RegistryInv'
    BY <1>4, <2>1 DEF Elapse, DropReceiver, RegistryInv
  <2>3. ValueInv'
    BY <1>4, <2>1, SaidStays DEF Elapse, DropReceiver, ValueInv
  <2> QED
    BY <2>1, <2>2, <2>3 DEF AcceptedInv, OnceInv
<1>5. ASSUME NEW c \in Call, CleanUp(c) PROVE AnswerInv'
  <2>1. Id[c] \in Ids /\ registry[Id[c]] \in {c, None}
    BY OwnEntry
  <2>2. /\ registry' = [registry EXCEPT ![Id[c]] = None]
        /\ value' = IF registry[Id[c]] = c THEN Closed(c) ELSE value
        /\ UNCHANGED <<stream, seen, slot, replies, said, accepted>>
    BY <1>5, <2>1 DEF CleanUp, Remove
  <2>3. CASE place[c] = "refusing"
    <3>1. place' = [place EXCEPT ![c] = "refused"] /\ value[c] = "deny"
      BY <1>5, <2>3 DEF CleanUp, ValueInv
    <3>2. registry[Id[c]] = None
      BY <2>1, <2>3 DEF RegistryInv
    <3>3. UNCHANGED value
      BY <2>2, <3>2, CallAssumption
    <3>4. RegistryInv'
      BY <2>1, <2>2, <2>3, <3>1, <3>2, <3>3 DEF RegistryInv
    <3>5. ValueInv'
      BY <2>2, <2>3, <3>1, <3>3, SaidStays DEF ValueInv
    <3> QED
      BY <2>2, <3>3, <3>4, <3>5 DEF AcceptedInv, OnceInv
  <2>4. CASE place[c] = "expiring"
    <3>1. place' = [place EXCEPT ![c] = "expired"]
      BY <1>5, <2>4 DEF CleanUp
    <3>2. RegistryInv'
      BY <2>1, <2>2, <3>1 DEF RegistryInv, UniqueIds, Closed
    <3>3. \A d \in Call : value'[d] = value[d] \/ (d = c /\ value[d] = "empty" /\ value'[d] = "closed")
      BY <2>2 DEF Closed
    <3>4. ValueInv'
      BY <2>2, <3>1, <3>3 DEF ValueInv, Said
    <3>5. AcceptedInv'
      <4>1. ASSUME NEW a \in accepted, a.call \in Permission PROVE value'[a.call] = a.value
        <5>0. a \in AnswerRecord
          BY <4>1
        <5>1. a.call \in Call /\ a.value # "empty" /\ value[a.call] = a.value
          BY <4>1, <5>0 DEF AnswerRecord, AcceptedInv, Call
        <5> QED
          BY <3>3, <5>1
      <4> QED
        BY <2>2, <4>1 DEF AcceptedInv
    <3> QED
      BY <2>2, <3>2, <3>4, <3>5 DEF OnceInv
  <2> QED
    BY <1>5, <2>3, <2>4 DEF CleanUp
<1>6. ASSUME NEW k \in Client, See(k) PROVE AnswerInv'
  BY <1>6 DEF See, RegistryInv, ValueInv, AcceptedInv, OnceInv, Said
<1>7. ASSUME NEW k \in Client,
             (\E v \in {"allow", "deny"} : Answer(k, v)) \/ \E q \in Question : AnswerQuestion(k, q)
      PROVE AnswerInv'
  <2>1. said \subseteq said' /\ UNCHANGED <<place, registry, value, accepted>>
    BY <1>7 DEF Answer, AnswerQuestion
  <2> QED
    BY <2>1, SaidStays DEF RegistryInv, ValueInv, AcceptedInv, OnceInv
<1>8. ASSUME NEW k \in Client, Resolve(k) PROVE AnswerInv'
  <2> DEFINE a == Head(replies[k])
  <2>1. /\ a \in said /\ a \in AnswerRecord /\ a.call \in Permission /\ a.call \in Call
        /\ a.value \in {"allow", "deny"} /\ Said(a.call, a.value)
    <3>1. a \in said /\ a \in AnswerRecord /\ a.call \in Permission
      BY <1>8, HeadIsSaid DEF Resolve
    <3>2. a = [call |-> a.call, value |-> a.value, by |-> a.by] /\ a.by \in Client
      BY <3>1 DEF AnswerRecord
    <3> QED
      BY <3>1, <3>2 DEF AnswerRecord, Said, Call
  <2>2. Id[a.call] \in Ids /\ registry[Id[a.call]] \in {a.call, None}
    BY <2>1, OwnEntry
  <2>3. /\ registry' = [registry EXCEPT ![Id[a.call]] = None]
        /\ UNCHANGED <<place, said>>
    BY <1>8 DEF Resolve
  <2>4. CASE UNCHANGED <<value, accepted>>
    <3>1. RegistryInv'
      BY <2>2, <2>3, <2>4 DEF RegistryInv
    <3>2. ValueInv'
      BY <2>3, <2>4, SaidStays DEF ValueInv
    <3> QED
      BY <2>3, <2>4, <3>1, <3>2 DEF AcceptedInv, OnceInv
  <2>5. CASE /\ registry[Id[a.call]] = a.call /\ Listening(a.call)
             /\ value' = [value EXCEPT ![a.call] = a.value]
             /\ accepted' = accepted \cup {a}
    <3>1. value[a.call] = "empty"
      BY <2>1, <2>2, <2>5 DEF RegistryInv
    <3>2. \A b \in accepted : b.call # a.call
      <4> SUFFICES ASSUME NEW b \in accepted, b.call = a.call PROVE FALSE
        OBVIOUS
      <4>1. b.value # "empty"
        BY DEF AnswerRecord
      <4> QED
        BY <2>1, <3>1, <4>1 DEF AcceptedInv
    <3>3. RegistryInv'
      BY <2>1, <2>2, <2>3, <2>5 DEF RegistryInv, UniqueIds
    <3>4. ValueInv'
      <4>1. place[a.call] \in {"registered", "waiting", "elapsed"}
        BY <2>5 DEF Listening
      <4>2. ASSUME NEW c \in Call, value'[c] \in {"allow", "deny"} PROVE Said(c, value[c])'
        <5>1. Said(c, value'[c])
          BY <2>1, <2>5, <4>2 DEF ValueInv
        <5> QED
          BY <2>3, <5>1 DEF Said
      <4> QED
        BY <2>1, <2>3, <2>5, <4>1, <4>2 DEF ValueInv
    <3>5. AcceptedInv' /\ OnceInv'
      BY <2>1, <2>5, <3>2 DEF AcceptedInv, OnceInv, Call
    <3> QED
      BY <3>3, <3>4, <3>5
  <2> HIDE DEF a
  <2>6. registry[Id[a.call]] # None => registry[Id[a.call]] = a.call
    BY <2>2
  <2> QED
    BY <1>8, <2>4, <2>5, <2>6 DEF Resolve, a
<1>9. ASSUME NEW k \in Client, IgnoreUserInput(k) PROVE AnswerInv'
  <2>1. /\ Head(replies[k]).call \in Question
        /\ accepted' = accepted \cup {Head(replies[k])}
        /\ UNCHANGED <<place, registry, value, said>>
    BY <1>9 DEF IgnoreUserInput
  <2>2. RegistryInv' /\ ValueInv'
    BY <2>1, SaidStays DEF RegistryInv, ValueInv
  <2> QED
    BY <2>1, <2>2 DEF AcceptedInv, OnceInv
<1>10. CASE UNCHANGED answersVars
  BY <1>10 DEF answersVars, RegistryInv, ValueInv, AcceptedInv, OnceInv, Said
<1> QED
  BY <1>1, <1>2, <1>3, <1>4, <1>5, <1>6, <1>7, <1>8, <1>9, <1>10
     DEF AnswersNext, WaitStep, ClientStep, DaemonStep

THEOREM AnswerInvariant ==
  ASSUME UniqueIds
  PROVE  AnswersSpec => []AnswerInv
<1>1. AnswersInit => AnswerInv
  BY DEF AnswersInit, AnswerInv, RegistryInv, ValueInv, AcceptedInv, OnceInv, Ids
<1>2. AnswersTypeOK /\ AnswersTypeOK' /\ WireInv /\ AnswerInv /\ [AnswersNext]_answersVars => AnswerInv'
  BY AnswerInductive
<1> QED
  BY <1>1, <1>2, AnswersTypeCorrect, PTL DEF AnswersSpec

\* FirstAnswerWins for any number of calls and clients: PendingPermissions::resolve takes the sender out
\* of the map, so that the second answer to a call finds none.
THEOREM OneAnswerIsAccepted ==
  ASSUME UniqueIds
  PROVE  AnswersSpec => []FirstAnswerWins
<1>1. AnswerInv => FirstAnswerWins
  BY DEF AnswerInv, OnceInv, FirstAnswerWins
<1> QED
  BY <1>1, AnswerInvariant, PTL

\* DecisionIsTheUsers for any number of calls and clients: run_agent runs or refuses a call only as a user who was
\* answering that call has said, and as it was accepted.
THEOREM DecisionsAreUsers ==
  ASSUME UniqueIds
  PROVE  AnswersSpec => []DecisionIsTheUsers
<1>1. AnswersTypeOK /\ AnswerInv => DecisionIsTheUsers
  <2> SUFFICES ASSUME AnswersTypeOK, AnswerInv PROVE DecisionIsTheUsers
    OBVIOUS
  <2>1. \A c \in Permission :
          /\ place[c] = "ran" => Said(c, "allow")
          /\ place[c] = "refused" => Said(c, "deny")
    BY DEF AnswerInv, ValueInv, Call
  <2>2. ASSUME NEW a \in accepted, a.call \in Permission, Ended(a.call)
        PROVE  place[a.call] \in {"expired", IF a.value = "allow" THEN "ran" ELSE "refused"}
    <3>1. value[a.call] = a.value /\ a.call \in Call
      BY <2>2 DEF AnswerInv, AcceptedInv, Call
    <3> QED
      BY <2>2, <3>1 DEF AnswerInv, ValueInv, Ended
  <2> QED
    BY <2>1, <2>2 DEF DecisionIsTheUsers
<1> QED
  BY <1>1, AnswerInvariant, AnswersTypeCorrect, PTL

--------------------------------------------------------------------------------
(* What is shown to a user. *)

\* The user of client k has answered call c; k shows request i or a later one, or
\* that one is answered.
Answered(k, c) == \E a \in said : a.by = k /\ a.call = c
Shows(k, i) == \E j \in i .. seen[k] : slot[k] = stream[j] \/ Answered(k, stream[j])

\* UnansweredIsShown in these terms.
LEMMA ShownInTerms ==
  UnansweredIsShown <=>
    \A k \in Client : \A i \in 1 .. seen[k] : stream[i] \in Permission => Shows(k, i)
BY DEF UnansweredIsShown, Shows, Answered

\* A client whose slot and place in the stream stay goes on showing what it shows.
LEMMA ShowsKept ==
  ASSUME AnswersTypeOK, NEW k \in Client, NEW i \in 1 .. seen[k], Shows(k, i),
         seen'[k] = seen[k], slot'[k] = slot[k], said \subseteq said',
         \A j \in 1 .. Len(stream) : stream'[j] = stream[j]
  PROVE  Shows(k, i)'
<1>1. seen[k] \in Nat /\ seen[k] <= Len(stream) /\ Len(stream) \in Nat
  BY DEF AnswersTypeOK
<1>2. PICK j \in i .. seen[k] : slot[k] = stream[j] \/ Answered(k, stream[j])
  BY DEF Shows
<1>3. stream'[j] = stream[j]
  BY <1>1, <1>2
<1>4. Answered(k, stream[j]) => \E a \in said' : a.by = k /\ a.call = stream[j]
  BY DEF Answered
<1>5. slot'[k] = stream'[j] \/ \E a \in said' : a.by = k /\ a.call = stream'[j]
  BY <1>2, <1>3, <1>4
<1>6. QED
  BY <1>1, <1>2, <1>5 DEF Shows, Answered

\* A client that has read a request shows it until its user answers, or shows a
\* later one; whatever agents, timers and other clients do.
THEOREM UnansweredStaysShown == AnswersSpec => []UnansweredIsShown
<1>1. AnswersInit => UnansweredIsShown
  BY DEF AnswersInit, UnansweredIsShown
<1>2. AnswersTypeOK /\ UnansweredIsShown /\ [AnswersNext]_answersVars => UnansweredIsShown'
  <2> SUFFICES ASSUME AnswersTypeOK, UnansweredIsShown, [AnswersNext]_answersVars,
                      NEW k \in Client, NEW i \in 1 .. seen'[k], stream'[i] \in Permission
               PROVE  Shows(k, i)'
    BY ShownInTerms DEF UnansweredIsShown, Shows, Answered
  <2> USE DEF callVars, clientVars
  <2>t. /\ seen[k] \in Nat /\ seen[k] <= Len(stream) /\ Len(stream) \in Nat
        /\ seen \in [Client -> Nat] /\ slot \in [Client -> Permission \cup {None}]
        /\ stream \in Seq(Call)
    BY DEF AnswersTypeOK
  <2>i. ASSUME i \in 1 .. seen[k], stream[i] \in Permission PROVE Shows(k, i)
    BY <2>i, ShownInTerms
  <2>1. ASSUME seen'[k] = seen[k], slot'[k] = slot[k], said \subseteq said',
               \A j \in 1 .. Len(stream) : stream'[j] = stream[j]
        PROVE  Shows(k, i)'
    <3>1. i \in 1 .. seen[k] /\ stream[i] \in Permission
      BY <2>t, <2>1
    <3>2. QED
      BY <2>1, <2>i, <3>1, ShowsKept
  <2>2. CASE See(k)
    <3> DEFINE n == seen[k] + 1
    <3>1. /\ seen'[k] = n /\ n \in 1 .. Len(stream)
          /\ stream[n] \in Permission => slot'[k] = stream[n]
          /\ stream[n] \notin Permission => slot'[k] = slot[k]
          /\ stream' = stream /\ said' = said
      BY <2>2, <2>t DEF See
    <3>2. CASE stream[n] \in Permission
      <4>1. n \in i .. seen'[k] /\ slot'[k] = stream'[n]
        BY <2>t, <3>1, <3>2
      <4>2. QED
        BY <4>1 DEF Shows
    <3>3. CASE stream[n] \notin Permission
      <4>1. i \in 1 .. seen[k] /\ stream[i] \in Permission
        BY <2>t, <3>1, <3>3
      <4>2. PICK j \in i .. seen[k] : slot[k] = stream[j] \/ Answered(k, stream[j])
        BY <2>i, <4>1 DEF Shows
      <4>3. j \in i .. seen'[k]
        BY <2>t, <3>1, <4>1, <4>2
      <4>4. slot'[k] = stream'[j] \/ \E a \in said' : a.by = k /\ a.call = stream'[j]
        BY <3>1, <3>3, <4>2 DEF Answered
      <4>5. QED
        BY <4>3, <4>4 DEF Shows, Answered
    <3>4. QED
      BY <3>2, <3>3
  <2>3. ASSUME NEW v \in {"allow", "deny"}, Answer(k, v) PROVE Shows(k, i)'
    <3>1. /\ [call |-> slot[k], value |-> v, by |-> k] \in said' /\ said \subseteq said'
          /\ seen' = seen /\ stream' = stream
      BY <2>3 DEF Answer
    <3>2. \E a \in said' : a.by = k /\ a.call = slot[k]
      BY <3>1
    <3>3. PICK j \in i .. seen[k] : slot[k] = stream[j] \/ Answered(k, stream[j])
      BY <2>i, <3>1 DEF Shows
    <3>4. \E a \in said' : a.by = k /\ a.call = stream'[j]
      BY <3>1, <3>2, <3>3 DEF Answered
    <3>5. QED
      BY <3>1, <3>3, <3>4 DEF Shows, Answered
  <2>4. ASSUME NEW q \in Question, AnswerQuestion(k, q) PROVE Shows(k, i)'
    BY <2>1, <2>4 DEF AnswerQuestion
  <2>5. ASSUME NEW l \in Client, l # k, ClientStep(l) PROVE Shows(k, i)'
    BY <2>1, <2>t, <2>5 DEF ClientStep, See, Answer, AnswerQuestion
  <2>6. ASSUME NEW l \in Client, DaemonStep(l) PROVE Shows(k, i)'
    BY <2>1, <2>6 DEF DaemonStep, Resolve, IgnoreUserInput
  <2>7. ASSUME NEW c \in Call, Announce(c) \/ RegisterQuestion(c) \/ WaitStep(c)
        PROVE  Shows(k, i)'
    <3>1. UNCHANGED <<seen, slot, said>> /\ (stream' = stream \/ stream' = Append(stream, c))
      BY <2>7 DEF Announce, RegisterQuestion, WaitStep, Register, AskQuestion, ReadAnswer, Elapse,
                  DropReceiver, CleanUp
    <3>2. \A j \in 1 .. Len(stream) : stream'[j] = stream[j]
      BY <2>t, <3>1
    <3>3. QED
      BY <2>1, <3>1, <3>2
  <2>8. CASE UNCHANGED answersVars
    BY <2>1, <2>8 DEF answersVars
  <2>9. QED
    BY <2>2, <2>3, <2>4, <2>5, <2>6, <2>7, <2>8 DEF AnswersNext, ClientStep
<1>3. QED
  BY <1>1, <1>2, AnswersTypeCorrect, PTL DEF AnswersSpec
===============================================================================
