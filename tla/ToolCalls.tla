-------------------------------- MODULE ToolCalls --------------------------------
(***************************************************************************)
(* The tools that change files and the todo list, called by agents that    *)
(* work in one directory (a main agent and its subagents get the cwd of    *)
(* their session): run_agent asks the policy about each call               *)
(* (agent_loop.rs), the tool checks the path, reads, computes and writes   *)
(* (tools/fs.rs, apply_patch.rs, shell.rs, todo.rs).                       *)
(*                                                                         *)
(* Nothing is locked.  A tool reads the file in one call of the system and *)
(* writes it in two (fs::write opens it with O_TRUNC, then writes), the    *)
(* agents run on several threads, and a shell command or the user may      *)
(* write at any time.  A write may fail or be cut short, and the daemon    *)
(* may be killed between any two of these steps.                           *)
(***************************************************************************)
EXTENDS TextEdits, Permissions, TodoList, FiniteSets

CONSTANTS
  Agents,      \* the agents at work in the directory
  Inside,      \* files in the working directory
  Outside,     \* files elsewhere
  Calls,       \* the calls a model may make: tool, file and what the tool needs
  FirstDisks,  \* what the files may hold at first, NoFile included
  StrayTexts,  \* what the user and a shell command may write
  ListedTodos, \* the lists a todo create may carry, in the schema's spelling
  MaxCalls,    \* bound: calls
  MaxStrays,   \* bound: writes of the user or of a shell command
  MaxFails,    \* bound: writes that fail or are cut short, kills
  NoFile, NoCall

Files == Inside \cup Outside

ASSUME NoCallAssumption == NoCall \notin Agents
ASSUME FilesAssumption == Inside \cap Outside = {} /\ NoFile \notin StrayTexts
ASSUME TextsAssumption ==
  /\ StrayTexts \subseteq Seq(Line)
  /\ \A d \in FirstDisks :
       d = [f \in Files |-> d[f]] /\ \A f \in Files : d[f] = NoFile \/ d[f] \in Seq(Line)
ASSUME CallsAssumption ==
  \A input \in Calls :
    /\ input.file \in Files
    /\ {input.text, input.patch} \subseteq Seq(Line)
    /\ input.edits \in Seq(Edit) /\ input.all \in BOOLEAN
    /\ input.tool = "edit" => input.edits # <<>>
ASSUME ListedTodosAssumption == ListedTodos \subseteq Seq(STRING)

VARIABLES
  disk,    \* the files
  dirs,    \* the files whose directory exists
  call,    \* what each agent is doing
  todo,    \* the todo list of each agent
  mode,    \* permission_mode of the configuration, read once
  calls, fails,    \* counts
  strays, shells,  \* counts of what the user and what shell commands write
  yes      \* history: agents whose call the user allowed

counts == <<calls, strays, shells, fails>>
vars == <<disk, dirs, call, todo, mode, counts, yes>>

Text(f) == IF disk[f] = NoFile THEN <<>> ELSE disk[f]

\* An idle agent.  A call: its input, the stage, the text that was read (with
\* whether it was read), the text to write, and whether someone else has written the
\* file since.
Idle == [input |-> NoCall, stage |-> "idle", read |-> FALSE, seen |-> <<>>,
         text |-> <<>>, disturbed |-> FALSE]

Tool(a) == call[a].input.tool
File(a) == call[a].input.file
InStage(a, stage) == call[a].stage = stage
AtFile(a, f) == call[a].stage \in {"put", "fill"} /\ File(a) = f

Init ==
  /\ disk \in FirstDisks
  /\ dirs = Inside \cup {f \in Files : disk[f] # NoFile}
  /\ call = [a \in Agents |-> Idle]
  /\ todo = [a \in Agents |-> <<>>]
  /\ mode \in Modes
  /\ calls = 0 /\ strays = 0 /\ shells = 0 /\ fails = 0
  /\ yes = {}

\* The calls, with who of the others is told that the file has changed.
Disturb(cs, f, writer) ==
  [a \in Agents |->
     IF a # writer /\ AtFile(a, f) THEN [cs[a] EXCEPT !.disturbed = TRUE] ELSE cs[a]]

\* The tool's result is recorded and the agent goes on.
Return(a) ==
  /\ call' = [call EXCEPT ![a] = Idle]
  /\ yes' = yes \ {a}

\* A call of the model is checked; what is refused ends here.
Decide(a, input) ==
  /\ InStage(a, "idle") /\ calls < MaxCalls
  /\ calls' = calls + 1
  /\ LET decision == Check(mode, input.tool)
     IN  /\ decision # "Deny"
         /\ call' = [call EXCEPT ![a].input = input,
                                 ![a].stage = IF decision = "Ask" THEN "asked" ELSE "run"]
  /\ UNCHANGED <<disk, dirs, todo, mode, strays, shells, fails, yes>>

\* The user says yes.
Allowed(a) ==
  /\ InStage(a, "asked")
  /\ call' = [call EXCEPT ![a].stage = "run"]
  /\ yes' = yes \cup {a}
  /\ UNCHANGED <<disk, dirs, todo, mode, counts>>

\* The user says no, or does not answer in time.
Refused(a) ==
  /\ InStage(a, "asked")
  /\ Return(a)
  /\ UNCHANGED <<disk, dirs, todo, mode, counts>>

\* The bounds of write alone.
OfWriteAlone(tool, f) == f \in Inside \/ tool # "write"

\* check_bounds: nothing outside the working directory (allow_paths is empty).
\* apply_patch takes the path as it is.
InBounds(tool, f) == f \in Inside \/ tool = "apply_patch"

\* write: the directory is made before the bounds are checked, and is made of a
\* file that is then refused, too.
WriteBegins(a) ==
  /\ InStage(a, "run") /\ Tool(a) = "write"
  /\ dirs' = dirs \cup {File(a)}
  /\ IF InBounds("write", File(a))
     THEN /\ call' = [call EXCEPT ![a].stage = "put", ![a].text = call[a].input.text]
          /\ UNCHANGED yes
     ELSE Return(a)
  /\ UNCHANGED <<disk, todo, mode, counts>>

\* What the tool makes of the text it has read.
Computed(input, text) ==
  IF input.tool = "edit" THEN EditText(text, input.edits[1], input.all)
  ELSE IF input.edits # <<>> THEN EditSeries(text, input.edits)
  ELSE ApplyDiff(text)

\* edit, multi_edit and apply_patch: the bounds, the text, and what becomes of it;
\* an error returns before anything is written.
EditReads(a) ==
  /\ InStage(a, "run") /\ Tool(a) \in {"edit", "multi_edit", "apply_patch"}
  /\ LET f == File(a)
         out == Computed(call[a].input, Text(f))
     IN  IF InBounds(Tool(a), f) /\ disk[f] # NoFile /\ ~out.error
         THEN /\ call' = [call EXCEPT ![a].stage = "put", ![a].read = TRUE,
                                      ![a].seen = disk[f], ![a].text = out.text]
              /\ UNCHANGED yes
         ELSE Return(a)
  /\ UNCHANGED <<disk, dirs, todo, mode, counts>>

\* The file is opened and keeps what it had.
PutOver(a) ==
  /\ InStage(a, "put")
  /\ disk' = [disk EXCEPT ![File(a)] = Text(File(a))]
  /\ call' = [Disturb(call, File(a), a) EXCEPT ![a].stage = "fill"]
  /\ UNCHANGED <<dirs, todo, mode, counts, yes>>

\* fs::write opens the file: it is empty, or made.
Put(a) ==
  /\ InStage(a, "put")
  /\ disk' = [disk EXCEPT ![File(a)] = <<>>]
  /\ call' = [Disturb(call, File(a), a) EXCEPT ![a].stage = "fill"]
  /\ UNCHANGED <<dirs, todo, mode, counts, yes>>

\* The file cannot be opened.
PutFails(a) ==
  /\ InStage(a, "put") /\ fails < MaxFails
  /\ fails' = fails + 1
  /\ Return(a)
  /\ UNCHANGED <<disk, dirs, todo, mode, calls, strays, shells>>

\* It writes the text from the start of the file on.
Fill(a) ==
  /\ InStage(a, "fill")
  /\ disk' = [disk EXCEPT ![File(a)] = Overlay(call[a].text, Text(File(a)))]
  /\ call' = [Disturb(call, File(a), a) EXCEPT ![a] = Idle]
  /\ yes' = yes \ {a}
  /\ UNCHANGED <<dirs, todo, mode, counts>>

\* The disk is full: a part of the text is written, and that is all.
FillFails(a) ==
  /\ InStage(a, "fill") /\ fails < MaxFails
  /\ fails' = fails + 1
  /\ \E n \in 0 .. Len(call[a].text) :
       disk' = [disk EXCEPT ![File(a)] =
                  Overlay(SubSeq(call[a].text, 1, n), Text(File(a)))]
  /\ call' = [Disturb(call, File(a), a) EXCEPT ![a] = Idle]
  /\ yes' = yes \ {a}
  /\ UNCHANGED <<dirs, todo, mode, calls, strays, shells>>

\* Some other hand writes a file.
StrayWrite(f) ==
  /\ strays + shells < MaxStrays
  /\ \E text \in StrayTexts :
       /\ text # disk[f]
       /\ disk' = [disk EXCEPT ![f] = text]
  /\ dirs' = dirs \cup {f}
  /\ call' = Disturb(call, f, NoCall)
  /\ UNCHANGED <<todo, mode, calls, fails, yes>>

\* The user, in an editor.
UserWrites(f) == StrayWrite(f) /\ strays' = strays + 1 /\ UNCHANGED shells

\* A shell command, which ends when it likes: its timeout is read and not used.
ShellWrites(a, f) ==
  /\ InStage(a, "run") /\ Tool(a) = "shell"
  /\ StrayWrite(f)
  /\ shells' = shells + 1 /\ UNCHANGED strays

ShellEnds(a) ==
  /\ InStage(a, "run") /\ Tool(a) = "shell"
  /\ Return(a)
  /\ UNCHANGED <<disk, dirs, todo, mode, counts>>

\* The todo tool: the policy lets it through in every mode, the list is locked.
TodoCall(a) ==
  /\ InStage(a, "idle") /\ calls < MaxCalls
  /\ calls' = calls + 1
  /\ \/ \E spellings \in ListedTodos :
          todo' = [todo EXCEPT ![a] = Created(@, spellings)]
     \/ \E index \in DOMAIN todo[a], status \in Statuses :
          todo' = [todo EXCEPT ![a] = Updated(@, index, status)]
     \/ todo' = [todo EXCEPT ![a] = <<>>]
  /\ UNCHANGED <<disk, dirs, call, mode, strays, shells, fails, yes>>

\* The daemon is killed and started again, with other agents and the same files.
Kill ==
  /\ \E a \in Agents : ~InStage(a, "idle")
  /\ fails < MaxFails
  /\ fails' = fails + 1
  /\ call' = [a \in Agents |-> Idle]
  /\ todo' = [a \in Agents |-> <<>>]
  /\ yes' = {}
  /\ UNCHANGED <<disk, dirs, mode, calls, strays, shells>>

Next ==
  \/ \E a \in Agents :
       \/ \E input \in Calls : Decide(a, input)
       \/ Allowed(a) \/ Refused(a)
       \/ WriteBegins(a) \/ EditReads(a)
       \/ Put(a) \/ PutFails(a) \/ Fill(a) \/ FillFails(a)
       \/ ShellEnds(a) \/ TodoCall(a)
       \/ \E f \in Files : ShellWrites(a, f)
  \/ \E f \in Files : UserWrites(f)
  \/ Kill

Spec == Init /\ [][Next]_vars

-----------------------------------------------------------------------------
(* Properties *)

\* What an agent does to a file outside has the user's yes: a command, which may write
\* anything, or a patch of this file.
HasYes(f) ==
  \E a \in yes : IF shells' # shells THEN InStage(a, "run") /\ Tool(a) = "shell"
                 ELSE AtFile(a, f) /\ Tool(a) = "apply_patch"

\* "plan-режим: только чтение" (permissions.rs): in plan mode no tool and no command of
\* an agent changes a file or makes a directory.  And C2 (fs.rs): unless everything is
\* allowed, a file outside the working directory is written by no agent without the
\* user's yes to this command or this patch.  (Directories there are not promised: write
\* makes them before it checks the path.)
PolicyIsKept ==
  [][strays' = strays =>
       /\ mode = "Plan" => UNCHANGED <<disk, dirs>>
       /\ \A f \in Outside :
            disk'[f] # disk[f] => mode = "BypassPermissions" \/ HasYes(f)]_vars

\* A call that has computed its text; one of a series; what an edit may make of each of
\* some texts.
Writing(a) == call[a].stage \in {"put", "fill"}
Series(a) ==
  Writing(a) /\ Tool(a) \in {"multi_edit", "apply_patch"} /\ call[a].input.edits # <<>>
ByOne(texts, edit) ==
  IF edit.old = <<>> THEN texts
  ELSE UNION {{PutAt(t, p, edit) : p \in Places(t, edit.old)} : t \in texts}
Reached(text, edits) ==
  LET texts[i \in 0 .. Len(edits)] ==
        IF i = 0 THEN {text} ELSE ByOne(texts[i - 1], edits[i])
  IN  texts[Len(edits)]

\* "Атомарно: либо все правки применяются, либо ни одна" (apply_patch.rs; "атомарно"
\* in multi_edit): what a series is about to write is reached from what it has read
\* by every one of its edits, each at some place where its old string stands.
EveryEditIsMade(a) ==
  Series(a) => call[a].text \in Reached(call[a].seen, call[a].input.edits)

Overlap(p, q, run) == p = q \/ (p < q + Len(run) /\ q < p + Len(run))

\* edit that was accepted without replace_all has replaced the old string at a place
\* that every other one overlaps.
EditHasOnePlace(a) ==
  Writing(a) /\ Tool(a) = "edit" /\ ~call[a].input.all =>
    LET edit == call[a].input.edits[1]
        places == Places(call[a].seen, edit.old)
    IN  \E p \in places :
          /\ call[a].text = PutAt(call[a].seen, p, edit)
          /\ \A q \in places : Overlap(p, q, edit.old)

\* With replace_all, it has replaced it at places that do not overlap each other and
\* that leave out none but such as overlap one of them.
EditHasAllPlaces(a) ==
  Writing(a) /\ Tool(a) = "edit" /\ call[a].input.all =>
    LET edit == call[a].input.edits[1]
        places == Places(call[a].seen, edit.old)
    IN  \E taken \in SUBSET places :
          /\ call[a].text = ReplaceAt(call[a].seen, taken, edit)
          /\ \A p, q \in taken : Overlap(p, q, edit.old) => p = q
          /\ \A q \in places : \E p \in taken : Overlap(p, q, edit.old)

\* What an edit or a series of edits is about to write is what it has read with the
\* edits it was asked for.  (Not so a unified diff, of which ApplyDiff reads nothing.)
EditsAreAsAsked ==
  \A a \in Agents : EveryEditIsMade(a) /\ EditHasOnePlace(a) /\ EditHasAllPlaces(a)

\* No lock, and yet: an edit whose file no other hand has written since it was read
\* replaces exactly what it has read, by exactly what it has computed.  Only then may
\* a change be lost, or two texts be mixed, when the calls overlap.
UndisturbedIsExact ==
  [][\A a \in Agents :
       ~call[a].disturbed =>
         /\ InStage(a, "put") /\ call'[a].stage = "fill" /\ call[a].read =>
              disk[File(a)] = call[a].seen
         /\ InStage(a, "fill") /\ call'[a] = Idle /\ fails' = fails =>
              disk'[File(a)] = call[a].text]_vars

\* "Только один in_progress за раз" (todo.rs).
OneInProgress ==
  \A a \in Agents : Cardinality({i \in DOMAIN todo[a] : todo[a][i] = "InProgress"}) <= 1
===============================================================================
