--------------------------------- MODULE MCTools --------------------------------
(* TLC instance of the tools of agents: those that change files and the todo     *)
(* list (ToolCalls), and those that start and stop subagents (Subagents).  The   *)
(* two share no variable; one of them moves.                                     *)
EXTENDS ToolCalls, Subagents, TLC

VARIABLE part

La == Plain("a")
Lb == Plain("b")
Lc == Plain("c")
Marked(mark, body) == [mark |-> mark, body |-> body]

TheFirstDisks ==
  {[f \in Files |-> IF f \in Inside THEN first ELSE other] :
     first \in {NoFile, <<La, Lb>>, <<La, La, La>>,
               <<La, Marked("@", "h"), Blank, Marked("-", "a"), Marked("+", "b")>>},
     other \in {NoFile, <<La, Lb>>}}
TheStrayTexts == {<<Lc>>}

Replace(old, new) == [old |-> old, new |-> new]
Input(name, file) ==
  [tool |-> name, file |-> file, edits |-> <<>>, all |-> FALSE, patch |-> <<>>, text |-> <<>>]

\* On a file: a write; edits of one place, of the overlapping places of a run, of
\* nothing, of every place; a series whose second edit looks for what the first has put
\* in or what it has taken away; a patch; a command.
CallsOn(f) ==
  {[Input("write", f) EXCEPT !.text = <<Lb>>],
   [Input("edit", f) EXCEPT !.edits = <<Replace(<<La>>, <<Lc, Lc>>)>>],
   [Input("edit", f) EXCEPT !.edits = <<Replace(<<La, La>>, <<Lb>>)>>],
   [Input("edit", f) EXCEPT !.edits = <<Replace(<<>>, <<Lb>>)>>],
   [Input("edit", f) EXCEPT !.edits = <<Replace(<<La>>, <<>>)>>, !.all = TRUE],
   [Input("multi_edit", f) EXCEPT
      !.edits = <<Replace(<<La>>, <<Lc>>), Replace(<<>>, <<Lb>>), Replace(<<La>>, <<Lb>>)>>],
   [Input("apply_patch", f) EXCEPT
      !.edits = <<Replace(<<Lb>>, <<Lc>>), Replace(<<Lc>>, <<La, Lb>>)>>],
   [Input("apply_patch", f) EXCEPT !.patch = <<Marked("-", "a"), Marked("+", "c")>>]}

TheCalls == UNION {CallsOn(f) : f \in Files} \cup {Input("shell", CHOOSE f \in Inside : TRUE)}

AgentsAlike == Permutations(Agents)

TheListedTodos ==
  {<<"pending", "pending">>, <<"inprogress", "inprogress">>, <<"in_progress", "completed">>}

\* (Of the files at first, one choice is enough for the subagents.)
MCInit ==
  /\ Init /\ SubagentsInit /\ part \in {"files", "subagents"}
  /\ part = "subagents" => mode = "Plan" /\ disk = CHOOSE d \in FirstDisks : TRUE
MCNext ==
  \/ part = "files" /\ Next /\ UNCHANGED <<subagentsVars, part>>
  \/ part = "subagents" /\ SubagentsNext /\ UNCHANGED <<vars, part>>

MCSpec == MCInit /\ [][MCNext]_<<vars, subagentsVars, part>>
===============================================================================
