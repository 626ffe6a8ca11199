-------------------------------- MODULE TodoList --------------------------------
(***************************************************************************)
(* The todo tool (runtime/src/tools/todo.rs): the list of one agent, kept  *)
(* between its turns.  A task is its status; what it says and its priority *)
(* only go into the text that is shown.                                    *)
(***************************************************************************)
EXTENDS Naturals, Sequences

Statuses == {"Pending", "InProgress", "Completed"}

\* from_value: serde writes the variants in lower case, without the underscore the
\* schema has, so that a list with an in_progress of the schema's is refused.
ParsesInList(spelling) == spelling \in {"pending", "inprogress", "completed"}
Named(spelling) ==
  CASE spelling = "pending" -> "Pending"
    [] spelling = "completed" -> "Completed"
    [] OTHER -> "InProgress"

\* enforce_single_in_progress: the first stays, the others wait.
SingleInProgress(list) ==
  [i \in DOMAIN list |->
     IF list[i] = "InProgress" /\ \E j \in 1 .. i - 1 : list[j] = "InProgress"
     THEN "Pending" ELSE list[i]]

\* create: the list as a whole, or an error that leaves the old one.
Created(list, spellings) ==
  IF \E i \in DOMAIN spellings : ~ParsesInList(spellings[i]) THEN list
  ELSE SingleInProgress([i \in DOMAIN spellings |-> Named(spellings[i])])

\* update without the reset of the task that was in progress.
UpdatedAlone(list, index, status) ==
  IF index \notin DOMAIN list THEN list ELSE [list EXCEPT ![index] = status]

\* update: a new task in progress puts the earlier one back; an index outside the
\* list is an error.
Updated(list, index, status) ==
  IF index \notin DOMAIN list THEN list
  ELSE [i \in DOMAIN list |->
          CASE i = index -> status
            [] status = "InProgress" /\ list[i] = "InProgress" -> "Pending"
            [] OTHER -> list[i]]
===============================================================================
