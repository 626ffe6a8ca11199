------------------------------- MODULE MCClients -------------------------------
(* TLC instance of what goes on between a session and its clients: EventBus,     *)
(* the events they get, and PendingAnswers, the answers they give.  The two      *)
(* share no variable; one of them moves.  Two forwarders, whose events overtake  *)
(* each other; two requests of three, each with an id of its own.                *)
EXTENDS EventBus, PendingAnswers

VARIABLE part

UniqueIds == [c \in Call |-> c]

MCInit == Init /\ AnswersInit /\ part \in {"events", "answers"}
MCNext ==
  \/ part = "events" /\ Next /\ UNCHANGED <<answersVars, part>>
  \/ part = "answers" /\ AnswersNext /\ UNCHANGED <<vars, part>>

MCSpec ==
  MCInit /\ [][MCNext]_<<vars, answersVars, part>> /\ BusIsFair /\ AnswersAreFair
===============================================================================
