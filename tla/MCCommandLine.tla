----------------------------- MODULE MCCommandLine -----------------------------
(* TLC instance of CommandLine and of DaemonLock, which share no variable: what  *)
(* moves is chosen with the menu, the commands one after the other, or the       *)
(* processes and commands that start and stop the daemon, which overlap.  Two    *)
(* providers of the registry: the one of the default configuration and one       *)
(* without models.                                                               *)
EXTENDS CommandLine, DaemonLock

MCRegistry ==
  {[id |-> "openai", models |-> {"gpt-4o"}], [id |-> "groq", models |-> {}]}

\* The changes of the configuration, a run of an agent with its setup, upgrades; the
\* daemon's starts and stops.
MCMenus ==
  {[of |-> {"init", "add", "use", "remove"}, most |-> 3, wizards |-> 2],
   [of |-> {"add", "run"}, most |-> 3, wizards |-> 1],
   [of |-> {"upgrade"}, most |-> 2, wizards |-> 0],
   [of |-> {"daemon"}, most |-> 0, wizards |-> 0]}

MCVersions == {<<1, 0, 9>>, <<1, 1>>, <<1, 1, 1>>}
MCBuilt == <<1, 1>>

MCInit == Init /\ LockInit
MCNext ==
  \/ Next /\ UNCHANGED lockVars
  \/ "daemon" \in menu.of /\ LockNext /\ UNCHANGED vars

MCSpec ==
  MCInit /\ [][MCNext]_<<vars, lockVars>> /\ CommandsAreFair /\ LockIsFair
===============================================================================
