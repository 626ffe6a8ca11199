------------------------------- MODULE CommandLine -------------------------------
(***************************************************************************)
(* The vpsagent command (main in vpsagent/src/main.rs): one command after  *)
(* another over the same configuration, binary and daemon.  The            *)
(* configuration is loaded before anything else, so that no command runs   *)
(* over a file that does not parse; commands that need a key go through    *)
(* the wizard first when there is none, init among them, which then runs   *)
(* it again.  A daemon that is up keeps the configuration it was started   *)
(* with, but reads the keys when it needs them.                            *)
(*                                                                         *)
(* Start, stop and restart of the daemon are in DaemonLock; here it is up  *)
(* or down.                                                                *)
(***************************************************************************)
EXTENDS InitWizard, Upgrade, HeadlessRun

CONSTANTS
  Menus,        \* bounds: which commands are given together, how many of them at
                \* most, and how many runs of the wizard they come to
  NoDaemon

ASSUME DaemonAssumption == NoDaemon \notin Config

VARIABLES
  todo,         \* what the running command still does
  daemon,       \* the configuration the daemon holds, or NoDaemon
  commands,     \* commands given
  wizards,      \* runs of the wizard they ask for
  menu,         \* the commands that are given
  last          \* ghost: the last change of the configuration

bounds == <<commands, wizards, menu>>
shellVars == <<todo, daemon, bounds, last>>
vars == <<wizardVars, upgradeVars, runVars, shellVars>>

Init ==
  /\ DiskInit /\ WizardInit /\ UpgradeInit /\ RunInit
  /\ todo = <<>> /\ daemon = NoDaemon /\ commands = 0 /\ wizards = 0 /\ last = "none"
  /\ menu \in Menus

-------------------------------------------------------------------------------
(* Commands. *)

\* The shell is free, the binary is there and the configuration parses.
Invoked(command) ==
  /\ command \in menu.of /\ commands < menu.most
  /\ todo = <<>>
  /\ exe \in Versions /\ config # Torn
  /\ commands' = commands + 1

\* What is to be done, the wizard among it or not.
Begin(stages) ==
  /\ todo' = stages
  /\ wizards' = wizards + Len(SelectSeq(stages, LAMBDA stage_ : stage_ = "wizard"))
  /\ wizards' <= menu.wizards
  /\ UNCHANGED <<wizardVars, runVars, daemon, menu, last>>

\* With a terminal and no key the wizard comes first, for run and for init.
FirstWizard(terminal) ==
  IF terminal /\ NeedsInit(Load(config), secrets) THEN <<"wizard">> ELSE <<>>

InvokeInit == Invoked("init") /\ Begin(FirstWizard(TRUE) \o <<"wizard">>) /\ UNCHANGED upgradeVars

\* provider add
InvokeAdd == Invoked("add") /\ Begin(<<"wizard">>) /\ UNCHANGED upgradeVars

InvokeRun ==
  /\ Invoked("run")
  /\ \E terminal \in BOOLEAN : Begin(FirstWizard(terminal) \o <<"run">>)
  /\ UNCHANGED upgradeVars

InvokeUpgrade ==
  /\ Invoked("upgrade")
  /\ Begin(<<"upgrade">>)
  /\ \E version \in Versions, force \in BOOLEAN : Compare(version, force)

\* provider use: set_default_model of a model that some endpoint lists.
UseModel(model) ==
  /\ Invoked("use")
  /\ Serving(Load(config), model) # {}
  /\ config' = [Load(config) EXCEPT !.default = model]
  /\ last' = "use"
  /\ UNCHANGED <<secrets, cuts, wizard, upgradeVars, runVars, todo, wizards, menu, daemon>>

\* provider remove: remove_endpoint; the key and the default model stay.
RemoveProvider(name) ==
  /\ Invoked("remove")
  /\ name \in Names(Load(config))
  /\ config' = Without(Load(config), name)
  /\ last' = "remove"
  /\ UNCHANGED <<secrets, cuts, wizard, upgradeVars, runVars, todo, wizards, menu, daemon>>

\* Either of them, with a write that fails.
ChangeFails ==
  /\ Invoked("use") \/ Invoked("remove")
  /\ WriteFails(config, config')
  /\ UNCHANGED <<secrets, wizard, upgradeVars, runVars, todo, wizards, menu, daemon, last>>

-------------------------------------------------------------------------------
(* What they do. *)

Doing(what) == todo # <<>> /\ Head(todo) = what
AllUnchanged == UNCHANGED <<upgradeVars, runVars, daemon, bounds>>

Wizard ==
  /\ Doing("wizard")
  /\ StartWizard \/ Press
  /\ last' = IF SaveConfig THEN "half" ELSE last
  /\ UNCHANGED todo /\ AllUnchanged

\* The wizard is through: the command goes on.
WizardSaves ==
  /\ Doing("wizard")
  /\ SaveSecrets
  /\ todo' = Tail(todo)
  /\ last' = "wizard"
  /\ AllUnchanged

\* The wizard is left, or killed at any point: the command ends.
WizardEnds ==
  /\ Doing("wizard") /\ ~At("off")
  /\ wizard' = Off
  /\ todo' = <<>>
  /\ UNCHANGED <<diskVars, last>> /\ AllUnchanged

\* ensure_daemon and connect.
Run ==
  /\ Doing("run") /\ client = "off" /\ exit = NoExit
  /\ daemon' = IF daemon = NoDaemon THEN Load(config) ELSE daemon
  /\ Connect(Spawnable(daemon', secrets))
  /\ UNCHANGED <<wizardVars, upgradeVars, todo, bounds, last>>

\* run_headless and the daemon's side of it.
RunStep ==
  /\ Doing("run")
  /\ ServerStep \/ ClientStep \/ Interrupted
  /\ UNCHANGED <<wizardVars, upgradeVars, shellVars>>

\* The process has exited; what it knew is gone.
RunEnds ==
  /\ Doing("run") /\ client = "off" /\ exit # NoExit
  /\ todo' = <<>>
  /\ exit' = NoExit
  /\ client' = "off" /\ requests' = <<>> /\ lines' = <<>> /\ open' = FALSE
  /\ spawnable' = FALSE /\ attach' = "none" /\ given' = 0 /\ log' = <<>>
  /\ agent' = "none" /\ shown' = {}
  /\ UNCHANGED <<wizardVars, upgradeVars, daemon, bounds, last>>

\* The daemon stops, under a client or not.
DaemonStops ==
  /\ daemon # NoDaemon
  /\ daemon' = NoDaemon
  /\ IF open THEN DaemonGone ELSE UNCHANGED runVars
  /\ UNCHANGED <<wizardVars, upgradeVars, todo, bounds, last>>

Upgrading ==
  /\ Doing("upgrade")
  /\ UpgradeStep \/ Mishap
  /\ todo' = IF stage' = "off" THEN <<>> ELSE todo
  /\ UNCHANGED <<wizardVars, runVars, daemon, bounds, last>>

Next ==
  \/ InvokeInit \/ InvokeAdd \/ InvokeRun \/ InvokeUpgrade
  \/ \E model \in TypedModels \cup {"gpt-4o"} : UseModel(model)
  \/ \E name \in TypedNames \cup {"openai", "chatgpt-oauth"} : RemoveProvider(name)
  \/ ChangeFails
  \/ Wizard \/ WizardSaves \/ WizardEnds
  \/ Run \/ RunStep \/ RunEnds \/ DaemonStops \/ Upgrading

Spec == Init /\ [][Next]_vars

\* The tasks of the server and of the client get their turns.
CommandsAreFair ==
  WF_vars(RunStep /\ ServerStep) /\ WF_vars(RunStep /\ ClientStep)

FairSpec == Spec /\ CommandsAreFair

-------------------------------------------------------------------------------
(* Properties. *)

\* Whatever commands came before, no two endpoints on disk share a name ("Уникальное
\* имя"), and the default model is one that some endpoint lists ("Гарантируем, что
\* default_model есть в списке models эндпоинта") unless the last change was the
\* removal of a provider.
ConfigIsSound ==
  config \notin {NoFile, Torn} =>
    /\ Cardinality(Names(config)) = Len(config.endpoints)
    /\ last # "remove" => Serving(config, config.default) # {}

\* A run after a wizard that went through is not refused for want of a model or a
\* key, when the daemon has the configuration that was saved and no other endpoint
\* lists the same model.
RunAfterWizardWorks ==
  (client # "off" /\ last = "wizard" /\ daemon = config) =>
    spawnable \/ Cardinality(Serving(config, config.default)) > 1
===============================================================================
