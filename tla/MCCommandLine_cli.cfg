SPECIFICATION MCSpec
CONSTANTS
  MaxCuts = 1
  NoFile = NoFile
  Torn = Torn
  NoKey = "nokey"
  NoText = "notext"
  Registry <- MCRegistry
  TypedNames = {"openai", "lab"}
  TypedKeys = {"key"}
  TypedModels = {"gpt-4o", "qwen"}
  Versions <- MCVersions
  Built <- MCBuilt
  MaxUpgrades = 2
  MaxMishaps = 1
  NoBinary = NoBinary
  Bad = Bad
  MaxTexts = 1
  Menus <- MCMenus
  NoDaemon = NoDaemon
  p1 = p1
  p2 = p2
  p3 = p3
  k1 = k1
  None = None
  Proc = {p1, p2, p3}
  Command = {k1}
INVARIANT ProgramRemains
INVARIANT ConfigIsSound
INVARIANT RunAfterWizardWorks
INVARIANT ZeroIsSuccess
INVARIANT DaemonHoldsLock
INVARIANT SocketIsKept
PROPERTY StartAloneServes
PROPERTY EndsWithDaemon
PROPERTY OthersAreKept
CHECK_DEADLOCK FALSE
