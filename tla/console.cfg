CONSTANTS
  Ids <- MCIds
  Kinds <- MCKinds
  Hooks <- MCHooks
  Keys <- MCKeys
  Values <- MCValues
  Tours <- MCTours
  Roles = {"admin", "operator", "viewer"}
  None = None
  Failed = Failed
  MaxInputs = 4
SPECIFICATION ConsoleSpec
INVARIANTS ConsoleInv SettledIsCurrent LoadingIsNewest OneActAtATime OwnWritesShown NoticeMeansDone SecretsHidden
PROPERTIES ImplementsLatest BusyEnds 
CHECK_DEADLOCK FALSE
