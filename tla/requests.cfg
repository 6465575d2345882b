\* Two clients at once, two modules; language 3 has no module.
CONSTANTS
  Clients = {c1, c2}
  NumModules = 2
  Languages = {1, 2, 3}
  LangOf <- OwnLanguage
  CapabilitiesOf <- TwoModules
  Requests <- SomeRequests
  NoModule = NoModule
  Blank = Blank
  Null = Null
SPECIFICATION Spec
INVARIANTS
  TypeOK
  CompoundAllOrNothing
  SandboxHasDetails
  ModuleIsCapable
PROPERTIES
  AnswersOnce
  EveryRequestAnswered
\* All clients answered and all modules given up: nothing is left to do.
CHECK_DEADLOCK FALSE
