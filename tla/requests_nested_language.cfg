\* One client; a compound request whose second nested request names language 2.
CONSTANTS
  Clients = {c1}
  NumModules = 2
  Languages = {1, 2, 3}
  LangOf <- OwnLanguage
  CapabilitiesOf <- TwoModules
  Requests <- MixedLanguages
  NoModule = NoModule
  Blank = Blank
  Null = Null
SPECIFICATION Safety
INVARIANTS
  NestedRunsOnItsLanguage
CHECK_DEADLOCK FALSE
