\* Two modules, each with a language of its own.
CONSTANTS
  NumModules = 2
  Languages = {1, 2}
  LangOf <- OwnLanguage
  NoModule = NoModule
SPECIFICATION Spec
PROPERTIES
  CrashIsNoticed
CHECK_DEADLOCK FALSE
