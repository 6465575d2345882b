\* Two modules, each with a language of its own.
CONSTANTS
  NumModules = 2
  Languages = {1, 2}
  LangOf <- OwnLanguage
  NoModule = NoModule
SPECIFICATION Spec
INVARIANTS
  TypeOK
  NeverStillRunning
  RegisteredIsCallable
  WatchedOutsideQueryWindow
  PortExclusive
  OrphanOnlyAfterFailedQuery
PROPERTIES
  StartsDoNotOverlap
  KeepsLifeCycle
  LoaderFinishes
  StartSettles
  LifeCycleAdvances
\* Once every module is given up, the idle core waits for requests.
CHECK_DEADLOCK FALSE
