-------------------------- MODULE MC_ModuleManager --------------------------
EXTENDS ModuleManager

\* Every module reports a language of its own.
OwnLanguage == [m \in 1..NumModules |-> m]
=============================================================================
