--------------------------- MODULE MC_ServerCore ---------------------------
EXTENDS ServerCore

OwnLanguage == [m \in 1..NumModules |-> m]

\* The second module has no AST support, as in the matrix of the README.
TwoModules == [m \in 1..NumModules |->
                 IF m = 1 THEN Capabilities ELSE {"IO_MATCHING", "UNIT_TESTING"}]

Simple(name, lang)      == [rpc |-> name, language |-> lang, nested |-> <<>>]
Compound(common, langs) == [rpc |-> "PerformCompoundIOMatch", language |-> common,
                            nested |-> langs]

\* Each RPC for a language that may support it; a language without a module (3); and
\* compound requests with, without and with several languages, empty and without common.
SomeRequests ==
  {Simple(name, 1) : name \in ModuleRpcs \ {"PerformCompoundIOMatch"}}
    \cup {Simple("GenerateAst", 2), Simple("PerformIOMatch", 3),
          Simple("InvokeCustomSandbox", Blank), Simple("ListCapabilities", Blank)}
    \cup {Compound(1, <<Blank, Blank>>), Compound(Blank, <<1, Blank>>),
          Compound(Null, <<1>>), Compound(1, <<>>), Compound(Blank, <<>>)}

MixedLanguages == {Compound(Blank, <<1, 2>>)}
=============================================================================
