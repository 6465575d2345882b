-------------------------- MODULE MC_CodegenBuild --------------------------
EXTENDS CodegenBuild, TLC

CONSTANTS CxxNames, CsharpNames, JavaNames

Names == [cxx |-> CxxNames, csharp |-> CsharpNames, java |-> JavaNames]

\* Requests are interchangeable, and so are the names of one module.
Interchangeable == Permutations(Requests) \cup Permutations(CxxNames)
                     \cup Permutations(CsharpNames) \cup Permutations(JavaNames)
=============================================================================
