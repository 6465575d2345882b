\* The model of codegen.cfg.
CONSTANTS
  Requests = {r1, r2, r3}
  CxxNames = {x1, x2}
  CsharpNames = {c1, c2}
  JavaNames = {j1, j2}
  NamesOf <- Names
  Nothing = Nothing
  Partial = Partial
SPECIFICATION Spec
SYMMETRY Interchangeable
INVARIANTS
  JavaCleansUp
\* Every request has its answer: nothing is left to do.
CHECK_DEADLOCK FALSE
