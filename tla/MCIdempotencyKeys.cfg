SPECIFICATION Spec
CONSTANTS
  Tasks = {main, t1}
  Root = main
  Keys = {k1, k2}
  BadKeys = {bad}
  Empty = Empty
  None = None
  MaxDepth = 2
INVARIANTS TypeOK
PROPERTIES ImplementsLexical
CHECK_DEADLOCK FALSE
