SPECIFICATION Spec
CONSTANTS
  WordBytes = 2
  ByteBits = 4
  Signatures <- WideSignatures
  ArgLists <- MCArgLists
INVARIANTS DecodesBack
CHECK_DEADLOCK FALSE
