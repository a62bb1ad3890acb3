CONSTANT MaxPages = 2
SPECIFICATION Spec
INVARIANT
  FatalOnError
