CONSTANT MaxPages = 2
SPECIFICATION Spec
INVARIANTS
  PagesConsumedOnce
  CompleteListingOnSuccess
PROPERTIES
  Terminates
