SPECIFICATION Spec
INVARIANTS
  HearsResponse
