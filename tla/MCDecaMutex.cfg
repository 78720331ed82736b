SPECIFICATION Spec
CONSTANTS
  Event <- MCEvent
INVARIANTS
  SectionExcludesIsr
