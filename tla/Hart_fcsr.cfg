SPECIFICATION Spec
CONSTANTS
  Interrupts = {9}
  StatusWrites <- AllStatus
PROPERTIES
  TrapsArePrecise
