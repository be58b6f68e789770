SPECIFICATION Spec
CONSTANTS
  j1 = j1
CHECK_DEADLOCK FALSE
INVARIANTS RunsDelivered RunsOwn
PROPERTIES PairingSound JobsExact UpdateSound
