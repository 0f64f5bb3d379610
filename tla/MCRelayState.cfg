SPECIFICATION Spec
CONSTANTS
  Ops = {a, b, c}
  Boot = boot
INVARIANTS
  FilesRecoverable
PROPERTIES
  ImplementsRegister
  EveryRequestAnswered
CHECK_DEADLOCK FALSE
