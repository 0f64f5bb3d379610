SPECIFICATION Spec
CONSTANTS
  Actions = {1, 2}
  Countdown = TRUE
  Labels = {1}
  UserKinds = {"prompt", "bind current", "archive", "recover publish"}
  MaxMessages = 2
  MaxPublishes = 1
  MaxFaults = 1
PROPERTIES
  WaitingHonoured
CHECK_DEADLOCK FALSE
