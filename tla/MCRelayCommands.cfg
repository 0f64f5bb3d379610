SPECIFICATION CommandsSpec
CONSTANTS
  Threads = {1}
  Titles = {1, 2}
  ThreadOf <- MCThreadOf
  Channels = {1, 2, 3, 4}
  Scripts <- MCScripts
  Pollers = {"timer", "api"}
  Operators = {"operator"}
  MaxFaults = 1
CHECK_DEADLOCK FALSE
INVARIANTS
  OneEffectPerCommand
  NoOrphans
  PickupsShare
PROPERTY CommandsPass
