\* Tournaments of two to four players, some of whose programs cannot be executed.
CONSTANTS
  Counts = {2, 3, 4}
  MAX_PLAYERS = 4
  ROUNDS = 1
  StackValues = {0}
  WalkOvers = {1, 2}
  Usage = {"exec_fails"}
SPECIFICATION Spec
INVARIANT NoGameWithoutPlayers
CHECK_DEADLOCK FALSE
