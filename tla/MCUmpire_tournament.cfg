\* Matches of two players, tournaments of one to four; the slots of points start
\* with zeros; players may fail to start or quit at any moment.
CONSTANTS
  Counts = {2, 3, 4, 12}
  MAX_PLAYERS = 4
  ROUNDS = 2
  StackValues = {0}
  WalkOvers = {1, 2}
  Usage = {"exec_fails", "quit", "no_newline", "no_resources"}
SPECIFICATION Spec
INVARIANTS TypeOK FreshMoves
PROPERTIES ImplementsKnockout Finishes PlayersEnd
CHECK_DEADLOCK FALSE
