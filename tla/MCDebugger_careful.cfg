CONSTANTS
  MAX_PROCESSES = 3
  Funcs = {5, 9}
  Main = 1
  Text <- MCText
  MAX_BREAKPOINTS = 2
  MAX_BACKTRACE = 4
  MaxDepth = 2
  MaxNum = 3
  SleepTicks = {1, 2}
  Usage = {}
SPECIFICATION Spec
INVARIANTS
  TypeOK
  PatchesAccounted
  ListOrdered
  BacktraceCurrent
  NeverDerails
PROPERTIES
  NumbersNeverReused
  WaitReports
  ImplementsSession
  SleepersWake
CHECK_DEADLOCK FALSE
