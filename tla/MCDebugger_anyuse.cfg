CONSTANTS
  MAX_PROCESSES = 3
  Funcs = {5, 9}
  Main = 1
  Text <- MCText
  MAX_BREAKPOINTS = 1
  MAX_BACKTRACE = 2
  MaxDepth = 2
  MaxNum = 2
  SleepTicks = {1}
  Usage = {"set_at_stop", "remove_at_stop", "enable_at_stop", "disable_at_stop",
           "set_when_full", "no_memory", "remove_when_empty", "exit_when_empty",
           "continue_after_exit", "search_before_fork"}
SPECIFICATION Spec
INVARIANTS
  ControlAlternates
CHECK_DEADLOCK FALSE
