\* Each kernel with up to three processes beside the swapper; the first makes every
\* call, the others fork, sleep and exit.
CONSTANTS
  MAX_PROCESSES = 4
  Kernels = {"A2", "A3", "A4"}
  SleepTicks = {2}
  ByOthers = {"FORK", "SLEEP", "EXIT"}
SPECIFICATION Spec
INVARIANTS TypeOK OneRuns CallsArrive
PROPERTIES ImplementsOwnRegisters EveryoneRuns
CHECK_DEADLOCK FALSE
