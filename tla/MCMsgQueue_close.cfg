CONSTANTS
  MAX_PROCESSES = 4
  MAX_OPEN_FILES = 4
  MAX_MEMBERS = 3
  BufferSlots = 3
  MaxQueues = 1
  Usage = {"close"}
SPECIFICATION Spec
PROPERTIES
  CloseLeaves
CHECK_DEADLOCK FALSE
