CONSTANTS
  MAX_PROCESSES = 4
  MAX_OPEN_FILES = 4
  MAX_MEMBERS = 3
  BufferSlots = 2
  MaxQueues = 1
  Usage = {}
SPECIFICATION Spec
PROPERTIES
  ImplementsMailboxes
CHECK_DEADLOCK FALSE
