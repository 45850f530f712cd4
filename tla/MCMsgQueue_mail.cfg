CONSTANTS
  MAX_PROCESSES = 4
  MAX_OPEN_FILES = 5
  MAX_MEMBERS = 3
  BufferSlots = 2
  MaxQueues = 1
  Usage = {}
SPECIFICATION Spec
INVARIANTS MembersHoldDescriptors
PROPERTIES
  DeliversMail
VIEW View
CHECK_DEADLOCK FALSE
