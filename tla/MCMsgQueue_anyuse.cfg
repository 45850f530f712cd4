CONSTANTS
  MAX_PROCESSES = 4
  MAX_OPEN_FILES = 4
  MAX_MEMBERS = 2
  BufferSlots = 2
  MaxQueues = 1
  Usage = {"close", "stranger", "close_unopened", "exit", "close_file", "pid_zero", "fill_buffer", "fill_table"}
SPECIFICATION Spec
INVARIANTS
  TypeOK
  MembersLive
  MembersDistinct
  MembersPacked
  MailToLiving
CHECK_DEADLOCK FALSE
