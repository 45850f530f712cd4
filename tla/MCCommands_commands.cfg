\* Up to two lines; commands found in one of two directories, in both or in none; programs
\* that write nothing, twice, a full buffer or a zero byte.
CONSTANTS
  NULL = NULL
  NUL = NUL
  Names <- Called
  Bytes <- Written
  Lines <- Inputs
  MaxInput = 2
  Paths <- SearchPaths
  Programs <- Directories
  OldFiles <- Before
  LINES = 2
  BUFF = 3
  PIPE = 3
  Garbage <- Memory
  Junk <- Left
  Usage = {"no_file", "no_fork", "no_pipe"}
SPECIFICATION Spec
INVARIANTS TypeOK OutputsInOrder OwnOutput
PROPERTY Ends
CHECK_DEADLOCK FALSE
