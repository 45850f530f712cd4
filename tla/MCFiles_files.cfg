\* Two processes with one file of two bytes; no page is taken while a freed object
\* is still in use.
CONSTANTS
  Proc = {p1, p2}
  Init0 = p1
  Obj = {o1, o2}
  NULL = NULL
  MAX_OPEN_FILES = 4
  StdStreams = {1}
  Names = {"a"}
  NUM_FILES = 2
  FILE_SIZE = 2
  BASE = 8
  WIDTH = 64
  FlagSets <- Opening
  ModeSets <- Access
  Data = {1}
  Counts = {1}
  Offsets <- Seeks
  NewFds = {1}
  MaxOver = 1
  Usage = {}
SYMMETRY Pages
VIEW View
SPECIFICATION Spec
INVARIANTS TypeOK InodesInBounds
PROPERTY ImplementsFlatFiles
CHECK_DEADLOCK FALSE
