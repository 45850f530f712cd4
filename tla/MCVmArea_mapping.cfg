\* Five pages after the dummy, in three huge pages; careful use.
CONSTANTS
  Page = 4
  Huge = 8
  START = 8
  END = 32
  Addrs = {0, 16, 21, 24}
  Lengths = {3, 8}
  Usage = {}
SPECIFICATION Spec
INVARIANTS TypeOK ListSound TablesAgree NeverBreaks
PROPERTY ImplementsPageMap
CHECK_DEADLOCK FALSE
