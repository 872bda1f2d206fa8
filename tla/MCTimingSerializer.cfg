CONSTANTS
  Conn = {c1, c2}
  N = 3
  Lens = {1, 128}
  KeyLen = 3
  MaxReplies = 3
  MaxStarts = 2
  Header = Header
  Junk = Junk
  MainLine = MainLine
SPECIFICATION Spec
SYMMETRY Symmetry
CHECK_DEADLOCK FALSE
INVARIANTS
  TypeOK
  FitsExactly
  MembersAsRead
  LoneRowsWhole
  FileIsHeaderAndRows
  LoggedAfterRow
  LinesInReadOrder
VIEW View
