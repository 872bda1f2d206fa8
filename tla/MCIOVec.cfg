CONSTANTS
  Conn = {c1, c2}
  MaxValues = 1
  MaxReplies = 3
  MaxWire = 1
  ZeroCopy = TRUE
  Newline = Newline
  Junk = Junk
SPECIFICATION Spec
SYMMETRY Symmetry
INVARIANTS
  TypeOK
  AloneSendsItsReply
