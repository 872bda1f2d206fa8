CONSTANTS
  k1 = k1
  f1 = f1
  v1 = v1
  v2 = v2
  Key = {k1}
  Field = {f1}
  Val = {v1, v2}
  Addr = {a1, a2}
  Conn = {c1, c2}
  Nil = Nil
  Garbage = Garbage
  MaxCommands = 2
  MaxWire = 1
  Commands <- OneField
SYMMETRY Symmetric
SPECIFICATION ReplySpec
INVARIANTS
  ReplyTypeOK
  SpoiledByOthers
  WireSpoiledByOverwrite
