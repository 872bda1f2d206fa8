CONSTANTS
  k1 = k1
  k2 = k2
  f1 = f1
  f2 = f2
  v1 = v1
  v2 = v2
  Key = {k1}
  Field = {f1, f2}
  Val = {v1, v2}
  Addr = {a1, a2, a3}
  Conn = {c1, c2}
  Nil = Nil
  Garbage = Garbage
  MaxCommands = 2
  Commands <- OneKey
SPECIFICATION Spec
INVARIANTS
  ReplyIsWhatWasSeen
