CONSTANTS
  Key = {k1, k2}
  Field = {f1, f2}
  Val = {v1, v2}
  Addr = {a1, a2, a3, a4, a5}
  Thread = {t1, t2}
  MaxLeaked = 1
  Nil = Nil
SYMMETRY Symmetric
SPECIFICATION Spec
INVARIANTS
  TypeOK
  NoDanglingField
  NoSharedString
  NoOrphanField
PROPERTIES
  LeakOnlyByRemove
  ImplementsNestedMap
