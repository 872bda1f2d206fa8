----------------------------- MODULE MCKVStore -----------------------------
(* KVStore on two keys of two fields, with one spare heap address.          *)
EXTENDS KVStore, TLC

\* Keys, fields, values, addresses and threads are only compared for equality.
Symmetric ==
  Permutations(Key) \cup Permutations(Field) \cup Permutations(Val)
    \cup Permutations(Addr) \cup Permutations(Thread)
=============================================================================
