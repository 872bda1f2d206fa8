----------------------------- MODULE MCZeroCopy -----------------------------
(* Two clients that overwrite and read one field.                           *)
EXTENDS ZeroCopy, TLC

CONSTANTS k1, f1, v1, v2

Cmd(type, value, names) ==
  [type |-> type, key |-> k1, fields |-> [f \in Field |-> value], names |-> names]

\* The lookup with a name twice is an error whose reply has a value in it.
OneField ==
  {Cmd("SET_FIELDS", v1, <<>>), Cmd("SET_FIELDS", v2, <<>>),
   Cmd("GETALL", Nil, <<>>), Cmd("GET_FIELDS", Nil, <<f1, f1>>)}

\* Connections and addresses are only compared for equality.
Symmetric == Permutations(Conn) \cup Permutations(Addr)
=============================================================================
