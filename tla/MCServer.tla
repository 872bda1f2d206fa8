----------------------------- MODULE MCServer ------------------------------
(* Two clients of one server; the commands are few and chosen to collide.   *)
EXTENDS Server, TLC

CONSTANTS k1, k2, f1, f2, v1, v2

Cmd(type, key, a, b, names) ==
  [type |-> type, key |-> key, names |-> names,
   fields |-> [f \in Field |-> IF f = f1 THEN a ELSE b]]

\* Writes of one field, of both, and of another key, which may take the address
\* of a string just deleted; all fields, and one field.
Colliding ==
  {Cmd("SET_FIELDS", k1, v1, Nil, <<>>),
   Cmd("SET_FIELDS", k1, v2, v1, <<>>),
   Cmd("SET_FIELDS", k2, Nil, v2, <<>>),
   Cmd("GETALL", k1, Nil, Nil, <<>>),
   Cmd("GET_FIELDS", k1, Nil, Nil, <<f2>>)}

\* One key, with a SET_FIELDS of no field, a name asked for twice, and a word
\* that is no command.
OneKey ==
  {r \in Colliding : r.key = k1} \cup
  {Cmd("SET_FIELDS", k1, Nil, Nil, <<>>),
   Cmd("GET_FIELDS", k1, Nil, Nil, <<f1, f1>>),
   Cmd("INVALID", k1, Nil, Nil, <<>>)}

\* Connections and addresses are only compared for equality.
Symmetric == Permutations(Conn) \cup Permutations(Addr)
=============================================================================
