----------------------------- MODULE NestedMap -----------------------------
(***************************************************************************)
(* What src/KVstore.cpp promises to its callers, with no pointer, no heap  *)
(* and no lock: a map from keys to records, a record being a map from      *)
(* field names to values.  Every operation takes effect in one step.       *)
(* Module KVStore implements this specification.                           *)
(***************************************************************************)
CONSTANTS
  Key,    \* the keys
  Field,  \* the field names
  Val,    \* the values
  Nil     \* "no such field"

VARIABLES
  keys,   \* the keys that exist
  vals    \* vals[k][f]: the value of field f of key k, or Nil

vars == <<keys, vals>>

Update == [Field -> Val \cup {Nil}]     \* the fields a call writes

NoFields == [f \in Field |-> Nil]

Merge(record, new) ==
  [f \in Field |-> IF new[f] = Nil THEN record[f] ELSE new[f]]

TypeOK ==
  /\ keys \in SUBSET Key
  /\ vals \in [Key -> Update]

Init ==
  /\ keys = {}
  /\ vals = [k \in Key |-> NoFields]

\* insert: a new key has an empty record.
Create(k) ==
  /\ k \notin keys
  /\ keys' = keys \cup {k}
  /\ UNCHANGED vals

\* setField and setFields: all the fields of one call change together.
Assign(k, new) ==
  /\ k \in keys
  /\ vals' = [vals EXCEPT ![k] = Merge(vals[k], new)]
  /\ UNCHANGED keys

\* removeField
DropField(k, f) ==
  /\ k \in keys
  /\ vals' = [vals EXCEPT ![k][f] = Nil]
  /\ UNCHANGED keys

\* remove
Drop(k) ==
  /\ k \in keys
  /\ keys' = keys \ {k}
  /\ vals' = [vals EXCEPT ![k] = NoFields]

Next ==
  \E k \in Key :
    \/ Create(k)
    \/ \E new \in Update : Assign(k, new)
    \/ \E f \in Field : DropField(k, f)
    \/ Drop(k)

Spec == Init /\ [][Next]_vars
=============================================================================
