------------------------------ MODULE KVStore ------------------------------
(***************************************************************************)
(* KVStore (src/KVstore.cpp) and the Value records it keeps                *)
(* (src/Value.cpp).  A record maps a field name to a POINTER to a string   *)
(* on the heap; assigning a field deletes the old string and allocates a   *)
(* new one.  The getters return the pointers, not the strings, and release *)
(* the mutex before the caller follows them, so the model keeps the heap:  *)
(* which addresses hold a live string, and what the string says.           *)
(*                                                                         *)
(* Every method runs under one std::mutex.  A method whose intermediate    *)
(* states nobody can observe is one action that needs the mutex free.      *)
(* setFields is not such a method: between two iterations of its loop the  *)
(* heap has already changed, and a thread that holds a pointer looks at    *)
(* the heap without the mutex.  So setFields takes the mutex in one step   *)
(* and writes each field in a step of its own.                             *)
(***************************************************************************)
EXTENDS FiniteSets, Naturals

CONSTANTS
  Key, Field, Val,
  Addr,       \* the heap addresses a std::string can be allocated at
  Thread,     \* the threads that call the store
  MaxLeaked,  \* bound: strings that remove() may leave unreachable
  Nil         \* no pointer, no value, no thread

ASSUME NilAssumption == Nil \notin Val /\ Nil \notin Addr /\ Nil \notin Thread
ASSUME MaxLeakedAssumption == MaxLeaked \in Nat

VARIABLES
  present,  \* the keys of KVStore::store
  fields,   \* fields[k][f]: the pointer in Value::fields, Nil where there is none
  heap,     \* heap[a]: the string alive at address a, Nil when a is free
  mutex,    \* the thread inside setFields, or Nil
  todo      \* todo[k][f]: what that setFields has still to write, or Nil

vars == <<present, fields, heap, mutex, todo>>

NoFields == [f \in Field |-> Nil]
Update   == [Field -> Val \cup {Nil}]

TypeOK ==
  /\ present \in SUBSET Key
  /\ fields \in [Key -> [Field -> Addr \cup {Nil}]]
  /\ heap \in [Addr -> Val \cup {Nil}]
  /\ mutex \in Thread \cup {Nil}
  /\ todo \in [Key -> Update]

Init ==
  /\ present = {}
  /\ fields = [k \in Key |-> NoFields]
  /\ heap = [a \in Addr |-> Nil]
  /\ mutex = Nil
  /\ todo = [k \in Key |-> NoFields]

-----------------------------------------------------------------------------
(* Value *)

Free(h, p) == [a \in Addr |-> IF a = p THEN Nil ELSE h[a]]

\* Mutant of WriteString: the old string is not deleted.
WriteStringNoDelete(k, f, v) ==
  \E a \in Addr :
    /\ heap[a] = Nil
    /\ heap' = [heap EXCEPT ![a] = v]
    /\ fields' = [fields EXCEPT ![k][f] = a]

\* Mutant of WriteString: the field gets the caller's string, not an address.
WriteStringInPlace(k, f, v) ==
  /\ heap' = Free(heap, fields[k][f])
  /\ fields' = [fields EXCEPT ![k][f] = v]

\* Value::setField: delete the string the field had, if any, then allocate
\* the new one; the allocator may hand out the address just freed.
WriteString(k, f, v) ==
  \E a \in Addr :
    /\ Free(heap, fields[k][f])[a] = Nil
    /\ heap' = [Free(heap, fields[k][f]) EXCEPT ![a] = v]
    /\ fields' = [fields EXCEPT ![k][f] = a]

-----------------------------------------------------------------------------
(* The methods that change the store *)

\* Mutant of Insert: the record starts as a copy of another key's.
InsertCopy(k) ==
  /\ mutex = Nil
  /\ k \notin present
  /\ present' = present \cup {k}
  /\ \E j \in Key : fields' = [fields EXCEPT ![k] = fields[j]]
  /\ UNCHANGED <<heap, mutex, todo>>

\* Mutant of Insert: a key that exists starts anew.
InsertAnew(k) ==
  /\ mutex = Nil
  /\ present' = present \cup {k}
  /\ fields' = [fields EXCEPT ![k] = NoFields]
  /\ heap' = [a \in Addr |-> IF \E f \in Field : fields[k][f] = a THEN Nil
                                                             ELSE heap[a]]
  /\ UNCHANGED <<mutex, todo>>

Insert(k) ==
  /\ mutex = Nil
  /\ k \notin present
  /\ present' = present \cup {k}
  /\ fields' = [fields EXCEPT ![k] = NoFields]
  /\ UNCHANGED <<heap, mutex, todo>>

SetField(k, f, v) ==
  /\ mutex = Nil
  /\ k \in present
  /\ WriteString(k, f, v)
  /\ UNCHANGED <<present, mutex, todo>>

\* setFields: lock and find; the loop's iterations follow.
BeginSetFields(t, k, new) ==
  /\ mutex = Nil
  /\ k \in present
  /\ new # NoFields
  /\ mutex' = t
  /\ todo' = [todo EXCEPT ![k] = new]
  /\ UNCHANGED <<present, fields, heap>>

\* Mutant of SetNextField: the loop does not go on to the next field.
SetNextFieldRepeats(t, k, f) ==
  /\ mutex = t
  /\ todo[k][f] # Nil
  /\ WriteString(k, f, todo[k][f])
  /\ UNCHANGED <<present, mutex, todo>>

\* One iteration, in the unspecified order of an unordered_map; the mutex is
\* released when the last field is written.
SetNextField(t, k, f) ==
  /\ mutex = t
  /\ todo[k][f] # Nil
  /\ WriteString(k, f, todo[k][f])
  /\ todo' = [todo EXCEPT ![k][f] = Nil]
  /\ mutex' = IF todo'[k] = NoFields THEN Nil ELSE t
  /\ UNCHANGED present

\* Mutant of RemoveField: the string is deleted, the field stays.
RemoveFieldKeeps(k, f) ==
  /\ mutex = Nil
  /\ k \in present
  /\ fields[k][f] # Nil
  /\ heap' = Free(heap, fields[k][f])
  /\ UNCHANGED <<present, fields, mutex, todo>>

RemoveField(k, f) ==
  /\ mutex = Nil
  /\ k \in present
  /\ fields[k][f] # Nil
  /\ heap' = Free(heap, fields[k][f])
  /\ fields' = [fields EXCEPT ![k][f] = Nil]
  /\ UNCHANGED <<present, mutex, todo>>

\* The strings that are alive and that no record points to.
Reachable == {fields[k][f] : k \in Key, f \in Field} \ {Nil}
Live      == {a \in Addr : heap[a] # Nil}
Leaked    == Live \ Reachable

\* Mutant of Remove: the key goes, its record stays.
RemoveKeyOnly(k) ==
  /\ mutex = Nil
  /\ k \in present
  /\ present' = present \ {k}
  /\ UNCHANGED <<fields, heap, mutex, todo>>

\* remove: Value has no destructor, so the strings of the record stay.
Remove(k) ==
  /\ mutex = Nil
  /\ k \in present
  /\ present' = present \ {k}
  /\ fields' = [fields EXCEPT ![k] = NoFields]
  /\ UNCHANGED <<heap, mutex, todo>>
  /\ Cardinality(Leaked') <= MaxLeaked

-----------------------------------------------------------------------------
(* The getters.  Each runs under the mutex: a caller evaluates it in a step *)
(* that needs mutex = Nil, and keeps the pointers it returns.               *)

GetField(k, f) == IF k \in present THEN fields[k][f] ELSE Nil

GetFields(k) == [f \in Field |-> GetField(k, f)]

GetSelectedFields(k, names) ==
  [f \in Field |-> IF f \in names THEN GetField(k, f) ELSE Nil]

-----------------------------------------------------------------------------
Next ==
  \/ \E k \in Key : Insert(k) \/ Remove(k)
  \/ \E k \in Key, f \in Field :
       \/ RemoveField(k, f)
       \/ \E v \in Val : SetField(k, f, v)
       \/ \E t \in Thread : SetNextField(t, k, f)
  \/ \E t \in Thread, k \in Key, new \in Update : BeginSetFields(t, k, new)

Spec == Init /\ [][Next]_vars

-----------------------------------------------------------------------------
(* Properties *)

\* A record never points to a freed string: Value::setField and
\* Value::removeField replace or erase the pointer they delete.
NoDanglingField ==
  \A k \in Key, f \in Field : fields[k][f] # Nil => heap[fields[k][f]] # Nil

\* No two fields, of one record or of two, share a string: otherwise the
\* delete of one field would destroy the other (Value.cpp:5 and :24).
NoSharedString ==
  \A k1, k2 \in Key, f1, f2 \in Field :
    /\ fields[k1][f1] # Nil
    /\ fields[k1][f1] = fields[k2][f2]
    => k1 = k2 /\ f1 = f2

\* Fields belong to keys that exist: insert starts a key with an empty record
\* even if the key existed, was written and was removed before.
NoOrphanField ==
  \A k \in Key : k \notin present => fields[k] = NoFields

\* The mutex is held exactly while a setFields call has fields to write, of
\* one key that exists.
LockCoversUpdate ==
  /\ mutex = Nil <=> \A k \in Key : todo[k] = NoFields
  /\ \A k \in Key : todo[k] # NoFields => k \in present
  /\ \A j, k \in Key : todo[j] # NoFields /\ todo[k] # NoFields => j = k

StoreInv ==
  /\ TypeOK
  /\ NoDanglingField
  /\ NoSharedString
  /\ NoOrphanField
  /\ LockCoversUpdate

\* A string becomes unreachable without being deleted only when remove()
\* erases a whole key; assigning or removing a field never leaks.
LeakOnlyByRemove ==
  [][Leaked' # Leaked => \E k \in present : k \notin present']_vars

-----------------------------------------------------------------------------
(* The store implements NestedMap.  A setFields call takes effect when it   *)
(* gets the mutex: what it has still to write counts as written.            *)

ViewField(k, f) ==
  IF todo[k][f] # Nil THEN todo[k][f]
  ELSE IF GetField(k, f) = Nil THEN Nil
  ELSE heap[GetField(k, f)]

View == [k \in Key |-> [f \in Field |-> ViewField(k, f)]]

Abstract == INSTANCE NestedMap WITH keys <- present, vals <- View

\* Callers that go through the mutex see a map of maps whose operations are
\* atomic, however the heap reuses addresses.
ImplementsNestedMap == Abstract!Spec
=============================================================================
