--------------------------- MODULE KVStoreProofs ---------------------------
(* Proofs about module KVStore, for every value of its constants.           *)
EXTENDS KVStore, TLAPS

(* Freeing an address frees that address and no other. *)
LEMMA FreeFacts ==
  ASSUME NEW h \in [Addr -> Val \cup {Nil}], NEW p \in Addr \cup {Nil}
  PROVE  /\ Free(h, p) \in [Addr -> Val \cup {Nil}]
         /\ \A a \in Addr : a # p => Free(h, p)[a] = h[a]
         /\ \A a \in Addr : a = p => Free(h, p)[a] = Nil
BY DEF Free

(* What an assignment of v to field f of key k does when the allocator      *)
(* answers address a.                                                       *)
WroteAt(k, f, v, a) ==
  /\ fields' = [fields EXCEPT ![k][f] = a]
  /\ heap' \in [Addr -> Val \cup {Nil}]
  /\ heap'[a] = v
  /\ a = fields[k][f] \/ heap[a] = Nil
  /\ \A b \in Addr : b # a /\ b = fields[k][f] => heap'[b] = Nil
  /\ \A b \in Addr : b # a /\ b # fields[k][f] => heap'[b] = heap[b]
  /\ \A j \in Key, g \in Field :
       <<j, g>> # <<k, f>> /\ fields[j][g] # Nil
         => fields[j][g] # a /\ fields[j][g] # fields[k][f]

(* Assigning a field: the field points to a string with the new value, the  *)
(* address of that string belonged to nobody else, and every string but the *)
(* field's old one is untouched.                                            *)
LEMMA WriteStringFacts ==
  ASSUME TypeOK, NoDanglingField, NoSharedString,
         NEW k \in Key, NEW f \in Field, NEW v \in Val, WriteString(k, f, v)
  PROVE  \E a \in Addr : WroteAt(k, f, v, a)
<1>1. fields[k][f] \in Addr \cup {Nil}
  BY DEF TypeOK
<1> DEFINE h == Free(heap, fields[k][f])
<1>2. PICK a \in Addr :
        /\ h[a] = Nil
        /\ heap' = [h EXCEPT ![a] = v]
        /\ fields' = [fields EXCEPT ![k][f] = a]
  BY DEF WriteString
<1>3. /\ h \in [Addr -> Val \cup {Nil}]
      /\ \A b \in Addr : b # fields[k][f] => h[b] = heap[b]
      /\ \A b \in Addr : b = fields[k][f] => h[b] = Nil
  BY <1>1, FreeFacts DEF TypeOK
<1>4. ASSUME NEW j \in Key, NEW g \in Field,
             <<j, g>> # <<k, f>>, fields[j][g] # Nil
      PROVE  fields[j][g] # a /\ fields[j][g] # fields[k][f]
  <2>1. fields[j][g] \in Addr /\ heap[fields[j][g]] # Nil
    BY <1>4 DEF TypeOK, NoDanglingField
  <2>2. fields[j][g] # fields[k][f]
    BY <1>4 DEF NoSharedString
  <2>3. h[fields[j][g]] # Nil
    BY <2>1, <2>2, <1>3
  <2>4. QED
    BY <2>2, <2>3, <1>2
<1>5. heap' \in [Addr -> Val \cup {Nil}] /\ heap'[a] = v
  BY <1>2, <1>3
<1>6. /\ a = fields[k][f] \/ heap[a] = Nil
      /\ \A b \in Addr : b # a /\ b = fields[k][f] => heap'[b] = Nil
      /\ \A b \in Addr : b # a /\ b # fields[k][f] => heap'[b] = heap[b]
  BY <1>2, <1>3
<1>7. WroteAt(k, f, v, a)
  BY <1>2, <1>4, <1>5, <1>6 DEF WroteAt
<1>8. QED
  BY <1>7

-----------------------------------------------------------------------------
(* The store is empty and unlocked at the start. *)
LEMMA InitStoreInv == Init => StoreInv
BY NilAssumption
   DEF Init, StoreInv, TypeOK, NoDanglingField, NoSharedString, NoOrphanField,
       LockCoversUpdate, NoFields, Update

(* Assigning one field of a key that exists keeps the heap sound. *)
LEMMA WriteKeepsHeap ==
  ASSUME StoreInv, NEW k \in Key, NEW f \in Field, NEW v \in Val,
         k \in present, WriteString(k, f, v), UNCHANGED present
  PROVE  /\ fields' \in [Key -> [Field -> Addr \cup {Nil}]]
         /\ heap' \in [Addr -> Val \cup {Nil}]
         /\ NoDanglingField'
         /\ NoSharedString'
         /\ NoOrphanField'
<1>1. PICK a \in Addr : WroteAt(k, f, v, a)
  BY WriteStringFacts DEF StoreInv
<1>2. fields' \in [Key -> [Field -> Addr \cup {Nil}]]
  BY <1>1 DEF WroteAt, StoreInv, TypeOK
<1>3. /\ fields'[k][f] = a
      /\ \A j \in Key, g \in Field :
           <<j, g>> # <<k, f>> => fields'[j][g] = fields[j][g]
  BY <1>1 DEF WroteAt, StoreInv, TypeOK
<1>4. NoDanglingField'
  <2> SUFFICES ASSUME NEW j \in Key, NEW g \in Field, fields'[j][g] # Nil
               PROVE  heap'[fields'[j][g]] # Nil
    BY DEF NoDanglingField
  <2>1. CASE <<j, g>> = <<k, f>>
    BY <2>1, <1>1, <1>3, NilAssumption DEF WroteAt
  <2>2. CASE <<j, g>> # <<k, f>>
    BY <2>2, <1>1, <1>3 DEF WroteAt, StoreInv, TypeOK, NoDanglingField
  <2>3. QED
    BY <2>1, <2>2
<1>5. NoSharedString'
  <2> SUFFICES ASSUME NEW k1 \in Key, NEW k2 \in Key,
                      NEW f1 \in Field, NEW f2 \in Field,
                      fields'[k1][f1] # Nil, fields'[k1][f1] = fields'[k2][f2]
               PROVE  k1 = k2 /\ f1 = f2
    BY DEF NoSharedString
  <2>1. CASE <<k1, f1>> = <<k, f>>
    BY <2>1, <1>1, <1>3 DEF WroteAt
  <2>2. CASE <<k2, f2>> = <<k, f>>
    BY <2>2, <1>1, <1>3 DEF WroteAt
  <2>3. CASE <<k1, f1>> # <<k, f>> /\ <<k2, f2>> # <<k, f>>
    BY <2>3, <1>3 DEF StoreInv, NoSharedString
  <2>4. QED
    BY <2>1, <2>2, <2>3
<1>6. NoOrphanField'
  BY <1>1 DEF WroteAt, StoreInv, TypeOK, NoOrphanField
<1>7. QED
  BY <1>1, <1>2, <1>4, <1>5, <1>6 DEF WroteAt

(* Every step of the store keeps its invariant. *)
LEMMA NextStoreInv == StoreInv /\ [Next]_vars => StoreInv'
<1> SUFFICES ASSUME StoreInv, [Next]_vars PROVE StoreInv'
  OBVIOUS
<1> USE NilAssumption DEF StoreInv
<1>1. ASSUME NEW k \in Key, Insert(k) PROVE StoreInv'
  <2>1. TypeOK' /\ NoOrphanField' /\ LockCoversUpdate'
    BY <1>1 DEF Insert, TypeOK, NoOrphanField, LockCoversUpdate, NoFields
  <2>2. \A j \in Key, g \in Field : fields'[j][g] # Nil => fields'[j][g] = fields[j][g]
    BY <1>1 DEF Insert, TypeOK, NoFields
  <2>3. NoDanglingField' /\ NoSharedString'
    BY <2>2, <1>1 DEF Insert, NoDanglingField, NoSharedString
  <2>4. QED
    BY <2>1, <2>3
<1>2. ASSUME NEW k \in Key, Remove(k) PROVE StoreInv'
  <2>1. TypeOK' /\ NoOrphanField' /\ LockCoversUpdate'
    BY <1>2 DEF Remove, TypeOK, NoOrphanField, LockCoversUpdate, NoFields
  <2>2. \A j \in Key, g \in Field : fields'[j][g] # Nil => fields'[j][g] = fields[j][g]
    BY <1>2 DEF Remove, TypeOK, NoFields
  <2>3. NoDanglingField' /\ NoSharedString'
    BY <2>2, <1>2 DEF Remove, NoDanglingField, NoSharedString
  <2>4. QED
    BY <2>1, <2>3
<1>3. ASSUME NEW k \in Key, NEW f \in Field, RemoveField(k, f) PROVE StoreInv'
  <2>1. fields[k][f] \in Addr
    BY <1>3 DEF RemoveField, TypeOK
  <2>2. /\ heap' \in [Addr -> Val \cup {Nil}]
        /\ \A a \in Addr : a # fields[k][f] => heap'[a] = heap[a]
    BY <1>3, <2>1, FreeFacts DEF RemoveField, TypeOK
  <2>3. /\ fields' \in [Key -> [Field -> Addr \cup {Nil}]]
        /\ fields'[k][f] = Nil
        /\ \A j \in Key, g \in Field :
             <<j, g>> # <<k, f>> => fields'[j][g] = fields[j][g]
    BY <1>3 DEF RemoveField, TypeOK
  <2>4. TypeOK' /\ NoOrphanField' /\ LockCoversUpdate'
    BY <1>3, <2>2, <2>3 DEF RemoveField, TypeOK, NoOrphanField, LockCoversUpdate, NoFields
  <2>5. NoSharedString'
    BY <2>3 DEF NoSharedString
  <2>6. NoDanglingField'
    BY <2>1, <2>2, <2>3, <1>3 DEF RemoveField, NoDanglingField, NoSharedString, TypeOK
  <2>7. QED
    BY <2>4, <2>5, <2>6
<1>4. ASSUME NEW k \in Key, NEW f \in Field, NEW v \in Val, SetField(k, f, v)
      PROVE  StoreInv'
  <2>1. /\ NoDanglingField' /\ NoSharedString' /\ NoOrphanField'
        /\ fields' \in [Key -> [Field -> Addr \cup {Nil}]]
        /\ heap' \in [Addr -> Val \cup {Nil}]
    BY <1>4, WriteKeepsHeap DEF SetField
  <2>2. TypeOK' /\ LockCoversUpdate'
    BY <2>1, <1>4 DEF SetField, TypeOK, LockCoversUpdate
  <2>3. QED
    BY <2>1, <2>2
<1>5. ASSUME NEW t \in Thread, NEW k \in Key, NEW f \in Field, SetNextField(t, k, f)
      PROVE  StoreInv'
  <2>1. todo[k][f] \in Val /\ k \in present
    BY <1>5 DEF SetNextField, TypeOK, Update, LockCoversUpdate, NoFields
  <2>2. /\ NoDanglingField' /\ NoSharedString' /\ NoOrphanField'
        /\ fields' \in [Key -> [Field -> Addr \cup {Nil}]]
        /\ heap' \in [Addr -> Val \cup {Nil}]
    BY <1>5, <2>1, WriteKeepsHeap DEF SetNextField
  <2>3. /\ todo' \in [Key -> Update]
        /\ \A j \in Key : j # k => todo'[j] = todo[j]
    BY <1>5 DEF SetNextField, TypeOK, Update
  <2>4. TypeOK'
    BY <2>2, <2>3, <1>5 DEF SetNextField, TypeOK
  <2>5. todo[k] # NoFields
    BY <1>5 DEF SetNextField, NoFields
  <2>6. \A j \in Key : j # k => todo'[j] = NoFields
    BY <2>3, <2>5 DEF LockCoversUpdate
  <2>7. LockCoversUpdate'
    BY <2>1, <2>6, <1>5 DEF SetNextField, LockCoversUpdate
  <2>8. QED
    BY <2>2, <2>4, <2>7
<1>6. ASSUME NEW t \in Thread, NEW k \in Key, NEW new \in Update,
             BeginSetFields(t, k, new)
      PROVE  StoreInv'
  <2>1. TypeOK' /\ LockCoversUpdate'
    BY <1>6 DEF BeginSetFields, TypeOK, LockCoversUpdate
  <2>2. NoDanglingField' /\ NoSharedString' /\ NoOrphanField'
    BY <1>6 DEF BeginSetFields, NoDanglingField, NoSharedString, NoOrphanField
  <2>3. QED
    BY <2>1, <2>2
<1>7. CASE UNCHANGED vars
  BY <1>7 DEF vars, TypeOK, NoDanglingField, NoSharedString, NoOrphanField, LockCoversUpdate
<1>8. QED
  BY <1>1, <1>2, <1>3, <1>4, <1>5, <1>6, <1>7 DEF Next

(* The heap that KVStore and Value keep is always sound: types, no dangling *)
(* pointer in a record, no string with two owners, no field without a key,  *)
(* and the mutex held exactly during a setFields.                           *)
THEOREM StoreInvariant == Spec => []StoreInv
BY InitStoreInv, NextStoreInv, PTL DEF Spec

\* The members of KVStore and Value keep their types.
THEOREM StoreTypes == Spec => []TypeOK
<1>1. StoreInv => TypeOK
  BY DEF StoreInv
<1>2. QED
  BY <1>1, StoreInvariant, PTL

\* No field points to a deleted string (Value::setField, Value::removeField).
THEOREM NothingDangles == Spec => []NoDanglingField
<1>1. StoreInv => NoDanglingField
  BY DEF StoreInv
<1>2. QED
  BY <1>1, StoreInvariant, PTL

\* No string belongs to two fields, so the delete of one destroys no other
\* (Value::setField).
THEOREM NothingShared == Spec => []NoSharedString
<1>1. StoreInv => NoSharedString
  BY DEF StoreInv
<1>2. QED
  BY <1>1, StoreInvariant, PTL

\* A key that is inserted starts without fields, whatever happened to it before
\* (KVStore::insert, KVStore::remove).
THEOREM NothingOrphaned == Spec => []NoOrphanField
<1>1. StoreInv => NoOrphanField
  BY DEF StoreInv
<1>2. QED
  BY <1>1, StoreInvariant, PTL

\* The mutex is held exactly over a setFields that is not finished
\* (KVStore::setFields).
THEOREM UpdateLocked == Spec => []LockCoversUpdate
<1>1. StoreInv => LockCoversUpdate
  BY DEF StoreInv
<1>2. QED
  BY <1>1, StoreInvariant, PTL

-----------------------------------------------------------------------------
(* Assigning a field leaks nothing: the only string it unlinks, it deletes. *)
LEMMA WriteLeaksNothing ==
  ASSUME StoreInv, NEW k \in Key, NEW f \in Field, NEW v \in Val,
         WriteString(k, f, v)
  PROVE  Leaked' = Leaked
<1>1. PICK a \in Addr : WroteAt(k, f, v, a)
  BY WriteStringFacts DEF StoreInv
<1>2. /\ fields'[k][f] = a
      /\ \A j \in Key, g \in Field :
           <<j, g>> # <<k, f>> => fields'[j][g] = fields[j][g]
  BY <1>1 DEF WroteAt, StoreInv, TypeOK
<1>3. ASSUME NEW b \in Addr
      PROVE  b \in Leaked' <=> b \in Leaked
  <2>1. CASE b = a
    <3>1. b \in Reachable'
      BY <2>1, <1>2, NilAssumption DEF Reachable
    <3>2. b = fields[k][f] \/ heap[b] = Nil
      BY <2>1, <1>1 DEF WroteAt
    <3>3. b \in Reachable \/ b \notin Live
      BY <3>2, NilAssumption DEF Reachable, Live
    <3>4. QED
      BY <3>1, <3>3 DEF Leaked
  <2>2. CASE b # a /\ b = fields[k][f]
    <3>1. heap'[b] = Nil
      BY <2>2, <1>1 DEF WroteAt
    <3>2. QED
      BY <3>1, <2>2, NilAssumption DEF Leaked, Live, Reachable
  <2>3. CASE b # a /\ b # fields[k][f]
    <3>1. heap'[b] = heap[b]
      BY <2>3, <1>1 DEF WroteAt
    <3>2. b \in Reachable' <=> b \in Reachable
      BY <2>3, <1>2 DEF Reachable
    <3>3. QED
      BY <3>1, <3>2 DEF Leaked, Live
  <2>4. QED
    BY <2>1, <2>2, <2>3
<1>4. Leaked \subseteq Addr /\ Leaked' \subseteq Addr
  BY DEF Leaked, Live
<1>5. QED
  BY <1>3, <1>4

(* Strings are lost only by remove(), which erases a record whose strings   *)
(* nothing deletes; every other method deletes what it unlinks.             *)
THEOREM OnlyRemoveLeaks == Spec => LeakOnlyByRemove
<1>1. StoreInv /\ [Next]_vars
        => [Leaked' # Leaked => \E k \in present : k \notin present']_vars
  <2> SUFFICES ASSUME StoreInv, Next, Leaked' # Leaked
               PROVE  \E k \in present : k \notin present'
    OBVIOUS
  <2>1. ASSUME NEW k \in Key, Remove(k) PROVE k \in present /\ k \notin present'
    BY <2>1 DEF Remove
  <2>2. ASSUME NEW k \in Key, Insert(k) PROVE Leaked' = Leaked
    <3>1. fields' = fields
      BY <2>2 DEF Insert, StoreInv, TypeOK, NoOrphanField
    <3>2. QED
      BY <3>1, <2>2 DEF Insert, Leaked, Live, Reachable
  <2>3. ASSUME NEW k \in Key, NEW f \in Field, NEW v \in Val, SetField(k, f, v)
        PROVE  Leaked' = Leaked
    BY <2>3, WriteLeaksNothing DEF SetField
  <2>4. ASSUME NEW t \in Thread, NEW k \in Key, NEW f \in Field, SetNextField(t, k, f)
        PROVE  Leaked' = Leaked
    <3>1. todo[k][f] \in Val
      BY <2>4 DEF SetNextField, StoreInv, TypeOK, Update
    <3>2. QED
      BY <2>4, <3>1, WriteLeaksNothing DEF SetNextField
  <2>5. ASSUME NEW k \in Key, NEW f \in Field, RemoveField(k, f)
        PROVE  Leaked' = Leaked
    <3>1. \A j \in Key, g \in Field :
            /\ <<j, g>> # <<k, f>> => fields'[j][g] = fields[j][g]
            /\ <<j, g>> = <<k, f>> => fields'[j][g] = Nil
      BY <2>5 DEF RemoveField, StoreInv, TypeOK
    <3>2. \A a \in Addr :
            /\ a # fields[k][f] => heap'[a] = heap[a]
            /\ a = fields[k][f] => heap'[a] = Nil
      BY <2>5, FreeFacts DEF RemoveField, StoreInv, TypeOK
    <3>3. \A a \in Addr : a # fields[k][f] => (a \in Reachable' <=> a \in Reachable)
      BY <3>1 DEF Reachable
    <3>4. \A a \in Addr : a = fields[k][f] => a \notin Leaked /\ a \notin Leaked'
      BY <3>2, NilAssumption DEF Leaked, Reachable, Live
    <3>5. ASSUME NEW a \in Addr PROVE a \in Leaked' <=> a \in Leaked
      <4>1. CASE a = fields[k][f]
        BY <4>1, <3>4
      <4>2. CASE a # fields[k][f]
        <5>1. heap'[a] = heap[a]
          BY <4>2, <3>2
        <5>2. a \in Live' <=> a \in Live
          BY <5>1 DEF Live
        <5>3. QED
          BY <5>2, <4>2, <3>3 DEF Leaked
      <4>3. QED
        BY <4>1, <4>2
    <3>6. QED
      BY <3>5 DEF Leaked, Live
  <2>6. ASSUME NEW t \in Thread, NEW k \in Key, NEW new \in Update,
               BeginSetFields(t, k, new)
        PROVE  Leaked' = Leaked
    BY <2>6 DEF BeginSetFields, Leaked, Live, Reachable
  <2>7. QED
    BY <2>1, <2>2, <2>3, <2>4, <2>5, <2>6 DEF Next
<1>2. QED
  BY <1>1, StoreInvariant, PTL DEF Spec, LeakOnlyByRemove

-----------------------------------------------------------------------------
(* A store step that does not touch a field leaves its view alone. *)
LEMMA ViewKept ==
  ASSUME StoreInv, StoreInv', NEW k \in Key, NEW f \in Field,
         fields'[k][f] = fields[k][f],
         fields[k][f] # Nil => heap'[fields[k][f]] = heap[fields[k][f]],
         todo'[k][f] = todo[k][f]
  PROVE  View'[k][f] = View[k][f]
<1>1. GetField(k, f) = fields[k][f] /\ GetField(k, f)' = fields'[k][f]
  BY DEF GetField, StoreInv, NoOrphanField, NoFields
<1>2. ViewField(k, f)' = ViewField(k, f)
  BY <1>1 DEF ViewField
<1>3. View[k][f] = ViewField(k, f) /\ View'[k][f] = ViewField(k, f)'
  BY DEF View
<1>4. QED
  BY <1>2, <1>3

(* Assigning v to a field shows as v in the view once nothing is pending.   *)
LEMMA ViewWritten ==
  ASSUME StoreInv, StoreInv', NEW k \in Key, NEW f \in Field, NEW v \in Val,
         WriteString(k, f, v), todo'[k][f] = Nil,
         \A j \in Key, g \in Field : <<j, g>> # <<k, f>> => todo'[j][g] = todo[j][g]
  PROVE  /\ View'[k][f] = v
         /\ \A j \in Key, g \in Field :
              <<j, g>> # <<k, f>> => View'[j][g] = View[j][g]
<1>1. PICK a \in Addr : WroteAt(k, f, v, a)
  BY WriteStringFacts DEF StoreInv
<1>2. fields'[k][f] = a
  BY <1>1 DEF WroteAt, StoreInv, TypeOK
<1>3. GetField(k, f)' = a
  BY <1>2, NilAssumption DEF GetField, StoreInv, NoOrphanField, NoFields
<1>4. View'[k][f] = v
  BY <1>1, <1>3, NilAssumption DEF View, ViewField, WroteAt
<1>5. ASSUME NEW j \in Key, NEW g \in Field, <<j, g>> # <<k, f>>
      PROVE  View'[j][g] = View[j][g]
  <2>1. fields'[j][g] = fields[j][g]
    BY <1>1, <1>5 DEF WroteAt, StoreInv, TypeOK
  <2>2. fields[j][g] # Nil => heap'[fields[j][g]] = heap[fields[j][g]]
    BY <1>1, <1>5 DEF WroteAt, StoreInv, TypeOK
  <2>3. QED
    BY <2>1, <2>2, <1>5, ViewKept
<1>6. QED
  BY <1>4, <1>5

(* The view is a record of values for every key. *)
LEMMA ViewType == StoreInv => View \in [Key -> Update]
<1>1. ASSUME StoreInv, NEW j \in Key, NEW g \in Field
      PROVE  ViewField(j, g) \in Val \cup {Nil}
  BY <1>1 DEF StoreInv, TypeOK, GetField, ViewField, Update
<1>2. QED
  BY <1>1 DEF View, Update

(* Two views that agree on every field are the same. *)
LEMMA ViewExtensionality ==
  ASSUME NEW u \in [Key -> Update], NEW w \in [Key -> Update],
         \A j \in Key, g \in Field : u[j][g] = w[j][g]
  PROVE  u = w
BY DEF Update

(* Making a key does not show in the view: a key that is new has no field.  *)
LEMMA InsertView ==
  ASSUME StoreInv, StoreInv', NEW k \in Key, Insert(k)
  PROVE  View' = View
<1>1. View \in [Key -> Update] /\ View' \in [Key -> Update]
  <2>1. StoreInv' => (View \in [Key -> Update])'
    BY ViewType, PTL
  <2>2. QED
    BY <2>1, ViewType
<1>2. fields' = fields
  BY DEF Insert, StoreInv, TypeOK, NoOrphanField
<1>3. \A j \in Key, g \in Field : View'[j][g] = View[j][g]
  BY <1>2, ViewKept DEF Insert
<1>4. QED
  BY <1>1, <1>3, ViewExtensionality

(* Nor do the writes of a setFields call that has started: what it has still *)
(* to write counts as written.                                              *)
LEMMA SetNextFieldView ==
  ASSUME StoreInv, StoreInv', NEW t \in Thread, NEW k \in Key, NEW f \in Field,
         SetNextField(t, k, f)
  PROVE  View' = View
<1>0. View \in [Key -> Update] /\ View' \in [Key -> Update]
  <2>1. StoreInv' => (View \in [Key -> Update])'
    BY ViewType, PTL
  <2>2. QED
    BY <2>1, ViewType
<1>1. todo[k][f] \in Val
  BY DEF SetNextField, StoreInv, TypeOK, Update
<1>2. /\ todo'[k][f] = Nil
      /\ \A j \in Key, g \in Field : <<j, g>> # <<k, f>> => todo'[j][g] = todo[j][g]
  BY DEF SetNextField, StoreInv, TypeOK, Update
<1>3. /\ View'[k][f] = todo[k][f]
      /\ \A j \in Key, g \in Field :
           <<j, g>> # <<k, f>> => View'[j][g] = View[j][g]
  BY <1>1, <1>2, ViewWritten DEF SetNextField
<1>4. View[k][f] = todo[k][f]
  BY DEF SetNextField, View, ViewField
<1>5. QED
  BY <1>3, <1>4, <1>0, ViewExtensionality

(* A setFields call shows as a whole when it gets the mutex. *)
LEMMA BeginSetFieldsView ==
  ASSUME StoreInv, NEW t \in Thread, NEW k \in Key, NEW new \in Update,
         BeginSetFields(t, k, new)
  PROVE  \A j \in Key, g \in Field :
           View'[j][g] = IF j = k /\ new[g] # Nil THEN new[g] ELSE View[j][g]
<1>1. \A j \in Key, g \in Field : todo[j][g] = Nil
  BY DEF BeginSetFields, StoreInv, LockCoversUpdate, NoFields
<1>2. \A j \in Key, g \in Field :
        todo'[j][g] = IF j = k THEN new[g] ELSE Nil
  BY <1>1 DEF BeginSetFields, StoreInv, TypeOK
<1>3. \A j \in Key, g \in Field : GetField(j, g)' = GetField(j, g)
  BY DEF BeginSetFields, GetField
<1>4. QED
  BY <1>1, <1>2, <1>3 DEF BeginSetFields, View, ViewField

(* Each step of the store is a step of NestedMap or leaves the view alone.  *)
LEMMA StepRefines ==
  StoreInv /\ StoreInv' /\ [Next]_vars => [Abstract!Next]_<<present, View>>
<1> SUFFICES ASSUME StoreInv, StoreInv', [Next]_vars
             PROVE  Abstract!Next \/ UNCHANGED <<present, View>>
  OBVIOUS
<1>0. /\ View \in [Key -> Update] /\ View' \in [Key -> Update]
      /\ NoFields \in Update
  <2>1. StoreInv' => (View \in [Key -> Update])'
    BY ViewType, PTL
  <2>2. QED
    BY <2>1, ViewType DEF NoFields, Update
<1>1. ASSUME NEW k \in Key, Insert(k) PROVE Abstract!Create(k)
  BY <1>1, InsertView DEF Insert, Abstract!Create
<1>2. ASSUME NEW k \in Key, Remove(k) PROVE Abstract!Drop(k)
  <2>1. \A j \in Key, g \in Field : j # k => View'[j][g] = View[j][g]
    <3>1. \A j \in Key, g \in Field : j # k => fields'[j][g] = fields[j][g]
      BY <1>2 DEF Remove, StoreInv, TypeOK
    <3>2. QED
      BY <1>2, <3>1, ViewKept DEF Remove
  <2>2. \A g \in Field : View'[k][g] = Nil
    BY <1>2 DEF Remove, View, ViewField, GetField, StoreInv, LockCoversUpdate, NoFields
  <2>3. View' = [View EXCEPT ![k] = NoFields]
    <3> DEFINE w == [View EXCEPT ![k] = NoFields]
    <3>1. w \in [Key -> Update]
      BY <1>0
    <3>2. \A j \in Key, g \in Field : View'[j][g] = w[j][g]
      BY <2>1, <2>2, <1>0 DEF NoFields
    <3> HIDE DEF w
    <3>3. View' = w
      BY <3>1, <3>2, <1>0, ViewExtensionality
    <3>4. QED
      BY <3>3 DEF w
  <2>4. QED
    BY <1>2, <2>3 DEF Remove, Abstract!Drop, Abstract!NoFields, NoFields
<1>3. ASSUME NEW k \in Key, NEW f \in Field, RemoveField(k, f)
      PROVE  Abstract!DropField(k, f)
  <2>1. \A j \in Key, g \in Field : <<j, g>> # <<k, f>> => View'[j][g] = View[j][g]
    <3>1. ASSUME NEW j \in Key, NEW g \in Field, <<j, g>> # <<k, f>>
          PROVE  /\ fields'[j][g] = fields[j][g]
                 /\ fields[j][g] # Nil => heap'[fields[j][g]] = heap[fields[j][g]]
      BY <1>3, <3>1 DEF RemoveField, Free, StoreInv, TypeOK, NoSharedString
    <3>2. QED
      BY <1>3, <3>1, ViewKept DEF RemoveField
  <2>2. View'[k][f] = Nil
    BY <1>3 DEF RemoveField, View, ViewField, GetField, StoreInv, TypeOK,
                LockCoversUpdate, NoFields
  <2>3. View' = [View EXCEPT ![k][f] = Nil]
    <3> DEFINE w == [View EXCEPT ![k][f] = Nil]
    <3>1. w \in [Key -> Update]
      BY <1>0 DEF Update
    <3>2. \A j \in Key, g \in Field : View'[j][g] = w[j][g]
      BY <2>1, <2>2, <1>0 DEF Update
    <3> HIDE DEF w
    <3>3. View' = w
      BY <3>1, <3>2, <1>0, ViewExtensionality
    <3>4. QED
      BY <3>3 DEF w
  <2>4. QED
    BY <1>3, <2>3 DEF RemoveField, Abstract!DropField
<1>4. ASSUME NEW k \in Key, NEW f \in Field, NEW v \in Val, SetField(k, f, v)
      PROVE  \E new \in Abstract!Update : Abstract!Assign(k, new)
  <2> DEFINE new == [NoFields EXCEPT ![f] = v]
  <2>1. /\ View'[k][f] = v
        /\ \A j \in Key, g \in Field :
             <<j, g>> # <<k, f>> => View'[j][g] = View[j][g]
    BY <1>4, ViewWritten DEF SetField, StoreInv, LockCoversUpdate, NoFields
  <2>2. /\ new \in Update
        /\ new[f] = v
        /\ \A g \in Field : g # f => new[g] = Nil
    BY DEF NoFields, Update
  <2>3. View' = [View EXCEPT ![k] = Abstract!Merge(View[k], new)]
    <3> DEFINE w == [View EXCEPT ![k] = Abstract!Merge(View[k], new)]
    <3>1. w \in [Key -> Update]
      BY <1>0, <2>2 DEF Update, Abstract!Merge
    <3>2. \A j \in Key, g \in Field : View'[j][g] = w[j][g]
      BY <2>1, <2>2, <1>0, NilAssumption DEF Update, Abstract!Merge
    <3> HIDE DEF w
    <3>3. View' = w
      BY <3>1, <3>2, <1>0, ViewExtensionality
    <3>4. QED
      BY <3>3 DEF w
  <2>4. QED
    BY <1>4, <2>2, <2>3 DEF SetField, Abstract!Assign, Abstract!Update, Update
<1>5. ASSUME NEW t \in Thread, NEW k \in Key, NEW f \in Field, SetNextField(t, k, f)
      PROVE  UNCHANGED <<present, View>>
  BY <1>5, SetNextFieldView DEF SetNextField
<1>6. ASSUME NEW t \in Thread, NEW k \in Key, NEW new \in Update,
             BeginSetFields(t, k, new)
      PROVE  Abstract!Assign(k, new)
  <2>1. \A j \in Key, g \in Field :
          View'[j][g] = IF j = k /\ new[g] # Nil THEN new[g] ELSE View[j][g]
    BY <1>6, BeginSetFieldsView
  <2>2. View' = [View EXCEPT ![k] = Abstract!Merge(View[k], new)]
    <3> DEFINE w == [View EXCEPT ![k] = Abstract!Merge(View[k], new)]
    <3>1. w \in [Key -> Update]
      BY <1>0 DEF Update, Abstract!Merge
    <3>2. \A j \in Key, g \in Field : View'[j][g] = w[j][g]
      BY <2>1, <1>0 DEF Update, Abstract!Merge
    <3> HIDE DEF w
    <3>3. View' = w
      BY <3>1, <3>2, <1>0, ViewExtensionality
    <3>4. QED
      BY <3>3 DEF w
  <2>3. QED
    BY <1>6, <2>2 DEF BeginSetFields, Abstract!Assign
<1>7. CASE UNCHANGED vars
  BY <1>7 DEF vars, View, ViewField, GetField
<1>8. QED
  BY <1>1, <1>2, <1>3, <1>4, <1>5, <1>6, <1>7
     DEF Next, Abstract!Next, Abstract!Update, Update

(* The initial store is the empty map. *)
LEMMA InitRefines == Init => Abstract!Init
BY DEF Init, Abstract!Init, View, ViewField, GetField, NoFields, Abstract!NoFields

(* The store with its heap, its pointers and its mutex implements the map   *)
(* of maps with atomic operations that its interface promises.              *)
THEOREM Refinement == Spec => ImplementsNestedMap
BY InitRefines, StepRefines, StoreInvariant, PTL
   DEF Spec, ImplementsNestedMap, Abstract!Spec, Abstract!vars
=============================================================================
