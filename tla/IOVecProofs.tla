----------------------------- MODULE IOVecProofs -----------------------------
(* Proofs about module IOVec, for every value of its constants: any number  *)
(* of connections and replies, of strings in a reply and of replies that    *)
(* the kernel still has to transmit.                                        *)
EXTENDS IOVec, TLAPS

-----------------------------------------------------------------------------
(* The inductive invariant *)

(* How far a thread is with its reply, by the place where it is. *)
Counted ==
  \A c \in Conn :
    /\ pc[c] = "idle" <=> reply[c] = 0
    /\ pc[c] \in {"idle", "clear"} => added[c] = 0
    /\ added[c] <= values[c] + 2
    /\ pc[c] \in {"end", "grow"} => added[c] < values[c] + 2
    /\ pc[c] \in {"size", "send", "sent"} => added[c] = values[c] + 2

(* The first n entries are those of the reply of c. *)
Holds(c, n) == n <= Len(mem) /\ \A i \in 1..n : mem[i] = Parts(c)[i]

(* What a thread that is alone in serialize can rely on, by its place. *)
Undisturbed(c) ==
  /\ pc[c] = "add"  => size = added[c] /\ Holds(c, size)
  /\ pc[c] = "end"  => size = added[c] /\ slot[c] = size + 1 /\ Holds(c, size + 1)
  /\ pc[c] = "grow" => size = added[c] /\ size = Len(mem) /\ Holds(c, size)
  /\ pc[c] \in {"size", "send"} => size = added[c] /\ base[c] = block /\ Holds(c, size)
  /\ pc[c] = "send" => len[c] = size
  /\ pc[c] = "sent" => message[c] = Parts(c)

Alone ==
  \A c \in Conn :
    alone[c] /\ pc[c] # "idle" =>
      /\ \A d \in Conn \ {c} : pc[d] = "idle"
      /\ Undisturbed(c)

IInv == TypeOK /\ Counted /\ Alone

-----------------------------------------------------------------------------
(* The parts of a reply *)

LEMMA PartsFacts ==
  ASSUME TypeOK, NEW c \in Conn
  PROVE  /\ Parts(c) = [i \in 1..values[c] + 2 |-> Parts(c)[i]]
         /\ Len(Parts(c)) = values[c] + 2
         /\ values[c] + 2 \in Nat
         /\ reply[c] # 0 => Parts(c) \in Seq(Entry)
<1>1. values[c] \in 0..MaxValues /\ reply[c] \in 0..MaxReplies /\ MaxValues \in Nat
  BY BoundsAssumption DEF TypeOK
<1>2. values[c] + 2 \in Nat
  BY <1>1
<1>3. Parts(c) = [i \in 1..values[c] + 2 |-> Parts(c)[i]] /\ Len(Parts(c)) = values[c] + 2
  BY <1>2 DEF Parts
<1>4. ASSUME reply[c] # 0, NEW i \in 1..values[c] + 2
      PROVE  Parts(c)[i] \in Entry
  <2>1. CASE i = values[c] + 2
    BY <2>1, <1>2 DEF Parts, Entry
  <2>2. CASE i # values[c] + 2
    <3>1. /\ reply[c] \in 1..MaxReplies
          /\ (IF i = values[c] + 1 THEN 0 ELSE i) \in 0..MaxValues
      BY <1>1, <1>4, <2>2, BoundsAssumption
    <3>2. Parts(c)[i] = [reply |-> reply[c], part |-> IF i = values[c] + 1 THEN 0 ELSE i]
      BY <1>2, <2>2 DEF Parts
    <3>3. QED
      BY <3>1, <3>2 DEF Entry
  <2>3. QED
    BY <2>1, <2>2
<1>5. reply[c] # 0 => Parts(c) \in [1..values[c] + 2 -> Entry]
  BY <1>3, <1>4
<1>6. reply[c] # 0 => Parts(c) \in Seq(Entry)
  BY <1>2, <1>5
<1>7. QED
  BY <1>2, <1>3, <1>6

LEMMA Amounts ==
  ASSUME TypeOK, NEW c \in Conn
  PROVE  added[c] \in Nat /\ values[c] \in Nat /\ Len(Parts(c)) = values[c] + 2
<1>1. MaxValues \in Nat /\ MaxValues + 2 \in Nat
  BY BoundsAssumption
<1>2. added[c] \in 0..MaxValues + 2 /\ values[c] \in 0..MaxValues
  BY DEF TypeOK
<1>3. QED
  BY <1>1, <1>2, PartsFacts

(* The entry that is added next. *)
LEMMA NextEntry ==
  ASSUME TypeOK, Counted, NEW c \in Conn, added[c] < values[c] + 2, pc[c] # "idle"
  PROVE  /\ added[c] + 1 \in 1..values[c] + 2
         /\ Entry1(c) = Parts(c)[added[c] + 1]
         /\ Entry1(c) \in Entry
<1>1. added[c] \in Nat /\ values[c] \in Nat
  BY BoundsAssumption DEF TypeOK
<1>2. added[c] + 1 \in 1..values[c] + 2
  BY <1>1
<1>3. reply[c] # 0
  BY DEF Counted
<1>4. QED
  BY <1>2, <1>3, PartsFacts DEF Entry1

(* A reply has the same parts as long as it is in work. *)
LEMMA PartsStay ==
  ASSUME NEW c \in Conn, values'[c] = values[c], reply'[c] = reply[c]
  PROVE  Parts(c)' = Parts(c)
BY DEF Parts

(* The block that push_back makes when it is full: twice as large, with the *)
(* entry behind the ones that were there.                                   *)
LEMMA GrownBlock ==
  ASSUME TypeOK, Counted, NEW c \in Conn, Grow(c)
  PROVE  /\ mem' \in Seq(Entry)
         /\ Len(mem') >= Len(mem) + 1
         /\ \A i \in 1..Len(mem) : mem'[i] = mem[i]
         /\ mem'[Len(mem) + 1] = Entry1(c)
<1> DEFINE n == IF mem = <<>> THEN 1 ELSE 2 * Len(mem)
<1>1. mem \in Seq(Entry) /\ Len(mem) \in Nat
  BY DEF TypeOK
<1>2. n \in Nat /\ n >= Len(mem) + 1
  BY <1>1
<1>3. Entry1(c) \in Entry /\ Junk \in Entry
  <2>1. pc[c] = "grow"
    BY DEF Grow, Goto
  <2>2. added[c] < values[c] + 2
    BY <2>1 DEF Counted
  <2>3. QED
    BY <2>1, <2>2, NextEntry DEF Entry
<1>4. mem' = [i \in 1..n |-> IF i <= Len(mem) THEN mem[i]
                             ELSE IF i = Len(mem) + 1 THEN Entry1(c) ELSE Junk]
  BY DEF Grow
<1> HIDE DEF n
<1>5. ASSUME NEW i \in 1..n PROVE mem'[i] \in Entry
  <2>1. i <= Len(mem) => mem[i] \in Entry
    BY <1>1, <1>2
  <2>2. QED
    BY <1>3, <1>4, <2>1
<1>6. mem' \in Seq(Entry) /\ Len(mem') = n
  BY <1>2, <1>4, <1>5
<1>7. QED
  BY <1>1, <1>2, <1>4, <1>6

-----------------------------------------------------------------------------
(* Types *)

LEMMA TypeStep == TypeOK /\ Counted /\ [Next]_vars => TypeOK'
<1> SUFFICES ASSUME TypeOK, Counted, [Next]_vars PROVE TypeOK'
  OBVIOUS
<1> USE DEF vector, locals, Goto
<1>0. MaxReplies \in Nat /\ MaxValues \in Nat
  BY BoundsAssumption
<1>1. CASE Idle \/ UNCHANGED vars
  BY <1>1 DEF Idle, vars, TypeOK
<1>2. CASE Transmit
  <2>1. wire' \subseteq [reply : 1..MaxReplies, entries : Seq(Entry)]
    BY <1>2 DEF Transmit, TypeOK
  <2>2. QED
    BY <1>2, <2>1 DEF Transmit, TypeOK
<1>3. ASSUME NEW c \in Conn, NEW n \in 0..MaxValues, Serialize(c, n)
      PROVE  TypeOK'
  <2>1. replies' = replies + 1 /\ replies' \in 1..MaxReplies
    BY <1>0, <1>3 DEF Serialize, TypeOK
  <2>2. reply' \in [Conn -> 0..MaxReplies]
    BY <1>0, <1>3, <2>1 DEF Serialize, TypeOK
  <2>3. values' \in [Conn -> 0..MaxValues]
    BY <1>3 DEF Serialize, TypeOK
  <2>4. alone' \in [Conn -> BOOLEAN]
    BY <1>3 DEF Serialize, TypeOK
  <2>5. pc' \in [Conn -> {"idle", "clear", "add", "end", "grow", "size", "send", "sent"}]
    BY <1>3 DEF Serialize, TypeOK
  <2>6. QED
    BY <1>3, <2>1, <2>2, <2>3, <2>4, <2>5 DEF Serialize, TypeOK
<1>4. ASSUME NEW c \in Conn, Clear(c)
      PROVE  TypeOK'
  BY <1>4 DEF Clear, Touch, TypeOK
<1>5. ASSUME NEW c \in Conn, Store(c)
      PROVE  TypeOK'
  <2>1. size \in Nat /\ Len(mem) \in Nat /\ mem \in Seq(Entry)
    BY DEF TypeOK
  <2>2. Entry1(c) \in Entry
    BY <1>5, PartsFacts, NextEntry DEF Store
  <2>3. mem' \in Seq(Entry)
    <3>1. CASE size < Len(mem)
      BY <1>5, <2>1, <2>2, <3>1 DEF Store
    <3>2. CASE ~(size < Len(mem))
      BY <1>5, <2>1, <3>2 DEF Store
    <3>3. QED
      BY <3>1, <3>2
  <2>4. broken' \in BOOLEAN
    BY <1>5 DEF Store, Touch
  <2>5. slot' \in [Conn -> Nat]
    BY <1>5, <2>1 DEF Store, TypeOK
  <2>6. pc' \in [Conn -> {"idle", "clear", "add", "end", "grow", "size", "send", "sent"}]
    BY <1>5 DEF Store, TypeOK
  <2>7. QED
    BY <1>5, <2>3, <2>4, <2>5, <2>6 DEF Store, TypeOK
<1>6. ASSUME NEW c \in Conn, MoveEnd(c)
      PROVE  TypeOK'
  <2>1. added[c] \in 0..MaxValues + 2 /\ added[c] < values[c] + 2 /\ values[c] \in 0..MaxValues
    BY <1>6 DEF MoveEnd, TypeOK, Counted
  <2>2. added[c] + 1 \in 0..MaxValues + 2
    BY <1>0, <2>1
  <2>3. added' \in [Conn -> 0..MaxValues + 2]
    BY <1>6, <2>2 DEF MoveEnd, TypeOK
  <2>4. size' \in Nat /\ slot' \in [Conn -> Nat]
    BY <1>6 DEF MoveEnd, TypeOK
  <2>5. broken' \in BOOLEAN
    BY <1>6 DEF MoveEnd, Touch
  <2>6. pc' \in [Conn -> {"idle", "clear", "add", "end", "grow", "size", "send", "sent"}]
    BY <1>6 DEF MoveEnd, TypeOK
  <2>7. QED
    BY <1>6, <2>3, <2>4, <2>5, <2>6 DEF MoveEnd, TypeOK
<1>7. ASSUME NEW c \in Conn, StartGrowing(c)
      PROVE  TypeOK'
  BY <1>7 DEF StartGrowing, Touch, TypeOK
<1>8. ASSUME NEW c \in Conn, Grow(c)
      PROVE  TypeOK'
  <2>1. added[c] \in 0..MaxValues + 2 /\ added[c] < values[c] + 2 /\ values[c] \in 0..MaxValues
    BY <1>8 DEF Grow, TypeOK, Counted
  <2>2. added[c] + 1 \in 0..MaxValues + 2
    BY <1>0, <2>1
  <2>3. added' \in [Conn -> 0..MaxValues + 2]
    BY <1>8, <2>2 DEF Grow, TypeOK
  <2>4. mem' \in Seq(Entry)
    BY <1>8, GrownBlock
  <2>5. size' \in Nat /\ block' \in Nat /\ block <= block'
    BY <1>8 DEF Grow, TypeOK
  <2>6. base' \in [Conn -> 0..block']
    <3>1. block \in Nat /\ base' = base /\ base \in [Conn -> 0..block]
      BY <1>8 DEF Grow, TypeOK
    <3>2. \A b \in 0..block : b \in 0..block'
      BY <2>5, <3>1
    <3>3. QED
      BY <3>1, <3>2
  <2>7. pc' \in [Conn -> {"idle", "clear", "add", "end", "grow", "size", "send", "sent"}]
    BY <1>8 DEF Grow, TypeOK
  <2>8. QED
    BY <1>8, <2>3, <2>4, <2>5, <2>6, <2>7 DEF Grow, TypeOK
<1>9. ASSUME NEW c \in Conn, TakeData(c) \/ TakeSize(c)
      PROVE  TypeOK'
  <2>1. UNCHANGED block /\ block \in 0..block /\ size \in Nat
    BY <1>9 DEF TakeData, TakeSize, TypeOK
  <2>2. base' = base \/ base' = [base EXCEPT ![c] = block]
    BY <1>9 DEF TakeData, TakeSize
  <2>3. base' \in [Conn -> 0..block]
    BY <2>1, <2>2 DEF TypeOK
  <2>4. len' = len \/ len' = [len EXCEPT ![c] = size]
    BY <1>9 DEF TakeData, TakeSize
  <2>5. len' \in [Conn -> Nat]
    BY <2>1, <2>4 DEF TypeOK
  <2>6. broken' \in BOOLEAN
    BY <1>9 DEF TakeData, TakeSize, Touch
  <2>7. pc' \in [Conn -> {"idle", "clear", "add", "end", "grow", "size", "send", "sent"}]
    BY <1>9 DEF TakeData, TakeSize, TypeOK
  <2>8. QED
    BY <1>9, <2>1, <2>3, <2>5, <2>6, <2>7 DEF TakeData, TakeSize, TypeOK
<1>10. ASSUME NEW c \in Conn, SendMsg(c)
       PROVE  TypeOK'
  <2> DEFINE found == [i \in 1..len[c] |-> IF base[c] = block /\ i <= Len(mem)
                                           THEN mem[i] ELSE Junk]
  <2>1. len[c] \in Nat /\ mem \in Seq(Entry) /\ Junk \in Entry
    BY DEF TypeOK, Entry
  <2>2. found \in Seq(Entry)
    BY <2>1
  <2>3. message' = [message EXCEPT ![c] = found]
    BY <1>10 DEF SendMsg
  <2> HIDE DEF found
  <2>4. message' \in [Conn -> Seq(Entry)] /\ message'[c] \in Seq(Entry)
    BY <2>2, <2>3 DEF TypeOK
  <2>5. reply[c] \in 1..MaxReplies
    BY <1>0, <1>10 DEF SendMsg, TypeOK, Counted
  <2>6. wire' \subseteq [reply : 1..MaxReplies, entries : Seq(Entry)]
    <3>1. wire' = wire \/ wire' = wire \cup {[reply |-> reply[c], entries |-> message'[c]]}
      BY <1>10 DEF SendMsg
    <3>2. QED
      BY <2>4, <2>5, <3>1 DEF TypeOK
  <2>7. base' \in [Conn -> 0..block] /\ len' \in [Conn -> Nat]
    BY <1>10 DEF SendMsg, TypeOK
  <2>8. pc' \in [Conn -> {"idle", "clear", "add", "end", "grow", "size", "send", "sent"}]
    BY <1>10 DEF SendMsg, TypeOK
  <2>9. QED
    BY <1>10, <2>4, <2>6, <2>7, <2>8 DEF SendMsg, TypeOK
<1>11. ASSUME NEW c \in Conn, Return(c)
       PROVE  TypeOK'
  <2>1. /\ reply' \in [Conn -> 0..MaxReplies]
        /\ values' \in [Conn -> 0..MaxValues]
        /\ added' \in [Conn -> 0..MaxValues + 2]
    BY <1>0, <1>11 DEF Return, TypeOK
  <2>2. message' \in [Conn -> Seq(Entry)]
    BY <1>11 DEF Return, TypeOK
  <2>3. QED
    BY <1>11, <2>1, <2>2 DEF Return, TypeOK
<1>12. QED
  BY <1>1, <1>2, <1>3, <1>4, <1>5, <1>6, <1>7, <1>8, <1>9, <1>10, <1>11 DEF Next

-----------------------------------------------------------------------------
(* How far the threads are, and the numbers of the replies *)

LEMMA CountedStep == TypeOK /\ Counted /\ [Next]_vars => Counted'
<1> SUFFICES ASSUME TypeOK, Counted, [Next]_vars PROVE Counted'
  OBVIOUS
<1> USE DEF vector, locals, Goto
<1>0. \A c \in Conn : added[c] \in Nat /\ values[c] \in Nat /\ Len(Parts(c)) = values[c] + 2
  BY Amounts
<1>1. CASE Idle \/ Transmit \/ UNCHANGED vars
  BY <1>1 DEF Idle, Transmit, vars, Counted
<1>2. ASSUME NEW c \in Conn, NEW n \in 0..MaxValues, Serialize(c, n)
      PROVE  Counted'
  <2>1. replies' # 0 /\ n \in Nat
    BY <1>2, BoundsAssumption DEF Serialize, TypeOK
  <2>2. QED
    BY <1>2, <2>1 DEF Serialize, TypeOK, Counted
<1>3. ASSUME NEW c \in Conn, Clear(c)
      PROVE  Counted'
  <2>1. added[c] < values[c] + 2
    BY <1>0, <1>3 DEF Clear, Counted
  <2>2. QED
    BY <1>3, <2>1 DEF Clear, TypeOK, Counted
<1>4. ASSUME NEW c \in Conn, Store(c) \/ StartGrowing(c)
      PROVE  Counted'
  <2>1. CASE Store(c)
    BY <1>0, <2>1 DEF Store, TypeOK, Counted
  <2>2. CASE StartGrowing(c)
    BY <1>0, <2>2 DEF StartGrowing, TypeOK, Counted
  <2>3. QED
    BY <1>4, <2>1, <2>2
<1>5. ASSUME NEW c \in Conn, MoveEnd(c) \/ Grow(c)
      PROVE  Counted'
  <2>1. /\ pc[c] \in {"end", "grow"} /\ pc'[c] = "add"
        /\ added'[c] = added[c] + 1
        /\ UNCHANGED <<reply, values>>
        /\ \A d \in Conn \ {c} : pc'[d] = pc[d] /\ added'[d] = added[d]
    BY <1>5 DEF MoveEnd, Grow, TypeOK
  <2>2. reply[c] # 0 /\ added[c] + 1 <= values[c] + 2
    BY <1>0, <2>1 DEF Counted
  <2>3. QED
    BY <2>1, <2>2 DEF Counted
<1>6. ASSUME NEW c \in Conn, TakeData(c) \/ TakeSize(c) \/ SendMsg(c)
      PROVE  Counted'
  <2>1. CASE TakeData(c)
    BY <1>0, <2>1 DEF TakeData, TypeOK, Counted
  <2>2. CASE TakeSize(c)
    BY <1>0, <2>2 DEF TakeSize, TypeOK, Counted
  <2>3. CASE SendMsg(c)
    BY <1>0, <2>3 DEF SendMsg, TypeOK, Counted
  <2>4. QED
    BY <1>6, <2>1, <2>2, <2>3
<1>7. ASSUME NEW c \in Conn, Return(c)
      PROVE  Counted'
  BY <1>7 DEF Return, TypeOK, Counted
<1>8. QED
  BY <1>1, <1>2, <1>3, <1>4, <1>5, <1>6, <1>7 DEF Next

-----------------------------------------------------------------------------
(* A thread that is alone *)

(* Where c, alone, is in work, no step is another thread's but one that     *)
(* begins a reply, and then c is not alone any more.                        *)
LEMMA OnlyItsOwn ==
  ASSUME Alone, NEW c \in Conn, alone[c], pc[c] # "idle", NEW d \in Conn, pc[d] # "idle"
  PROVE  d = c
BY DEF Alone

LEMMA AloneStep == IInv /\ [Next]_vars => Alone'
<1> SUFFICES ASSUME IInv, [Next]_vars, NEW c \in Conn, alone'[c], pc'[c] # "idle"
             PROVE  /\ \A d \in Conn \ {c} : pc'[d] = "idle"
                    /\ Undisturbed(c)'
  BY DEF Alone
<1> USE DEF IInv, vector, locals, Goto
<1>0. /\ mem \in Seq(Entry) /\ Len(mem) \in Nat /\ size \in Nat /\ block \in Nat
      /\ added[c] \in Nat /\ values[c] \in Nat /\ Len(Parts(c)) = values[c] + 2
  <2>1. mem \in Seq(Entry) /\ Len(mem) \in Nat /\ size \in Nat /\ block \in Nat
    BY DEF TypeOK
  <2>2. TypeOK
    OBVIOUS
  <2>3. added[c] \in Nat /\ values[c] \in Nat /\ Len(Parts(c)) = values[c] + 2
    BY <2>2, Amounts
  <2>4. QED
    BY <2>1, <2>3
<1>1. CASE UNCHANGED <<mem, size, block, pc, reply, values, added, slot, base, len, message, alone>>
  <2>1. Parts(c)' = Parts(c)
    BY <1>1, PartsStay
  <2>2. \A n \in Nat : Holds(c, n) => Holds(c, n)'
    BY <1>1, <2>1 DEF Holds
  <2>3. Undisturbed(c) => Undisturbed(c)'
    BY <1>0, <1>1, <2>1, <2>2 DEF Undisturbed
  <2>4. QED
    BY <1>1, <2>3 DEF Alone
<1>2. ASSUME Idle \/ Transmit \/ UNCHANGED vars
      PROVE  UNCHANGED <<mem, size, block, pc, reply, values, added, slot, base, len, message, alone>>
  BY <1>2 DEF Idle, Transmit, vars
<1>3. ASSUME NEW d \in Conn, NEW n \in 0..MaxValues, Serialize(d, n)
      PROVE  /\ \A e \in Conn \ {c} : pc'[e] = "idle"
             /\ Undisturbed(c)'
  <2>1. c = d
    BY <1>3 DEF Serialize, TypeOK
  <2>2. pc'[c] = "clear" /\ \A e \in Conn \ {c} : pc'[e] = "idle"
    BY <1>3, <2>1 DEF Serialize, TypeOK
  <2>3. QED
    BY <2>2 DEF Undisturbed
<1>4. ASSUME NEW d \in Conn,
             \/ Clear(d) \/ Store(d) \/ MoveEnd(d) \/ StartGrowing(d) \/ Grow(d)
             \/ TakeData(d) \/ TakeSize(d) \/ SendMsg(d)
      PROVE  /\ alone[c] /\ pc[c] # "idle" /\ d = c
             /\ \A e \in Conn \ {c} : pc'[e] = "idle"
             /\ Undisturbed(c)
             /\ Parts(c)' = Parts(c)
  <2>1. UNCHANGED <<alone, reply, values>> /\ pc[d] # "idle"
    BY <1>4 DEF Clear, Store, MoveEnd, StartGrowing, Grow, TakeData, TakeSize, SendMsg
  <2>2. pc[c] # "idle"
    BY <1>4 DEF Clear, Store, MoveEnd, StartGrowing, Grow, TakeData, TakeSize, SendMsg, TypeOK
  <2>3. d = c
    BY <2>1, <2>2, OnlyItsOwn
  <2>4. \A e \in Conn \ {c} : pc'[e] = pc[e]
    BY <1>4, <2>3 DEF Clear, Store, MoveEnd, StartGrowing, Grow, TakeData, TakeSize, SendMsg, TypeOK
  <2>5. QED
    BY <2>1, <2>2, <2>3, <2>4, PartsStay DEF Alone
<1>5. CASE Clear(c)
  <2>1. pc'[c] = "add" /\ size' = 0 /\ added'[c] = added[c] /\ added[c] = 0 /\ mem' = mem
    BY <1>5 DEF Clear, TypeOK, Counted
  <2>2. QED
    BY <1>0, <1>4, <1>5, <2>1 DEF Undisturbed, Holds
<1>6. CASE Store(c)
  <2>1. /\ pc[c] = "add" /\ pc'[c] = "end" /\ size' = size /\ added' = added
        /\ added[c] < values[c] + 2
        /\ size # Len(mem) /\ slot'[c] = size + 1
    BY <1>0, <1>6 DEF Store, TypeOK
  <2>2. size = added[c] /\ Holds(c, size) /\ size < Len(mem)
    BY <1>0, <1>4, <1>6, <2>1 DEF Undisturbed, Holds
  <2>3. mem' = [mem EXCEPT ![size + 1] = Entry1(c)]
    BY <1>6, <2>2 DEF Store
  <2>4. Entry1(c) = Parts(c)[size + 1]
    BY <2>2 DEF Entry1
  <2>5. Len(mem') = Len(mem) /\ \A i \in 1..size + 1 : mem'[i] = Parts(c)[i]
    <3>1. Len(mem') = Len(mem)
      BY <1>0, <2>2, <2>3
    <3>2. mem'[size + 1] = Parts(c)[size + 1]
      BY <1>0, <2>2, <2>3, <2>4
    <3>3. \A i \in 1..size : mem'[i] = Parts(c)[i]
      BY <1>0, <2>2, <2>3 DEF Holds
    <3>4. QED
      BY <1>0, <3>1, <3>2, <3>3
  <2>6. QED
    BY <1>0, <1>4, <1>6, <2>1, <2>2, <2>5 DEF Undisturbed, Holds
<1>7. CASE MoveEnd(c)
  <2>1. /\ pc[c] = "end" /\ pc'[c] = "add" /\ mem' = mem
        /\ added'[c] = added[c] + 1
        /\ size' \in {slot[c], size + 1}
    BY <1>7 DEF MoveEnd, TypeOK
  <2>2. size = added[c] /\ slot[c] = size + 1 /\ Holds(c, size + 1)
    BY <1>4, <1>7, <2>1 DEF Undisturbed
  <2>3. QED
    BY <1>4, <1>7, <2>1, <2>2 DEF Undisturbed, Holds
<1>8. CASE StartGrowing(c)
  <2>1. /\ pc[c] = "add" /\ pc'[c] = "grow" /\ size = Len(mem)
        /\ UNCHANGED <<mem, size, added>>
    BY <1>8 DEF StartGrowing, TypeOK
  <2>2. QED
    BY <1>4, <1>8, <2>1 DEF Undisturbed, Holds
<1>9. CASE Grow(c)
  <2>1. /\ pc[c] = "grow" /\ pc'[c] = "add" /\ size' = Len(mem) + 1
        /\ added'[c] = added[c] + 1
    BY <1>9 DEF Grow, TypeOK
  <2>2. size = added[c] /\ size = Len(mem) /\ Holds(c, size)
    BY <1>4, <1>9, <2>1 DEF Undisturbed
  <2>3. /\ Len(mem') \in Nat /\ Len(mem') >= Len(mem) + 1
        /\ \A i \in 1..Len(mem) : mem'[i] = mem[i]
        /\ mem'[Len(mem) + 1] = Entry1(c)
    BY <1>9, GrownBlock
  <2>4. Entry1(c) = Parts(c)[Len(mem) + 1]
    BY <2>2 DEF Entry1
  <2>5. \A i \in 1..Len(mem) + 1 : mem'[i] = Parts(c)[i]
    BY <1>0, <2>2, <2>3, <2>4 DEF Holds
  <2>6. QED
    BY <1>0, <1>4, <1>9, <2>1, <2>2, <2>3, <2>5 DEF Undisturbed, Holds
<1>10. CASE TakeData(c)
  <2>1. /\ pc[c] = "add" /\ pc'[c] = "size" /\ base'[c] = block
        /\ UNCHANGED <<mem, size, block, added>>
    BY <1>10 DEF TakeData, TypeOK
  <2>2. QED
    BY <1>4, <1>10, <2>1 DEF Undisturbed, Holds
<1>11. CASE TakeSize(c)
  <2>1. /\ pc[c] = "size" /\ pc'[c] = "send" /\ len'[c] = size
        /\ UNCHANGED <<mem, size, block, base, added>>
    BY <1>11 DEF TakeSize, TypeOK
  <2>2. QED
    BY <1>4, <1>11, <2>1 DEF Undisturbed, Holds
<1>12. CASE SendMsg(c)
  <2>1. /\ pc[c] = "send" /\ pc'[c] = "sent"
        /\ message'[c] = [i \in 1..len[c] |-> IF base[c] = block /\ i <= Len(mem)
                                              THEN mem[i] ELSE Junk]
    BY <1>12 DEF SendMsg, TypeOK
  <2>2. len[c] = size /\ size = added[c] /\ base[c] = block /\ Holds(c, size)
    BY <1>4, <1>12, <2>1 DEF Undisturbed
  <2>3. added[c] = values[c] + 2
    BY <2>1 DEF Counted
  <2>4. message'[c] = [i \in 1..values[c] + 2 |-> Parts(c)[i]]
    BY <1>0, <2>1, <2>2, <2>3 DEF Holds
  <2>5. message'[c] = Parts(c)
    BY <2>4, PartsFacts
  <2>6. QED
    BY <1>4, <1>12, <2>1, <2>5 DEF Undisturbed
<1>13. ASSUME NEW d \in Conn, Return(d)
       PROVE  FALSE
  <2>1. d # c
    BY <1>13 DEF Return, TypeOK
  <2>2. alone[c] /\ pc[c] # "idle" /\ pc[d] # "idle"
    BY <1>13, <2>1 DEF Return, TypeOK
  <2>3. QED
    BY <2>1, <2>2, OnlyItsOwn
<1>14. QED
  BY <1>1, <1>2, <1>3, <1>4, <1>5, <1>6, <1>7, <1>8, <1>9, <1>10, <1>11, <1>12, <1>13 DEF Next

-----------------------------------------------------------------------------
(* The theorems *)

LEMMA InitIInv == Init => IInv
<1> SUFFICES ASSUME Init PROVE IInv
  OBVIOUS
<1>1. TypeOK
  <2>1. 0 \in 0..MaxReplies /\ 0 \in 0..MaxValues /\ 0 \in 0..MaxValues + 2
    BY BoundsAssumption
  <2>2. mem \in Seq(Entry) /\ message \in [Conn -> Seq(Entry)]
    BY DEF Init
  <2>3. /\ reply \in [Conn -> 0..MaxReplies] /\ values \in [Conn -> 0..MaxValues]
        /\ added \in [Conn -> 0..MaxValues + 2] /\ replies \in 0..MaxReplies
    BY <2>1 DEF Init
  <2>4. size \in Nat /\ block \in Nat /\ broken \in BOOLEAN /\ alone \in [Conn -> BOOLEAN]
    BY DEF Init
  <2>5. slot \in [Conn -> Nat] /\ len \in [Conn -> Nat] /\ base \in [Conn -> 0..block]
    BY DEF Init
  <2>6. /\ pc \in [Conn -> {"idle", "clear", "add", "end", "grow", "size", "send", "sent"}]
        /\ wire \subseteq [reply : 1..MaxReplies, entries : Seq(Entry)]
    BY DEF Init
  <2>7. QED
    BY <2>2, <2>3, <2>4, <2>5, <2>6 DEF TypeOK
<1>2. Counted /\ Alone
  BY DEF Init, Counted, Alone
<1>3. QED
  BY <1>1, <1>2 DEF IInv

LEMMA NextIInv == IInv /\ [Next]_vars => IInv'
BY TypeStep, CountedStep, AloneStep DEF IInv

LEMMA Inductive == Spec => []IInv
BY InitIInv, NextIInv, PTL DEF Spec

(* Every variable has its type, whatever the threads do to the vector. *)
THEOREM VectorTypes == Spec => []TypeOK
<1>1. IInv => TypeOK
  BY DEF IInv
<1>2. QED
  BY <1>1, Inductive, PTL

(* A thread that no other one disturbed sends the parts of its own reply,   *)
(* whole and in order, through a vector that others left in any state       *)
(* (IOVecSerializer::serialize).                                            *)
THEOREM AloneIsRight == Spec => []AloneSendsItsReply
<1>1. IInv => AloneSendsItsReply
  BY DEF IInv, Alone, Undisturbed, AloneSendsItsReply
<1>2. QED
  BY <1>1, Inductive, PTL
=============================================================================
