--------------------------- MODULE ServerProofs ----------------------------
(* Proofs about module Server, and about its three builds in module ZeroCopy, *)
(* for every value of their constants: any number of connections, keys,      *)
(* fields and zero-copy replies under way.  The invariant of Server holds in *)
(* all builds; the clauses added for them are about the entries of a reply,  *)
(* its way to the client and who made which setFields call.                  *)
EXTENDS ZeroCopy, SequenceLemmas

KVP == INSTANCE KVStoreProofs WITH Thread <- Conn, MaxLeaked <- 0

Call == [key : Key, new : [Field -> Val \cup {Nil}]]

(* The record after n + 1 calls, the last being e: what e writes, and else   *)
(* what was there after n.                                                  *)
LEMMA AsOfAppend ==
  ASSUME NEW calls \in Seq(Call), NEW e \in Call, NEW k \in Key, NEW f \in Field
  PROVE  AsOf(Append(calls, e), Len(calls) + 1, k)[f] =
           IF e.key = k /\ e.new[f] # Nil THEN e.new[f]
           ELSE AsOf(calls, Len(calls), k)[f]
<1> DEFINE n == Len(calls)
           longer == Append(calls, e)
           w == Writers(calls, n, k, f)
           x == Writers(longer, n + 1, k, f)
<1>1. /\ n \in Nat
      /\ longer[n + 1] = e
      /\ \A i \in 1..n : longer[i] = calls[i]
  OBVIOUS
<1>2. w \subseteq 1..n /\ x \subseteq 1..n + 1
  BY DEF Writers
<1>3. /\ AsOf(calls, n, k)[f] = IF w = {} THEN Nil ELSE calls[Max(w)].new[f]
      /\ AsOf(longer, n + 1, k)[f] = IF x = {} THEN Nil ELSE longer[Max(x)].new[f]
  BY DEF AsOf
<1>4. CASE e.key = k /\ e.new[f] # Nil
  <2>1. n + 1 \in x
    BY <1>1, <1>4 DEF Writers
  <2>2. Max(x) = n + 1
    <3>1. Max(x) \in x /\ \A y \in x : y <= Max(x)
      <4>1. n + 1 \in Nat /\ x \in SUBSET (1..n + 1) /\ x # {}
        BY <1>1, <1>2, <2>1
      <4> HIDE DEF n, x
      <4>2. QED
        BY <4>1, GreatestOf
    <3>2. QED
      BY <3>1, <2>1, <1>1, <1>2
  <2>3. QED
    BY <2>1, <2>2, <1>1, <1>3, <1>4
<1>5. CASE ~(e.key = k /\ e.new[f] # Nil)
  <2>1. x = w
    BY <1>1, <1>5 DEF Writers
  <2>2. w # {} => Max(w) \in 1..n
    BY <1>1, <1>2, GreatestOf
  <2>3. QED
    BY <2>1, <2>2, <1>1, <1>3, <1>5
<1>6. QED
  BY <1>4, <1>5

(* A later call changes nothing about the past. *)
LEMMA AsOfKept ==
  ASSUME NEW calls \in Seq(Call), NEW e \in Call, NEW n \in 0..Len(calls),
         NEW k \in Key
  PROVE  AsOf(Append(calls, e), n, k) = AsOf(calls, n, k)
<1> DEFINE longer == Append(calls, e)
<1>1. n \in Nat /\ \A i \in 1..n : longer[i] = calls[i]
  OBVIOUS
<1>2. ASSUME NEW f \in Field
      PROVE  /\ Writers(longer, n, k, f) = Writers(calls, n, k, f)
             /\ Writers(calls, n, k, f) # {} => Max(Writers(calls, n, k, f)) \in 1..n
  <2>1. Writers(longer, n, k, f) = Writers(calls, n, k, f)
    BY <1>1 DEF Writers
  <2>2. Writers(calls, n, k, f) \subseteq 1..n
    BY DEF Writers
  <2>3. QED
    BY <2>1, <2>2, <1>1, GreatestOf
<1> HIDE DEF longer
<1>3. \A f \in Field : AsOf(longer, n, k)[f] = AsOf(calls, n, k)[f]
  BY <1>1, <1>2 DEF AsOf
<1>4. AsOf(longer, n, k) = AsOf(calls, n, k)
  BY <1>3 DEF AsOf
<1>5. QED
  BY <1>4 DEF longer

-----------------------------------------------------------------------------
(* The store inside the server takes the steps of module KVStore.           *)

(* The instances of KVStore in Server and in KVStoreProofs are the same.    *)
LEMMA SameStore ==
  /\ KV!Init <=> KVP!Init
  /\ KV!TypeOK <=> KVP!TypeOK
  /\ KV!Leaked = KVP!Leaked
  /\ \A k \in Key : KV!Insert(k) <=> KVP!Insert(k)
  /\ \A c \in Conn, k \in Key, new \in KVP!Update :
       KV!BeginSetFields(c, k, new) <=> KVP!BeginSetFields(c, k, new)
  /\ \A c \in Conn, k \in Key, f \in Field :
       KV!SetNextField(c, k, f) <=> KVP!SetNextField(c, k, f)
<1>1. (KV!Init <=> KVP!Init) /\ (KV!TypeOK <=> KVP!TypeOK)
  BY DEF KV!Init, KVP!Init, KV!TypeOK, KVP!TypeOK, KV!NoFields, KVP!NoFields,
         KV!Update, KVP!Update
<1>2. KV!Leaked = KVP!Leaked
  BY DEF KV!Leaked, KVP!Leaked, KV!Live, KVP!Live, KV!Reachable, KVP!Reachable
<1>3. \A k \in Key : KV!Insert(k) <=> KVP!Insert(k)
  BY DEF KV!Insert, KVP!Insert, KV!NoFields, KVP!NoFields
<1>4. \A c \in Conn, k \in Key, new \in KVP!Update :
        KV!BeginSetFields(c, k, new) <=> KVP!BeginSetFields(c, k, new)
  BY DEF KV!BeginSetFields, KVP!BeginSetFields, KV!NoFields, KVP!NoFields
<1>5. \A c \in Conn, k \in Key, f \in Field :
        KV!SetNextField(c, k, f) <=> KVP!SetNextField(c, k, f)
  BY DEF KV!SetNextField, KVP!SetNextField, KV!WriteString, KVP!WriteString,
         KV!Free, KVP!Free, KV!NoFields, KVP!NoFields
<1>6. QED
  BY <1>1, <1>2, <1>3, <1>4, <1>5

(* The command that the thread of c processes is a Request. *)
LEMMA RequestType ==
  ASSUME TypeOK, NEW c \in Conn
  PROVE  /\ req[c] \in Request
         /\ req[c].key \in Key
         /\ req[c].fields \in KVP!Update
         /\ req[c].names \in Seq(Field)
BY DEF TypeOK, Request, KVP!Update

(* A SET_FIELDS gets the mutex: what happens to the store and the log.      *)
BeginSetCall(c) ==
  /\ KVP!BeginSetFields(c, req[c].key, req[c].fields)
  /\ log' = Append(log, [key |-> req[c].key, new |-> req[c].fields])
  /\ pc' = [pc EXCEPT ![c] = "writing"]
  /\ UNCHANGED <<req, got, out, at, seen, lo>>

(* Each step of the server leaves the store and the log alone or is one of  *)
(* three store operations; a setFields is logged as it gets the mutex.      *)
LEMMA StoreStep ==
  ASSUME TypeOK, [Next]_vars
  PROVE  \/ UNCHANGED <<storeVars, log>>
         \/ \E c \in Conn : KVP!Insert(req[c].key) /\ UNCHANGED log
         \/ \E c \in Conn : BeginSetCall(c)
         \/ \E c \in Conn, f \in Field :
              KVP!SetNextField(c, req[c].key, f) /\ UNCHANGED log
<1> DEFINE Goal == \/ UNCHANGED <<storeVars, log>>
                   \/ \E c \in Conn : KVP!Insert(req[c].key) /\ UNCHANGED log
                   \/ \E c \in Conn : BeginSetCall(c)
                   \/ \E c \in Conn, f \in Field :
                        KVP!SetNextField(c, req[c].key, f) /\ UNCHANGED log
<1>1. CASE Listen \/ Idle \/ UNCHANGED vars
  BY <1>1 DEF Listen, Idle, vars, history
<1>2. ASSUME NEW c \in Conn, Accept(c) \/ Hangup(c) \/ Receive(c) \/ ReadError(c)
                             \/ ReadEnd(c) \/ EmptySet(c) \/ Send(c) \/ BrokenPipe(c)
      PROVE  UNCHANGED <<storeVars, log>>
  BY <1>2 DEF Accept, Hangup, Receive, ReadError, ReadEnd, EmptySet, Send, BrokenPipe,
              history
<1>3. ASSUME NEW c \in Conn, GetAll(c) \/ GetSelected(c)
      PROVE  UNCHANGED <<storeVars, log>>
  BY <1>3 DEF GetAll, GetSelected, LookedUp
<1>4. ASSUME NEW c \in Conn, NEW f \in Field, CopyField(c, f) \/ Fault(c, f)
      PROVE  UNCHANGED <<storeVars, log>>
  BY <1>4 DEF CopyField, Fault, history
<1>5. ASSUME NEW c \in Conn, InsertKey(c)
      PROVE  UNCHANGED <<storeVars, log>> \/ (KVP!Insert(req[c].key) /\ UNCHANGED log)
  BY <1>5, RequestType, SameStore DEF InsertKey, history
<1>6. ASSUME NEW c \in Conn, BeginSet(c)
      PROVE  BeginSetCall(c)
  BY <1>6, RequestType, SameStore DEF BeginSet, BeginSetCall, Goto, threadVars
<1>7. ASSUME NEW c \in Conn, NEW f \in Field, WriteField(c, f)
      PROVE  KVP!SetNextField(c, req[c].key, f) /\ UNCHANGED log
  BY <1>7, RequestType, SameStore DEF WriteField, history
<1>8. QED
  BY <1>1, <1>2, <1>3, <1>4, <1>5, <1>6, <1>7 DEF Next, Handle

(* So the store's own invariant holds in the server. *)
LEMMA StoreInvStep == TypeOK /\ KVP!StoreInv /\ [Next]_vars => KVP!StoreInv'
<1> SUFFICES ASSUME TypeOK, KVP!StoreInv, [Next]_vars PROVE KVP!StoreInv'
  OBVIOUS
<1>1. [KVP!Next]_KVP!vars
  <2>1. CASE UNCHANGED storeVars
    BY <2>1 DEF storeVars, KVP!vars
  <2>2. ASSUME NEW c \in Conn, KVP!Insert(req[c].key) PROVE KVP!Next
    BY <2>2, RequestType DEF KVP!Next
  <2>3. ASSUME NEW c \in Conn, BeginSetCall(c) PROVE KVP!Next
    BY <2>3, RequestType DEF KVP!Next, BeginSetCall
  <2>4. ASSUME NEW c \in Conn, NEW f \in Field, KVP!SetNextField(c, req[c].key, f)
        PROVE  KVP!Next
    BY <2>4, RequestType DEF KVP!Next
  <2>5. QED
    BY <2>1, <2>2, <2>3, <2>4, StoreStep
<1>2. QED
  BY <1>1, KVP!NextStoreInv, NilAssumption

-----------------------------------------------------------------------------
(* Types *)

Response == [type : {"SET_FIELDS", "GETALL", "GET_FIELDS", "RESPONSE"},
             key  : Key \cup {Error}]

(* The types of the threads' variables and of the history. *)
ThreadTypes ==
  /\ main \in {"start", "bound", "accepting", "exited"} \cup Conn
  /\ pc \in [Conn -> {"none", "read", "insert", "setFields", "writing",
                      "lookup", "reply", "closed"}]
  /\ peer \in [Conn -> {"open", "closed", "reset", "broken"}]
  /\ count \in [Conn -> 0..MaxCommands]
  /\ req \in [Conn -> Request]
  /\ resp \in [Conn -> Response]
  /\ got \in [Conn -> [Field -> Addr \cup {Nil}]]
  /\ out \in [Conn -> [Field -> Val \cup {Nil, Garbage}]]
  /\ log \in Seq(Call)
  /\ lo \in [Conn -> 0..Len(log)]
  /\ at \in [Conn -> 0..Len(log)]
  /\ seen \in [Conn -> [Field -> Val \cup {Nil}]]

(* The type invariant is that of the store and that of the threads. *)
LEMMA SplitTypeOK == TypeOK <=> KVP!TypeOK /\ ThreadTypes
BY SameStore DEF TypeOK, ThreadTypes, Call, Response

(* What stands in req between commands is a Request. *)
LEMMA NoRequestType == NoRequest \in Request
BY CommandsAssumption DEF NoRequest

(* A Response that Respond sets is one. *)
LEMMA RespondType ==
  ASSUME resp \in [Conn -> Response], NEW c \in Conn, NEW key \in Key,
         NEW type \in {"SET_FIELDS", "GETALL", "GET_FIELDS"},
         Respond(c, type, key) \/ Respond(c, "RESPONSE", Error)
  PROVE  resp' \in [Conn -> Response]
<1>1. [type |-> type, key |-> key] \in Response /\ [type |-> "RESPONSE", key |-> Error] \in Response
  BY DEF Response
<1>2. QED
  BY <1>1 DEF Respond

(* Every step keeps the types of the threads' variables. *)
LEMMA ThreadTypesStep ==
  ASSUME KVP!TypeOK, ThreadTypes, [Next]_vars
  PROVE  ThreadTypes'
<1> USE DEF ThreadTypes, Goto, threadVars, history
<1>0. ASSUME NEW c \in Conn PROVE req[c].key \in Key
  BY DEF Request
<1>1. CASE Listen \/ Idle \/ UNCHANGED vars
  BY <1>1 DEF Listen, Idle, vars
<1>2. ASSUME NEW c \in Conn, Accept(c) PROVE ThreadTypes'
  BY <1>2 DEF Accept
<1>3. ASSUME NEW c \in Conn, Hangup(c) PROVE ThreadTypes'
  BY <1>3 DEF Hangup
<1>4. ASSUME NEW c \in Conn, Receive(c) PROVE ThreadTypes'
  <2>1. PICK r \in Commands :
          /\ count[c] < MaxCommands
          /\ count' = [count EXCEPT ![c] = @ + 1]
          /\ Goto(c, "read", FirstStep(r.type))
          /\ req' = [req EXCEPT ![c] = r]
          /\ lo' = [lo EXCEPT ![c] = Len(log)]
          /\ UNCHANGED <<storeVars, peer, resp, got, out, log, at, seen>>
    BY <1>4 DEF Receive
  <2>2. r \in Request /\ r.type \in {"SET_FIELDS", "GETALL", "GET_FIELDS", "INVALID"}
    BY CommandsAssumption DEF Request
  <2>3. FirstStep(r.type) \in {"insert", "lookup", "reply"}
    BY <2>2 DEF FirstStep
  <2>4. count' \in [Conn -> 0..MaxCommands]
    BY <2>1, MaxCommandsAssumption
  <2>5. req' \in [Conn -> Request]
    BY <2>1, <2>2
  <2>6. QED
    BY <2>1, <2>3, <2>4, <2>5
<1>5. ASSUME NEW c \in Conn, ReadError(c) PROVE ThreadTypes'
  <2>1. Invalid(req[c].key) \in Request
    BY DEF Invalid, Request, NoFields
  <2>2. QED
    BY <1>5, <2>1 DEF ReadError
<1>6. ASSUME NEW c \in Conn, ReadEnd(c) PROVE ThreadTypes'
  BY <1>6 DEF ReadEnd
<1>7. ASSUME NEW c \in Conn, InsertKey(c) PROVE ThreadTypes'
  BY <1>7 DEF InsertKey
<1>8. ASSUME NEW c \in Conn, BeginSet(c) PROVE ThreadTypes'
  <2>1. [key |-> req[c].key, new |-> req[c].fields] \in Call
    BY DEF Call, Request
  <2>2. /\ log' = Append(log, [key |-> req[c].key, new |-> req[c].fields])
        /\ UNCHANGED <<lo, at>>
    BY <1>8 DEF BeginSet
  <2>3. /\ log' \in Seq(Call)
        /\ Len(log') = Len(log) + 1
    BY <2>1, <2>2
  <2>4. lo' \in [Conn -> 0..Len(log')] /\ at' \in [Conn -> 0..Len(log')]
    BY <2>2, <2>3
  <2>5. QED
    BY <1>8, <2>3, <2>4 DEF BeginSet
<1>9. ASSUME NEW c \in Conn, EmptySet(c) PROVE ThreadTypes'
  <2>1. Respond(c, "SET_FIELDS", req[c].key) \/ Respond(c, "RESPONSE", Error)
    BY <1>9 DEF EmptySet
  <2>2. QED
    BY <2>1, <1>0, <1>9, RespondType DEF EmptySet
<1>10. ASSUME NEW c \in Conn, NEW f \in Field, WriteField(c, f) PROVE ThreadTypes'
  <2>1. Respond(c, "SET_FIELDS", req[c].key) \/ UNCHANGED resp
    BY <1>10 DEF WriteField
  <2>2. QED
    BY <2>1, <1>0, <1>10, RespondType DEF WriteField
<1>11. ASSUME NEW c \in Conn, NEW ptrs \in [Field -> Addr \cup {Nil}], LookedUp(c, ptrs)
       PROVE  /\ got' \in [Conn -> [Field -> Addr \cup {Nil}]]
              /\ at' \in [Conn -> 0..Len(log)]
              /\ seen' \in [Conn -> [Field -> Val \cup {Nil}]]
              /\ pc' \in [Conn -> {"none", "read", "insert", "setFields", "writing",
                                   "lookup", "reply", "closed"}]
              /\ UNCHANGED <<main, peer, count, req, out, log, lo>>
  <2>1. /\ got' = [got EXCEPT ![c] = ptrs]
        /\ at' = [at EXCEPT ![c] = Len(log)]
        /\ pc' = [pc EXCEPT ![c] = "reply"]
        /\ UNCHANGED <<main, peer, count, req, out, log, lo>>
    BY <1>11 DEF LookedUp
  <2>2. [f \in Field |-> IF ptrs[f] = Nil THEN Nil ELSE heap[ptrs[f]]]
          \in [Field -> Val \cup {Nil}]
    BY DEF KVP!TypeOK
  <2>3. seen' \in [Conn -> [Field -> Val \cup {Nil}]]
    BY <1>11, <2>2 DEF LookedUp
  <2>4. Len(log) \in 0..Len(log)
    OBVIOUS
  <2>5. at' \in [Conn -> 0..Len(log)] /\ got' \in [Conn -> [Field -> Addr \cup {Nil}]]
    BY <2>1, <2>4
  <2>6. pc' \in [Conn -> {"none", "read", "insert", "setFields", "writing",
                           "lookup", "reply", "closed"}]
    BY <2>1
  <2>7. QED
    BY <2>1, <2>3, <2>5, <2>6
<1>12. ASSUME NEW c \in Conn, GetAll(c) PROVE ThreadTypes'
  <2>1. KV!GetFields(req[c].key) \in [Field -> Addr \cup {Nil}]
    BY DEF KV!GetFields, KV!GetField, KVP!TypeOK, Request
  <2>2. LookedUp(c, KV!GetFields(req[c].key))
    BY <1>12 DEF GetAll
  <2>3. Respond(c, "RESPONSE", Error) \/ Respond(c, "GETALL", req[c].key)
    BY <1>12 DEF GetAll
  <2>4. resp' \in [Conn -> Response]
    BY <1>0, <2>3, RespondType
  <2>5. QED
    BY <2>1, <2>2, <2>4, <1>11
<1>13. ASSUME NEW c \in Conn, GetSelected(c) PROVE ThreadTypes'
  <2>1. KV!GetSelectedFields(req[c].key, NamesOf(req[c])) \in [Field -> Addr \cup {Nil}]
    BY DEF KV!GetSelectedFields, KV!GetField, KVP!TypeOK, Request
  <2>2. LookedUp(c, KV!GetSelectedFields(req[c].key, NamesOf(req[c])))
    BY <1>13 DEF GetSelected
  <2>3. Respond(c, "RESPONSE", Error) \/ Respond(c, "GET_FIELDS", req[c].key)
    BY <1>13 DEF GetSelected
  <2>4. resp' \in [Conn -> Response]
    BY <1>0, <2>3, RespondType
  <2>5. QED
    BY <2>1, <2>2, <2>4, <1>11
<1>14. ASSUME NEW c \in Conn, NEW f \in Field, CopyField(c, f) PROVE ThreadTypes'
  <2>1. got[c][f] \in Addr
    BY <1>14 DEF CopyField, ToCopy, Found
  <2>2. out' \in [Conn -> [Field -> Val \cup {Nil, Garbage}]]
    BY <1>14, <2>1 DEF CopyField, KVP!TypeOK
  <2>3. QED
    BY <1>14, <2>2 DEF CopyField
<1>15. ASSUME NEW c \in Conn, NEW f \in Field, Fault(c, f) PROVE ThreadTypes'
  BY <1>15 DEF Fault
<1>16. ASSUME NEW c \in Conn, Send(c) PROVE ThreadTypes'
  <2>1. PICK p \in AfterSend(peer[c]) : peer' = [peer EXCEPT ![c] = p]
    BY <1>16 DEF Send
  <2>2. p \in {"open", "closed", "reset", "broken"}
    BY DEF AfterSend
  <2>3. NoResponse \in Response
    BY DEF NoResponse, Response
  <2>4. Len(log) \in Nat
    OBVIOUS
  <2>5. peer' \in [Conn -> {"open", "closed", "reset", "broken"}]
    BY <2>1, <2>2
  <2>6. QED
    BY <1>16, <2>3, <2>4, <2>5, NoRequestType DEF Send, NoFields
<1>17. ASSUME NEW c \in Conn, BrokenPipe(c) PROVE ThreadTypes'
  BY <1>17 DEF BrokenPipe
<1>18. QED
  BY <1>1, <1>2, <1>3, <1>4, <1>5, <1>6, <1>7, <1>8, <1>9, <1>10, <1>12, <1>13, <1>14,
     <1>15, <1>16, <1>17
     DEF Next, Handle

-----------------------------------------------------------------------------
(* The inductive invariant *)

Gets == {"GETALL", "GET_FIELDS"}

(* While a SET_FIELDS is being processed its key is there from the insert on. *)
SetInProgress ==
  \A c \in Conn :
    /\ pc[c] \in {"insert", "setFields", "writing"} => req[c].type = "SET_FIELDS"
    /\ pc[c] \in {"setFields", "writing"} => req[c].key \in present

(* The store, with what a setFields has still to write, is what the calls   *)
(* so far make it.                                                          *)
LogIsStore ==
  \A k \in Key, f \in Field : KVP!View[k][f] = AsOf(log, Len(log), k)[f]

(* What a lookup saw is the store as it was then. *)
SeenIsPast ==
  \A c \in Conn :
    pc[c] = "reply" /\ req[c].type \in Gets =>
      /\ lo[c] <= at[c]
      /\ \A f \in Field : seen[c][f] = IF f \in Asked(req[c])
                                      THEN AsOf(log, at[c], req[c].key)[f] ELSE Nil

(* A pointer that waits to be followed is still the record's, its string    *)
(* the one the lookup saw and no write to it pending; or else the field was *)
(* overwritten.  Only a lookup has such pointers.                           *)
PointersSound ==
  \A c \in Conn, f \in Field :
    got[c][f] # Nil =>
      /\ pc[c] = "reply"
      /\ req[c].type \in Gets
      /\ \/ Overwritten(c, f)
         \/ /\ fields[req[c].key][f] = got[c][f]
            /\ heap[got[c][f]] = seen[c][f]
            /\ seen[c][f] # Nil
            /\ todo[req[c].key][f] = Nil

(* So a string that was copied is the one the lookup saw, or else.          *)
CopiesSound ==
  \A c \in Conn, f \in Field :
    out[c][f] # Nil =>
      /\ pc[c] = "reply"
      /\ out[c][f] = seen[c][f] \/ Overwritten(c, f)

IInv ==
  /\ KVP!StoreInv
  /\ ThreadTypes
  /\ WriterHoldsMutex
  /\ SetInProgress
  /\ SetAlwaysAccepted
  /\ NoLeak
  /\ LogIsStore
  /\ SeenIsPast
  /\ PointersSound
  /\ CopiesSound

-----------------------------------------------------------------------------
(* What a step does to the thread of connection d                           *)

(* It is not d's, or d's place and what d has looked up stay. *)
Still(d) ==
  /\ pc'[d] = pc[d] /\ req'[d] = req[d] /\ got'[d] = got[d] /\ out'[d] = out[d]
  /\ lo'[d] = lo[d] /\ at'[d] = at[d] /\ seen'[d] = seen[d]

(* It is d's, and neither before nor after it is there a lookup to answer.  *)
Elsewhere(d) ==
  /\ pc[d] # "reply"
  /\ pc'[d] = "reply" => req'[d].type \notin Gets
  /\ got'[d] = got[d] /\ out'[d] = out[d]

(* It is d's lookup. *)
Looked(d) ==
  \E names \in SUBSET Field :
    LET ptrs == KV!GetSelectedFields(req[d].key, names) IN
    /\ names = Asked(req[d]) /\ req[d].type \in Gets
    /\ mutex = Nil
    /\ pc[d] = "lookup" /\ pc'[d] = "reply"
    /\ req'[d] = req[d] /\ out'[d] = out[d] /\ lo'[d] = lo[d]
    /\ got'[d] = ptrs
    /\ at'[d] = Len(log)
    /\ seen'[d] = [f \in Field |-> IF ptrs[f] = Nil THEN Nil ELSE heap[ptrs[f]]]
    /\ UNCHANGED <<storeVars, log>>

(* It copies one of d's strings. *)
CopiedOne(d) ==
  /\ pc[d] = "reply" /\ pc'[d] = "reply"
  /\ req'[d] = req[d] /\ got'[d] = got[d]
  /\ lo'[d] = lo[d] /\ at'[d] = at[d] /\ seen'[d] = seen[d]
  /\ UNCHANGED <<storeVars, log>>
  /\ \E f \in Field :
       /\ got[d][f] # Nil
       /\ out'[d][f] = IF heap[got[d][f]] = Nil THEN Garbage ELSE heap[got[d][f]]
       /\ \A g \in Field : g # f => out'[d][g] = out[d][g]

(* It ends d's reply. *)
Sent(d) == pc'[d] = "read" /\ got'[d] = NoFields /\ out'[d] = NoFields

(* These are all the cases there are. *)
LEMMA ThreadStep ==
  ASSUME ThreadTypes, SetInProgress, [Next]_vars, NEW d \in Conn
  PROVE  Still(d) \/ Elsewhere(d) \/ Looked(d) \/ CopiedOne(d) \/ Sent(d)
<1> USE DEF ThreadTypes, threadVars, history
<1>1. CASE Listen \/ Idle \/ UNCHANGED vars
  BY <1>1 DEF Listen, Idle, vars, Still
<1>2. ASSUME NEW c \in Conn, Accept(c) \/ Hangup(c) \/ ReadEnd(c) \/ InsertKey(c) \/ BrokenPipe(c)
      PROVE  Still(d) \/ Elsewhere(d)
  BY <1>2 DEF Accept, Hangup, ReadEnd, InsertKey, BrokenPipe, Goto, Still, Elsewhere
<1>3. ASSUME NEW c \in Conn, Receive(c) PROVE Still(d) \/ Elsewhere(d)
  <2>1. PICK r \in Commands :
          /\ Goto(c, "read", FirstStep(r.type))
          /\ req' = [req EXCEPT ![c] = r]
          /\ lo' = [lo EXCEPT ![c] = Len(log)]
          /\ UNCHANGED <<got, out, at, seen>>
    BY <1>3 DEF Receive
  <2>2. r \in Request /\ r.type \in {"SET_FIELDS", "GETALL", "GET_FIELDS", "INVALID"}
    BY CommandsAssumption DEF Request
  <2>3. FirstStep(r.type) = "reply" => r.type \notin Gets
    BY <2>2 DEF FirstStep, Gets
  <2>4. CASE c = d
    BY <2>1, <2>2, <2>3, <2>4 DEF Elsewhere, Goto
  <2>5. CASE c # d
    BY <2>1, <2>5 DEF Still, Goto
  <2>6. QED
    BY <2>4, <2>5
<1>4. ASSUME NEW c \in Conn, ReadError(c) PROVE Still(d) \/ Elsewhere(d)
  <2>1. Invalid(req[c].key) \in Request /\ Invalid(req[c].key).type \notin Gets
    BY DEF Invalid, Request, NoFields, Gets
  <2>2. QED
    BY <1>4, <2>1 DEF ReadError, Goto, Still, Elsewhere
<1>5. ASSUME NEW c \in Conn, BeginSet(c) PROVE Still(d) \/ Elsewhere(d)
  BY <1>5 DEF BeginSet, Goto, Still, Elsewhere
<1>6. ASSUME NEW c \in Conn, EmptySet(c) PROVE Still(d) \/ Elsewhere(d)
  BY <1>6 DEF EmptySet, Goto, Still, Elsewhere, SetInProgress, Gets
<1>7. ASSUME NEW c \in Conn, NEW f \in Field, WriteField(c, f)
      PROVE  Still(d) \/ Elsewhere(d)
  BY <1>7 DEF WriteField, Goto, Still, Elsewhere, SetInProgress, Gets
<1>8. ASSUME NEW c \in Conn, NEW f \in Field, Fault(c, f) PROVE Still(d)
  BY <1>8 DEF Fault, Still
<1>9. ASSUME NEW c \in Conn, NEW f \in Field, CopyField(c, f)
      PROVE  Still(d) \/ CopiedOne(d)
  <2>1. got[c][f] # Nil
    BY <1>9 DEF CopyField, ToCopy, Found
  <2>2. CASE c # d
    BY <1>9, <2>2 DEF CopyField, Goto, Still
  <2>3. CASE c = d
    BY <1>9, <2>1, <2>3 DEF CopyField, Goto, CopiedOne, storeVars
  <2>4. QED
    BY <2>2, <2>3
<1>10. ASSUME NEW c \in Conn, NEW names \in SUBSET Field, names = Asked(req[c]),
              req[c].type \in Gets, LookedUp(c, KV!GetSelectedFields(req[c].key, names))
       PROVE  Still(d) \/ Looked(d)
  <2>1. CASE c # d
    BY <1>10, <2>1 DEF LookedUp, Goto, Still
  <2>2. CASE c = d
    BY <1>10, <2>2 DEF LookedUp, Goto, Looked, storeVars
  <2>3. QED
    BY <2>1, <2>2
<1>11. ASSUME NEW c \in Conn, GetAll(c) PROVE Still(d) \/ Looked(d)
  <2>1. Asked(req[c]) = Field
    BY <1>11 DEF GetAll, Asked
  <2>2. KV!GetFields(req[c].key) = KV!GetSelectedFields(req[c].key, Field)
    BY DEF KV!GetFields, KV!GetSelectedFields
  <2>3. LookedUp(c, KV!GetSelectedFields(req[c].key, Field))
    BY <1>11, <2>2 DEF GetAll
  <2>4. req[c].type \in Gets
    BY <1>11 DEF GetAll, Gets
  <2>5. QED
    BY <2>1, <2>3, <2>4, <1>10
<1>12. ASSUME NEW c \in Conn, GetSelected(c) PROVE Still(d) \/ Looked(d)
  <2>1. Asked(req[c]) = NamesOf(req[c])
    BY <1>12 DEF GetSelected, Asked
  <2>2. NamesOf(req[c]) \in SUBSET Field
    BY DEF NamesOf, Request
  <2>3. LookedUp(c, KV!GetSelectedFields(req[c].key, NamesOf(req[c])))
    BY <1>12 DEF GetSelected
  <2>4. req[c].type \in Gets
    BY <1>12 DEF GetSelected, Gets
  <2>5. QED
    BY <2>1, <2>2, <2>3, <2>4, <1>10
<1>13. ASSUME NEW c \in Conn, Send(c) PROVE Still(d) \/ Sent(d)
  BY <1>13 DEF Send, Goto, Still, Sent
<1>14. QED
  BY <1>1, <1>2, <1>3, <1>4, <1>5, <1>6, <1>7, <1>8, <1>9, <1>11, <1>12, <1>13
     DEF Next, Handle

-----------------------------------------------------------------------------
(* What a step does to the records                                          *)

(* Keys and fields that exist stay. *)
LEMMA GrowStep ==
  ASSUME TypeOK, KVP!StoreInv, [Next]_vars
  PROVE  /\ present \subseteq present'
         /\ \A k \in Key, f \in Field : fields[k][f] # Nil => fields'[k][f] # Nil
<1>1. CASE UNCHANGED storeVars
  BY <1>1 DEF storeVars
<1>2. ASSUME NEW c \in Conn, KVP!Insert(req[c].key)
      PROVE  /\ present \subseteq present'
             /\ \A k \in Key, f \in Field : fields[k][f] # Nil => fields'[k][f] # Nil
  BY <1>2, RequestType DEF KVP!Insert, KVP!StoreInv, KVP!TypeOK, KVP!NoOrphanField
<1>3. ASSUME NEW c \in Conn, BeginSetCall(c)
      PROVE  UNCHANGED <<present, fields>>
  BY <1>3 DEF BeginSetCall, KVP!BeginSetFields
<1>4. ASSUME NEW c \in Conn, NEW f \in Field, KVP!SetNextField(c, req[c].key, f)
      PROVE  /\ present = present'
             /\ \A k \in Key, g \in Field : fields[k][g] # Nil => fields'[k][g] # Nil
  <2>1. PICK a \in Addr : fields' = [fields EXCEPT ![req[c].key][f] = a]
    BY <1>4 DEF KVP!SetNextField, KVP!WriteString
  <2>2. QED
    BY <1>4, <2>1, RequestType, NilAssumption
       DEF KVP!SetNextField, KVP!StoreInv, KVP!TypeOK
<1>5. QED
  BY <1>1, <1>2, <1>3, <1>4, StoreStep

(* Nothing becomes unreachable without being deleted. *)
LEMMA NoLeakStep ==
  ASSUME TypeOK, KVP!StoreInv, NoLeak, [Next]_vars
  PROVE  NoLeak'
<1>1. CASE UNCHANGED storeVars
  BY <1>1 DEF storeVars, NoLeak, KV!Leaked, KV!Live, KV!Reachable
<1>2. ASSUME NEW c \in Conn, KVP!Insert(req[c].key) PROVE KVP!Leaked' = KVP!Leaked
  <2>1. fields' = fields
    BY <1>2, RequestType DEF KVP!Insert, KVP!StoreInv, KVP!TypeOK, KVP!NoOrphanField
  <2>2. QED
    BY <1>2, <2>1 DEF KVP!Insert, KVP!Leaked, KVP!Live, KVP!Reachable
<1>3. ASSUME NEW c \in Conn, BeginSetCall(c) PROVE KVP!Leaked' = KVP!Leaked
  BY <1>3 DEF BeginSetCall, KVP!BeginSetFields, KVP!Leaked, KVP!Live, KVP!Reachable
<1>4. ASSUME NEW c \in Conn, NEW f \in Field, KVP!SetNextField(c, req[c].key, f)
      PROVE  KVP!Leaked' = KVP!Leaked
  <2>1. todo[req[c].key][f] \in Val
    BY <1>4, RequestType
       DEF KVP!SetNextField, KVP!StoreInv, KVP!TypeOK, KVP!Update
  <2>2. QED
    BY <1>4, <2>1, RequestType, NilAssumption, KVP!WriteLeaksNothing
       DEF KVP!SetNextField
<1>5. KV!Leaked = KVP!Leaked /\ KV!Leaked' = KVP!Leaked'
  BY SameStore DEF KV!Leaked, KVP!Leaked, KV!Live, KVP!Live, KV!Reachable, KVP!Reachable
<1>6. QED
  BY <1>1, <1>2, <1>3, <1>4, <1>5, StoreStep DEF NoLeak

(* A setFields call shows in the store when it gets the mutex, where the    *)
(* log has it too; nothing else shows.                                      *)
LEMMA LogIsStoreStep ==
  ASSUME TypeOK, KVP!StoreInv, KVP!StoreInv', LogIsStore, [Next]_vars
  PROVE  LogIsStore'
<1>1. CASE UNCHANGED <<storeVars, log>>
  BY <1>1 DEF storeVars, LogIsStore, KVP!View, KVP!ViewField, KVP!GetField
<1>2. ASSUME NEW c \in Conn, KVP!Insert(req[c].key), UNCHANGED log PROVE LogIsStore'
  <2>1. KVP!View' = KVP!View
    BY <1>2, RequestType, NilAssumption, KVP!InsertView
  <2>2. QED
    BY <1>2, <2>1 DEF LogIsStore
<1>3. ASSUME NEW c \in Conn, NEW f \in Field,
             KVP!SetNextField(c, req[c].key, f), UNCHANGED log
      PROVE  LogIsStore'
  <2>1. KVP!View' = KVP!View
    BY <1>3, RequestType, NilAssumption, KVP!SetNextFieldView
  <2>2. QED
    BY <1>3, <2>1 DEF LogIsStore
<1>4. ASSUME NEW c \in Conn, BeginSetCall(c) PROVE LogIsStore'
  <2> DEFINE e == [key |-> req[c].key, new |-> req[c].fields]
  <2>1. /\ e \in Call
        /\ e.key = req[c].key /\ e.new = req[c].fields
    BY RequestType DEF Call, KVP!Update
  <2>2. log \in Seq(Call)
    BY DEF TypeOK, Call
  <2>3. log' = Append(log, e) /\ Len(log') = Len(log) + 1
    BY <1>4, <2>1, <2>2 DEF BeginSetCall
  <2>4. \A j \in Key, g \in Field :
          KVP!View'[j][g] = IF j = req[c].key /\ req[c].fields[g] # Nil
                            THEN req[c].fields[g] ELSE KVP!View[j][g]
    BY <1>4, RequestType, NilAssumption, KVP!BeginSetFieldsView DEF BeginSetCall
  <2> HIDE DEF e
  <2>5. ASSUME NEW j \in Key, NEW g \in Field
        PROVE  KVP!View'[j][g] = AsOf(log', Len(log'), j)[g]
    <3>1. AsOf(log', Len(log'), j)[g] = IF e.key = j /\ e.new[g] # Nil THEN e.new[g]
                                        ELSE AsOf(log, Len(log), j)[g]
      BY <2>1, <2>2, <2>3, AsOfAppend
    <3>2. AsOf(log, Len(log), j)[g] = KVP!View[j][g]
      BY DEF LogIsStore
    <3>3. QED
      BY <3>1, <3>2, <2>1, <2>4
  <2>6. QED
    BY <2>5 DEF LogIsStore
<1>5. QED
  BY <1>1, <1>2, <1>3, <1>4, StoreStep

-----------------------------------------------------------------------------
(* The mutex and the progress of a SET_FIELDS                               *)

(* All steps but two leave the mutex, and what its holder has to do, alone. *)
LEMMA MutexStep ==
  ASSUME ThreadTypes, [Next]_vars
  PROVE  \/ /\ UNCHANGED <<mutex, todo>>
            /\ \A d \in Conn : pc'[d] = "writing" <=> pc[d] = "writing"
            /\ \A d \in Conn : pc[d] = "writing" => req'[d] = req[d]
         \/ \E c \in Conn : BeginSet(c)
         \/ \E c \in Conn, f \in Field : WriteField(c, f)
<1> USE DEF ThreadTypes, threadVars, history, Goto
<1> DEFINE Same == /\ UNCHANGED <<mutex, todo>>
                   /\ \A d \in Conn : pc'[d] = "writing" <=> pc[d] = "writing"
                   /\ \A d \in Conn : pc[d] = "writing" => req'[d] = req[d]
<1>1. CASE Listen \/ Idle \/ UNCHANGED vars
  BY <1>1 DEF Listen, Idle, vars, storeVars
<1>2. ASSUME NEW c \in Conn, Receive(c) PROVE Same
  <2>1. PICK r \in Commands :
          /\ Goto(c, "read", FirstStep(r.type))
          /\ req' = [req EXCEPT ![c] = r]
          /\ UNCHANGED storeVars
    BY <1>2 DEF Receive
  <2>2. r.type \in {"SET_FIELDS", "GETALL", "GET_FIELDS", "INVALID"}
    BY CommandsAssumption DEF Request
  <2>3. FirstStep(r.type) # "writing"
    BY <2>2 DEF FirstStep
  <2>4. QED
    BY <2>1, <2>3 DEF storeVars
<1>3. ASSUME NEW c \in Conn, Accept(c) \/ Hangup(c) \/ ReadEnd(c) \/ BrokenPipe(c)
      PROVE  Same
  BY <1>3 DEF Accept, Hangup, ReadEnd, BrokenPipe, storeVars
<1>4. ASSUME NEW c \in Conn, ReadError(c) \/ EmptySet(c) \/ Send(c) PROVE Same
  BY <1>4 DEF ReadError, EmptySet, Send, storeVars
<1>5. ASSUME NEW c \in Conn, InsertKey(c) PROVE Same
  BY <1>5 DEF InsertKey, KV!Insert, storeVars
<1>6. ASSUME NEW c \in Conn, NEW f \in Field, CopyField(c, f) \/ Fault(c, f) PROVE Same
  BY <1>6 DEF CopyField, Fault, storeVars
<1>7. ASSUME NEW c \in Conn, GetAll(c) \/ GetSelected(c) PROVE Same
  BY <1>7 DEF GetAll, GetSelected, LookedUp, storeVars
<1>8. QED
  BY <1>1, <1>2, <1>3, <1>4, <1>5, <1>6, <1>7 DEF Next, Handle

(* Every step leaves at most one thread inside setFields. *)
LEMMA WriterHoldsMutexStep ==
  ASSUME TypeOK, KVP!StoreInv, WriterHoldsMutex, [Next]_vars
  PROVE  WriterHoldsMutex'
<1>0. KVP!TypeOK /\ ThreadTypes
  BY SplitTypeOK
<1>1. CASE /\ UNCHANGED <<mutex, todo>>
           /\ \A d \in Conn : pc'[d] = "writing" <=> pc[d] = "writing"
           /\ \A d \in Conn : pc[d] = "writing" => req'[d] = req[d]
  BY <1>1 DEF WriterHoldsMutex
<1>2. ASSUME NEW c \in Conn, BeginSet(c) PROVE WriterHoldsMutex'
  <2>1. BeginSetCall(c) /\ mutex = Nil
    BY <1>2, RequestType, SameStore
       DEF BeginSet, BeginSetCall, Goto, threadVars, KVP!BeginSetFields
  <2>2. \A k \in Key : todo[k] = NoFields
    BY <2>1 DEF KVP!StoreInv, KVP!LockCoversUpdate, KVP!NoFields, NoFields
  <2>3. /\ mutex' = c
        /\ \A k \in Key : todo'[k] # NoFields => k = req'[c].key
    BY <2>1, <2>2, <1>0 DEF BeginSetCall, KVP!BeginSetFields, KVP!TypeOK
  <2>4. \A d \in Conn : pc'[d] = "writing" <=> d = c
    BY <2>1, <1>0, NilAssumption DEF BeginSetCall, WriterHoldsMutex, ThreadTypes
  <2>5. QED
    BY <2>3, <2>4 DEF WriterHoldsMutex
<1>3. ASSUME NEW c \in Conn, NEW f \in Field, WriteField(c, f) PROVE WriterHoldsMutex'
  <2>1. /\ KVP!SetNextField(c, req[c].key, f)
        /\ pc' = [pc EXCEPT ![c] = IF mutex' = Nil THEN "reply" ELSE "writing"]
        /\ req' = req
    BY <1>3, RequestType, SameStore DEF WriteField, Goto
  <2>2. mutex = c /\ (mutex' = Nil \/ mutex' = c)
    BY <2>1 DEF KVP!SetNextField
  <2>3. \A d \in Conn : pc'[d] = "writing" <=> mutex' = d
    BY <2>1, <2>2, <1>0, NilAssumption DEF WriterHoldsMutex, ThreadTypes
  <2>4. \A k \in Key : k # req[c].key => todo'[k] = todo[k]
    BY <2>1, <1>0 DEF KVP!SetNextField, KVP!TypeOK
  <2>5. QED
    BY <2>1, <2>2, <2>3, <2>4, NilAssumption DEF WriterHoldsMutex
<1>4. QED
  BY <1>0, <1>1, <1>2, <1>3, MutexStep

(* A key that was inserted is there for setFields, whatever other threads   *)
(* do in between.                                                           *)
LEMMA SetInProgressStep ==
  ASSUME TypeOK, KVP!StoreInv, SetInProgress, [Next]_vars
  PROVE  SetInProgress'
<1>0. ThreadTypes /\ present \subseteq present'
  BY SplitTypeOK, GrowStep
<1> SUFFICES ASSUME NEW d \in Conn
             PROVE  /\ pc'[d] \in {"insert", "setFields", "writing"}
                         => req'[d].type = "SET_FIELDS"
                    /\ pc'[d] \in {"setFields", "writing"} => req'[d].key \in present'
  BY DEF SetInProgress
<1> USE <1>0 DEF ThreadTypes, threadVars, history, Goto, SetInProgress
<1>1. CASE pc'[d] = pc[d] /\ req'[d] = req[d]
  BY <1>1
<1>2. CASE pc'[d] \notin {"insert", "setFields", "writing"}
  BY <1>2
<1>3. CASE Receive(d)
  <2>1. PICK r \in Commands :
          /\ Goto(d, "read", FirstStep(r.type))
          /\ req' = [req EXCEPT ![d] = r]
    BY <1>3 DEF Receive
  <2>2. r.type \in {"SET_FIELDS", "GETALL", "GET_FIELDS", "INVALID"}
    BY CommandsAssumption DEF Request
  <2>3. /\ FirstStep(r.type) = "insert" => r.type = "SET_FIELDS"
        /\ FirstStep(r.type) \in {"insert", "lookup", "reply"}
    BY <2>2 DEF FirstStep
  <2>4. QED
    BY <2>1, <2>3
<1>4. CASE InsertKey(d)
  <2>1. pc[d] = "insert" /\ req'[d] = req[d] /\ req[d].key \in Key
    BY <1>4, RequestType DEF InsertKey
  <2>2. req[d].key \in present'
    BY <1>4, <2>1 DEF InsertKey, KV!Insert, storeVars
  <2>3. QED
    BY <2>1, <2>2
<1>5. CASE BeginSet(d)
  BY <1>5 DEF BeginSet
<1>6. ASSUME NEW f \in Field, WriteField(d, f)
      PROVE  pc[d] = "writing" /\ req'[d] = req[d]
  BY <1>6 DEF WriteField
<1>7. \/ pc'[d] = pc[d] /\ req'[d] = req[d]
      \/ pc'[d] \notin {"insert", "setFields", "writing"}
      \/ Receive(d) \/ InsertKey(d) \/ BeginSet(d)
      \/ \E f \in Field : WriteField(d, f)
  <2> DEFINE Stays == pc'[d] = pc[d] /\ req'[d] = req[d]
             Leaves == pc'[d] \notin {"insert", "setFields", "writing"}
  <2>1. CASE Listen \/ Idle \/ UNCHANGED vars
    BY <2>1 DEF Listen, Idle, vars
  <2>2. ASSUME NEW c \in Conn,
               \/ Accept(c) \/ Hangup(c) \/ ReadError(c) \/ ReadEnd(c)
               \/ EmptySet(c) \/ Send(c) \/ BrokenPipe(c)
        PROVE  Stays \/ Leaves
    BY <2>2 DEF Accept, Hangup, ReadError, ReadEnd, EmptySet, Send, BrokenPipe
  <2>3. ASSUME NEW c \in Conn, GetAll(c) \/ GetSelected(c) PROVE Stays \/ Leaves
    BY <2>3 DEF GetAll, GetSelected, LookedUp
  <2>4. ASSUME NEW c \in Conn, NEW f \in Field, CopyField(c, f) \/ Fault(c, f)
        PROVE  Stays
    BY <2>4 DEF CopyField, Fault
  <2>5. ASSUME NEW c \in Conn, c # d,
               \/ Receive(c) \/ InsertKey(c) \/ BeginSet(c)
               \/ \E f \in Field : WriteField(c, f)
        PROVE  Stays
    BY <2>5 DEF Receive, InsertKey, BeginSet, WriteField
  <2>6. QED
    BY <2>1, <2>2, <2>3, <2>4, <2>5 DEF Next, Handle
<1>8. QED
  BY <1>1, <1>2, <1>3, <1>4, <1>5, <1>6, <1>7

(* Every way to the reply of a SET_FIELDS answers it as a success. *)
LEMMA SetAlwaysAcceptedStep ==
  ASSUME ThreadTypes, SetInProgress, SetAlwaysAccepted, [Next]_vars
  PROVE  SetAlwaysAccepted'
<1> SUFFICES ASSUME NEW d \in Conn, pc'[d] = "reply", req'[d].type = "SET_FIELDS"
             PROVE  resp'[d].type = "SET_FIELDS"
  BY DEF SetAlwaysAccepted
<1> USE DEF ThreadTypes, threadVars, history, Goto
<1> DEFINE Stays == pc'[d] = pc[d] /\ req'[d] = req[d] /\ resp'[d] = resp[d]
<1>1. CASE Stays
  BY <1>1 DEF SetAlwaysAccepted
<1>2. CASE EmptySet(d)
  <2>1. Respond(d, "SET_FIELDS", req[d].key)
    BY <1>2 DEF EmptySet, SetInProgress
  <2>2. QED
    BY <2>1 DEF Respond
<1>3. ASSUME NEW f \in Field, WriteField(d, f) PROVE resp'[d].type = "SET_FIELDS"
  <2>1. Respond(d, "SET_FIELDS", req[d].key)
    BY <1>3 DEF WriteField
  <2>2. QED
    BY <2>1 DEF Respond
<1>4. Stays \/ EmptySet(d) \/ \E f \in Field : WriteField(d, f)
  <2>1. CASE Listen \/ Idle \/ UNCHANGED vars
    BY <2>1 DEF Listen, Idle, vars
  <2>2. ASSUME NEW c \in Conn,
               \/ Accept(c) \/ Hangup(c) \/ ReadEnd(c) \/ InsertKey(c)
               \/ BeginSet(c) \/ Send(c) \/ BrokenPipe(c)
        PROVE  Stays
    BY <2>2 DEF Accept, Hangup, ReadEnd, InsertKey, BeginSet, Send, BrokenPipe
  <2>3. ASSUME NEW c \in Conn, ReadError(c) PROVE Stays
    <3>1. Invalid(req[c].key).type # "SET_FIELDS"
      BY DEF Invalid
    <3>2. QED
      BY <2>3, <3>1 DEF ReadError
  <2>4. ASSUME NEW c \in Conn, Receive(c) PROVE Stays
    <3>1. PICK r \in Commands :
            /\ Goto(c, "read", FirstStep(r.type))
            /\ req' = [req EXCEPT ![c] = r]
            /\ UNCHANGED resp
      BY <2>4 DEF Receive
    <3>2. r.type = "SET_FIELDS" => FirstStep(r.type) = "insert"
      BY DEF FirstStep
    <3>3. QED
      BY <3>1, <3>2
  <2>5. ASSUME NEW c \in Conn, NEW f \in Field, CopyField(c, f) \/ Fault(c, f)
        PROVE  Stays
    BY <2>5 DEF CopyField, Fault
  <2>6. ASSUME NEW c \in Conn, GetAll(c) PROVE Stays
    <3>1. /\ req[c].type = "GETALL" /\ req' = req
          /\ pc' = [pc EXCEPT ![c] = "reply"]
          /\ Respond(c, "RESPONSE", Error) \/ Respond(c, "GETALL", req[c].key)
      BY <2>6 DEF GetAll, LookedUp
    <3>2. QED
      BY <3>1 DEF Respond
  <2>7. ASSUME NEW c \in Conn, GetSelected(c) PROVE Stays
    <3>1. /\ req[c].type = "GET_FIELDS" /\ req' = req
          /\ pc' = [pc EXCEPT ![c] = "reply"]
          /\ Respond(c, "RESPONSE", Error) \/ Respond(c, "GET_FIELDS", req[c].key)
      BY <2>7 DEF GetSelected, LookedUp
    <3>2. QED
      BY <3>1 DEF Respond
  <2>8. ASSUME NEW c \in Conn, c # d, EmptySet(c) \/ \E f \in Field : WriteField(c, f)
        PROVE  Stays
    <3>1. /\ req' = req /\ pc'[d] = pc[d]
          /\ \/ Respond(c, "SET_FIELDS", req[c].key)
             \/ Respond(c, "RESPONSE", Error)
             \/ UNCHANGED resp
      BY <2>8 DEF EmptySet, WriteField
    <3>2. QED
      BY <3>1, <2>8 DEF Respond
  <2>9. QED
    BY <2>1, <2>2, <2>3, <2>4, <2>5, <2>6, <2>7, <2>8 DEF Next, Handle
<1>5. QED
  BY <1>1, <1>2, <1>3, <1>4

-----------------------------------------------------------------------------
(* Lookups and the pointers they leave behind                               *)

(* The log only grows at its end. *)
LEMMA LogStep ==
  ASSUME TypeOK, [Next]_vars
  PROVE  log' = log \/ \E e \in Call : log' = Append(log, e)
<1>1. ASSUME NEW c \in Conn, BeginSetCall(c)
      PROVE  \E e \in Call : log' = Append(log, e)
  <2>1. [key |-> req[c].key, new |-> req[c].fields] \in Call
    BY RequestType DEF Call, KVP!Update
  <2>2. QED
    BY <1>1, <2>1 DEF BeginSetCall
<1>2. QED
  BY <1>1, StoreStep

(* A field once overwritten stays so while its lookup stands. *)
LEMMA OverwrittenStays ==
  ASSUME TypeOK, [Next]_vars, NEW c \in Conn, NEW f \in Field,
         at'[c] = at[c], req'[c] = req[c], Overwritten(c, f)
  PROVE  Overwritten(c, f)'
<1>0. log \in Seq(Call)
  BY DEF TypeOK, Call
<1>1. /\ Len(log') >= Len(log) /\ Len(log) \in Nat /\ Len(log') \in Nat
      /\ \A i \in 1..Len(log) : log'[i] = log[i]
  BY <1>0, LogStep
<1>2. at[c] \in Nat
  BY DEF TypeOK
<1>3. PICK i \in at[c] + 1 .. Len(log) : log[i].key = req[c].key /\ log[i].new[f] # Nil
  BY DEF Overwritten
<1>4. i \in at'[c] + 1 .. Len(log') /\ log'[i] = log[i]
  BY <1>1, <1>2, <1>3
<1>5. QED
  BY <1>3, <1>4 DEF Overwritten

(* With the mutex free, what the pointers of a record lead to is the log.   *)
LEMMA LookupIsLog ==
  ASSUME TypeOK, KVP!StoreInv, LogIsStore, mutex = Nil,
         NEW k \in Key, NEW names \in SUBSET Field, NEW f \in Field
  PROVE  LET p == KV!GetSelectedFields(k, names)[f] IN
         /\ (IF p = Nil THEN Nil ELSE heap[p]) =
              IF f \in names THEN AsOf(log, Len(log), k)[f] ELSE Nil
         /\ p # Nil => p = fields[k][f] /\ heap[p] # Nil /\ todo[k][f] = Nil
<1> DEFINE p == KV!GetSelectedFields(k, names)[f]
<1>1. todo[k][f] = Nil
  BY DEF KVP!StoreInv, KVP!LockCoversUpdate, KVP!NoFields
<1>2. p = IF f \in names THEN KVP!GetField(k, f) ELSE Nil
  BY DEF KV!GetSelectedFields, KV!GetField, KVP!GetField
<1>3. KVP!GetField(k, f) # Nil => KVP!GetField(k, f) = fields[k][f]
                                  /\ heap[fields[k][f]] # Nil
  BY DEF KVP!GetField, KVP!StoreInv, KVP!NoDanglingField
<1>4. AsOf(log, Len(log), k)[f] =
        IF KVP!GetField(k, f) = Nil THEN Nil ELSE heap[KVP!GetField(k, f)]
  BY <1>1 DEF LogIsStore, KVP!View, KVP!ViewField
<1>5. QED
  BY <1>1, <1>2, <1>3, <1>4

(* A lookup sees the log of its moment, and later calls do not change what  *)
(* the log was then.                                                        *)
LEMMA SeenIsPastStep ==
  ASSUME TypeOK, KVP!StoreInv, SetInProgress, LogIsStore, SeenIsPast, [Next]_vars
  PROVE  SeenIsPast'
<1>0. ThreadTypes /\ log \in Seq(Call)
  BY SplitTypeOK DEF ThreadTypes
<1> SUFFICES ASSUME NEW d \in Conn, pc'[d] = "reply", req'[d].type \in Gets
             PROVE  /\ lo'[d] <= at'[d]
                    /\ \A f \in Field :
                         seen'[d][f] = IF f \in Asked(req'[d])
                                       THEN AsOf(log', at'[d], req'[d].key)[f] ELSE Nil
  BY DEF SeenIsPast
<1>1. CASE Still(d) \/ CopiedOne(d)
  <2>1. /\ pc[d] = "reply" /\ req'[d] = req[d]
        /\ lo'[d] = lo[d] /\ at'[d] = at[d] /\ seen'[d] = seen[d]
    BY <1>1 DEF Still, CopiedOne
  <2>2. at[d] \in 0..Len(log) /\ req[d].key \in Key
    BY <1>0, RequestType DEF ThreadTypes
  <2>3. AsOf(log', at[d], req[d].key) = AsOf(log, at[d], req[d].key)
    <3>1. CASE log' = log
      BY <3>1
    <3>2. CASE \E e \in Call : log' = Append(log, e)
      BY <3>2, <2>2, <1>0, AsOfKept
    <3>3. QED
      BY <3>1, <3>2, LogStep
  <2>4. QED
    BY <2>1, <2>3 DEF SeenIsPast
<1>2. CASE Elsewhere(d) \/ Sent(d)
  BY <1>2 DEF Elsewhere, Sent
<1>3. CASE Looked(d)
  <2>1. PICK names \in SUBSET Field :
          /\ names = Asked(req[d])
          /\ mutex = Nil
          /\ req'[d] = req[d] /\ lo'[d] = lo[d]
          /\ at'[d] = Len(log)
          /\ seen'[d] = [f \in Field |->
                           IF KV!GetSelectedFields(req[d].key, names)[f] = Nil THEN Nil
                           ELSE heap[KV!GetSelectedFields(req[d].key, names)[f]]]
          /\ log' = log
    BY <1>3 DEF Looked
  <2>2. lo[d] <= Len(log)
    BY <1>0 DEF ThreadTypes
  <2>3. ASSUME NEW f \in Field
        PROVE  seen'[d][f] = IF f \in names THEN AsOf(log, Len(log), req[d].key)[f] ELSE Nil
    BY <2>1, LookupIsLog, RequestType
  <2>4. QED
    BY <2>1, <2>2, <2>3
<1>4. QED
  BY <1>0, <1>1, <1>2, <1>3, ThreadStep

(* A record's pointer, its string and that no write to it is pending stay as *)
(* they are, or a setFields call that has the field gets into the log.      *)
LEMMA StringKept ==
  ASSUME TypeOK, KVP!StoreInv, [Next]_vars, NEW k \in Key, NEW f \in Field, NEW p \in Addr,
         fields[k][f] = p, heap[p] # Nil, todo[k][f] = Nil
  PROVE  \/ \E e \in Call : log' = Append(log, e) /\ e.key = k /\ e.new[f] # Nil
         \/ fields'[k][f] = p /\ heap'[p] = heap[p] /\ todo'[k][f] = Nil
<1>1. CASE UNCHANGED storeVars
  BY <1>1 DEF storeVars
<1>2. ASSUME NEW c \in Conn, KVP!Insert(req[c].key)
      PROVE  fields'[k][f] = p /\ heap'[p] = heap[p] /\ todo'[k][f] = Nil
  <2>1. k \in present
    BY NilAssumption DEF KVP!StoreInv, KVP!NoOrphanField, KVP!NoFields
  <2>2. QED
    BY <1>2, <2>1, RequestType DEF KVP!Insert, KVP!StoreInv, KVP!TypeOK
<1>3. ASSUME NEW c \in Conn, BeginSetCall(c)
      PROVE  \/ \E e \in Call : log' = Append(log, e) /\ e.key = k /\ e.new[f] # Nil
             \/ fields'[k][f] = p /\ heap'[p] = heap[p] /\ todo'[k][f] = Nil
  <2> DEFINE e == [key |-> req[c].key, new |-> req[c].fields]
  <2>1. e \in Call
    BY RequestType DEF Call, KVP!Update
  <2>2. /\ log' = Append(log, e)
        /\ UNCHANGED <<fields, heap>>
        /\ todo' = [todo EXCEPT ![req[c].key] = req[c].fields]
    BY <1>3 DEF BeginSetCall, KVP!BeginSetFields
  <2>3. CASE k = req[c].key /\ req[c].fields[f] # Nil
    BY <2>1, <2>2, <2>3
  <2>4. CASE ~(k = req[c].key /\ req[c].fields[f] # Nil)
    BY <2>2, <2>4, RequestType DEF KVP!StoreInv, KVP!TypeOK
  <2>5. QED
    BY <2>3, <2>4
<1>4. ASSUME NEW c \in Conn, NEW g \in Field, KVP!SetNextField(c, req[c].key, g)
      PROVE  fields'[k][f] = p /\ heap'[p] = heap[p] /\ todo'[k][f] = Nil
  <2> DEFINE j == req[c].key
  <2>1. /\ j \in Key
        /\ todo[j][g] \in Val
        /\ KVP!WriteString(j, g, todo[j][g])
        /\ todo' = [todo EXCEPT ![j][g] = Nil]
    BY <1>4, RequestType DEF KVP!SetNextField, KVP!StoreInv, KVP!TypeOK, KVP!Update
  <2>2. <<k, f>> # <<j, g>>
    BY <2>1, NilAssumption
  <2> HIDE DEF j
  <2>3. PICK a \in Addr : KVP!WroteAt(j, g, todo[j][g], a)
    BY <2>1, KVP!WriteStringFacts, NilAssumption DEF KVP!StoreInv
  <2>4. /\ fields' = [fields EXCEPT ![j][g] = a]
        /\ fields[k][f] # a /\ fields[k][f] # fields[j][g]
        /\ \A b \in Addr : b # a /\ b # fields[j][g] => heap'[b] = heap[b]
    BY <2>2, <2>3, NilAssumption DEF KVP!WroteAt
  <2>5. heap'[p] = heap[p]
    BY <2>4
  <2>6. fields'[k][f] = fields[k][f] /\ todo'[k][f] = todo[k][f]
    BY <2>1, <2>2, <2>4 DEF KVP!StoreInv, KVP!TypeOK, KVP!Update
  <2>7. QED
    BY <2>5, <2>6
<1>5. QED
  BY <1>1, <1>2, <1>3, <1>4, StoreStep

(* So the string behind a pointer of a lookup stays while another thread    *)
(* goes on, or that thread's setFields call is in the log.                  *)
LEMMA PointerKept ==
  ASSUME TypeOK, KVP!StoreInv, [Next]_vars, NEW d \in Conn, NEW f \in Field,
         Still(d), got[d][f] # Nil,
         fields[req[d].key][f] = got[d][f], heap[got[d][f]] = seen[d][f],
         seen[d][f] # Nil, todo[req[d].key][f] = Nil
  PROVE  \/ Overwritten(d, f)'
         \/ /\ fields'[req'[d].key][f] = got'[d][f]
            /\ heap'[got'[d][f]] = seen'[d][f]
            /\ seen'[d][f] # Nil
            /\ todo'[req'[d].key][f] = Nil
<1>1. req[d].key \in Key /\ got[d][f] \in Addr /\ at[d] \in 0..Len(log) /\ log \in Seq(Call)
  BY RequestType DEF TypeOK, Call
<1>2. req'[d] = req[d] /\ got'[d] = got[d] /\ seen'[d] = seen[d] /\ at'[d] = at[d]
  BY DEF Still
<1>3. ASSUME NEW e \in Call, log' = Append(log, e), e.key = req[d].key, e.new[f] # Nil
      PROVE  Overwritten(d, f)'
  <2>1. Len(log) + 1 \in at[d] + 1 .. Len(log') /\ log'[Len(log) + 1] = e
    BY <1>1, <1>3
  <2>2. QED
    BY <1>2, <1>3, <2>1 DEF Overwritten
<1>4. \/ \E e \in Call : log' = Append(log, e) /\ e.key = req[d].key /\ e.new[f] # Nil
      \/ /\ fields'[req[d].key][f] = got[d][f]
         /\ heap'[got[d][f]] = heap[got[d][f]]
         /\ todo'[req[d].key][f] = Nil
  BY <1>1, StringKept
<1>5. QED
  BY <1>2, <1>3, <1>4

(* The pointers of a lookup are those of the record, until a write to the   *)
(* field is logged.                                                         *)
LEMMA PointersSoundStep ==
  ASSUME TypeOK, KVP!StoreInv, SetInProgress, LogIsStore, PointersSound, [Next]_vars
  PROVE  PointersSound'
<1>0. ThreadTypes
  BY SplitTypeOK
<1> SUFFICES ASSUME NEW d \in Conn, NEW f \in Field, got'[d][f] # Nil
             PROVE  /\ pc'[d] = "reply" /\ req'[d].type \in Gets
                    /\ \/ Overwritten(d, f)'
                       \/ /\ fields'[req'[d].key][f] = got'[d][f]
                          /\ heap'[got'[d][f]] = seen'[d][f]
                          /\ seen'[d][f] # Nil
                          /\ todo'[req'[d].key][f] = Nil
  BY DEF PointersSound
<1>1. CASE Still(d)
  <2>1. pc'[d] = pc[d] /\ req'[d] = req[d] /\ got'[d] = got[d] /\ at'[d] = at[d]
    BY <1>1 DEF Still
  <2>2. CASE Overwritten(d, f)
    BY <2>1, <2>2, OverwrittenStays DEF PointersSound
  <2>3. CASE ~Overwritten(d, f)
    BY <1>1, <2>1, <2>3, PointerKept DEF PointersSound
  <2>4. QED
    BY <2>2, <2>3
<1>2. CASE CopiedOne(d)
  <2>1. /\ pc'[d] = "reply" /\ req'[d] = req[d] /\ got'[d] = got[d]
        /\ at'[d] = at[d] /\ seen'[d] = seen[d]
        /\ UNCHANGED <<storeVars, log>>
    BY <1>2 DEF CopiedOne
  <2>2. QED
    BY <2>1, OverwrittenStays DEF PointersSound, storeVars
<1>3. CASE Elsewhere(d)
  BY <1>3 DEF Elsewhere, PointersSound
<1>4. CASE Looked(d)
  <2>1. PICK names \in SUBSET Field :
          /\ mutex = Nil
          /\ pc'[d] = "reply"
          /\ req'[d] = req[d] /\ req[d].type \in Gets
          /\ got'[d] = KV!GetSelectedFields(req[d].key, names)
          /\ seen'[d] = [g \in Field |->
                           IF KV!GetSelectedFields(req[d].key, names)[g] = Nil THEN Nil
                           ELSE heap[KV!GetSelectedFields(req[d].key, names)[g]]]
          /\ UNCHANGED storeVars
    BY <1>4 DEF Looked
  <2>2. /\ got'[d][f] = fields[req[d].key][f]
        /\ heap[got'[d][f]] # Nil
        /\ todo[req[d].key][f] = Nil
    BY <2>1, LookupIsLog, RequestType
  <2>3. QED
    BY <2>1, <2>2 DEF storeVars
<1>5. CASE Sent(d)
  BY <1>5 DEF Sent, NoFields
<1>6. QED
  BY <1>0, <1>1, <1>2, <1>3, <1>4, <1>5, ThreadStep

(* A copy through such a pointer is what the lookup saw. *)
LEMMA CopiesSoundStep ==
  ASSUME TypeOK, SetInProgress, PointersSound, CopiesSound, [Next]_vars
  PROVE  CopiesSound'
<1>0. ThreadTypes
  BY SplitTypeOK
<1> SUFFICES ASSUME NEW d \in Conn, NEW f \in Field, out'[d][f] # Nil
             PROVE  /\ pc'[d] = "reply"
                    /\ out'[d][f] = seen'[d][f] \/ Overwritten(d, f)'
  BY DEF CopiesSound
<1>1. CASE Still(d)
  BY <1>1, OverwrittenStays DEF Still, CopiesSound
<1>2. CASE CopiedOne(d)
  <2>1. PICK g \in Field :
          /\ got[d][g] # Nil
          /\ out'[d][g] = IF heap[got[d][g]] = Nil THEN Garbage ELSE heap[got[d][g]]
          /\ \A h \in Field : h # g => out'[d][h] = out[d][h]
    BY <1>2 DEF CopiedOne
  <2>2. pc'[d] = "reply" /\ req'[d] = req[d] /\ at'[d] = at[d] /\ seen'[d] = seen[d]
    BY <1>2 DEF CopiedOne
  <2>3. CASE f = g
    BY <2>1, <2>2, <2>3, OverwrittenStays DEF PointersSound
  <2>4. CASE f # g
    BY <2>1, <2>2, <2>4, OverwrittenStays DEF CopiesSound
  <2>5. QED
    BY <2>3, <2>4
<1>3. CASE Elsewhere(d)
  BY <1>3 DEF Elsewhere, CopiesSound
<1>4. CASE Looked(d)
  BY <1>4 DEF Looked, CopiesSound
<1>5. CASE Sent(d)
  BY <1>5 DEF Sent, NoFields
<1>6. QED
  BY <1>0, <1>1, <1>2, <1>3, <1>4, <1>5, ThreadStep

-----------------------------------------------------------------------------
(* How the process ends *)

(* Only a thread that replies ends a process that serves: it cannot send, or *)
(* one of its pointers leads to nothing, and then that field was overwritten. *)
LEMMA ExitStep ==
  ASSUME PointersSound, [Next]_vars, main = "accepting", main' # main
  PROVE  \E c \in Conn : main' = c /\ MayEnd(c)
<1>1. PICK c \in Conn : BrokenPipe(c) \/ \E f \in Field : Fault(c, f)
  <2>1. ~Listen /\ ~Idle
    BY DEF Listen, Idle, vars
  <2>2. PICK c \in Conn : Accept(c) \/ Hangup(c) \/ Receive(c) \/ Handle(c)
    BY <2>1 DEF Next, vars
  <2>3. ~Accept(c) /\ ~Hangup(c) /\ ~Receive(c)
    BY <2>1 DEF Accept, Hangup, Receive, Goto
  <2>4. /\ ~ReadError(c) /\ ~ReadEnd(c) /\ ~InsertKey(c) /\ ~BeginSet(c) /\ ~EmptySet(c)
        /\ ~Send(c)
    BY <2>1 DEF ReadError, ReadEnd, InsertKey, BeginSet, EmptySet, Send, Goto
  <2>5. \A f \in Field : ~WriteField(c, f) /\ ~CopyField(c, f)
    BY <2>1 DEF WriteField, CopyField, Goto
  <2>6. ~GetAll(c) /\ ~GetSelected(c)
    BY <2>1 DEF GetAll, GetSelected, LookedUp, Goto
  <2>7. QED
    BY <2>2, <2>3, <2>4, <2>5, <2>6 DEF Handle
<1>2. CASE BrokenPipe(c)
  BY <1>2 DEF BrokenPipe, MayEnd
<1>3. CASE \E f \in Field : Fault(c, f)
  <2>1. PICK f \in Field : Fault(c, f)
    BY <1>3
  <2>2. /\ main' = c /\ pc[c] = "reply" /\ f \in ToCopy(c) /\ out[c][f] = Nil
        /\ got[c][f] # Nil /\ heap[got[c][f]] = Nil
    BY <2>1 DEF Fault, ToCopy, Found
  <2>3. Overwritten(c, f) /\ req[c].type \in Gets
    BY <2>2 DEF PointersSound
  <2>4. QED
    BY <2>2, <2>3 DEF MayEnd, Gets
<1>4. QED
  BY <1>1, <1>2, <1>3

-----------------------------------------------------------------------------
(* The theorems *)

(* The inductive invariant holds at the start, *)
LEMMA InitIInv == Init => IInv
<1> SUFFICES ASSUME Init PROVE IInv
  OBVIOUS
<1>1. KVP!Init
  BY SameStore DEF Init
<1>2. KVP!StoreInv
  BY <1>1, KVP!InitStoreInv, NilAssumption
<1>3. ThreadTypes
  BY NoRequestType, MaxCommandsAssumption
     DEF Init, ThreadTypes, NoFields, NoResponse, Response
<1>4. WriterHoldsMutex /\ SetInProgress /\ SetAlwaysAccepted
  BY <1>1, NilAssumption
     DEF Init, WriterHoldsMutex, SetInProgress, SetAlwaysAccepted, KVP!Init,
         NoFields, KVP!NoFields
<1>5. NoLeak
  BY <1>1 DEF KVP!Init, NoLeak, KV!Leaked, KV!Live
<1>6. LogIsStore
  <2>1. \A k \in Key, f \in Field : Writers(log, Len(log), k, f) = {}
    BY DEF Init, Writers
  <2>2. QED
    BY <1>1, <2>1
       DEF LogIsStore, AsOf, KVP!Init, KVP!View, KVP!ViewField, KVP!GetField, KVP!NoFields
<1>7. SeenIsPast /\ PointersSound /\ CopiesSound
  BY DEF Init, SeenIsPast, PointersSound, CopiesSound, NoFields
<1>8. QED
  BY <1>2, <1>3, <1>4, <1>5, <1>6, <1>7 DEF IInv

(* every step keeps it, *)
LEMMA NextIInv == IInv /\ [Next]_vars => IInv'
<1> SUFFICES ASSUME IInv, [Next]_vars PROVE IInv'
  OBVIOUS
<1>1. TypeOK
  BY SplitTypeOK DEF IInv, KVP!StoreInv
<1>2. KVP!StoreInv'
  BY <1>1, StoreInvStep DEF IInv
<1>3. ThreadTypes'
  BY ThreadTypesStep DEF IInv, KVP!StoreInv
<1>4. WriterHoldsMutex' /\ SetInProgress' /\ SetAlwaysAccepted' /\ NoLeak'
  BY <1>1, WriterHoldsMutexStep, SetInProgressStep, SetAlwaysAcceptedStep, NoLeakStep
     DEF IInv
<1>5. LogIsStore'
  BY <1>1, <1>2, LogIsStoreStep DEF IInv
<1>6. SeenIsPast' /\ PointersSound' /\ CopiesSound'
  BY <1>1, SeenIsPastStep, PointersSoundStep, CopiesSoundStep DEF IInv
<1>7. QED
  BY <1>2, <1>3, <1>4, <1>5, <1>6 DEF IInv

(* and so it always holds. *)
LEMMA Inductive == Spec => []IInv
BY InitIInv, NextIInv, PTL DEF Spec

(* Every variable of the server has its type. *)
THEOREM Types == Spec => []TypeOK
<1>1. IInv => TypeOK
  BY SplitTypeOK DEF IInv, KVP!StoreInv
<1>2. QED
  BY <1>1, Inductive, PTL

(* KVStore::mutex_ does its work for the server's threads: one at a time in *)
(* setFields, on its own key.                                               *)
THEOREM MutualExclusion == Spec => []WriterHoldsMutex
<1>1. IInv => WriterHoldsMutex
  BY DEF IInv
<1>2. QED
  BY <1>1, Inductive, PTL

(* No SET_FIELDS is refused because its key went away after the insert.     *)
THEOREM SetsAccepted == Spec => []SetAlwaysAccepted
<1>1. IInv => SetAlwaysAccepted
  BY DEF IInv
<1>2. QED
  BY <1>1, Inductive, PTL

(* However many clients write, the server leaks no string. *)
THEOREM LeakFree == Spec => []NoLeak
<1>1. IInv => NoLeak
  BY DEF IInv
<1>2. QED
  BY <1>1, Inductive, PTL

(* What a lookup saw is the log as it was at a moment after its command was *)
(* read.                                                                    *)
LEMMA IInvLinearizable == IInv => Linearizable
<1> SUFFICES ASSUME IInv, NEW c \in Conn, pc[c] = "reply",
                    req[c].type \in {"GETALL", "GET_FIELDS"}
             PROVE  \E n \in lo[c]..Len(log) :
                      \A f \in Field :
                        seen[c][f] = IF f \in Asked(req[c])
                                     THEN AsOf(log, n, req[c].key)[f] ELSE Nil
  BY DEF Linearizable
<1>1. at[c] \in 0..Len(log) /\ lo[c] \in 0..Len(log)
  BY DEF IInv, ThreadTypes
<1>2. /\ lo[c] <= at[c]
      /\ \A f \in Field : seen[c][f] = IF f \in Asked(req[c])
                                      THEN AsOf(log, at[c], req[c].key)[f] ELSE Nil
  BY DEF IInv, SeenIsPast, Gets
<1>3. at[c] \in lo[c]..Len(log)
  BY <1>1, <1>2
<1>4. QED
  BY <1>2, <1>3

(* GETALL and GET_FIELDS look up the effect of a prefix of the SET_FIELDS   *)
(* commands, for any number of clients, keys and fields.                    *)
THEOREM Linearizability == Spec => []Linearizable
BY IInvLinearizable, Inductive, PTL

(* Only an overwrite of the very field changes or destroys a string between *)
(* the lookup and the copy into the reply.                                  *)
THEOREM StaleOnlyAfterOverwrite == Spec => []StaleOnlyByOverwrite
<1>1. IInv => StaleOnlyByOverwrite
  BY DEF IInv, CopiesSound, StaleOnlyByOverwrite
<1>2. QED
  BY <1>1, Inductive, PTL

(* The server never takes away a key or a field. *)
THEOREM NothingIsRemoved == Spec => RecordsGrow
<1>1. IInv /\ [Next]_vars =>
        [/\ present \subseteq present'
         /\ \A k \in Key, f \in Field : fields[k][f] # Nil => fields'[k][f] # Nil]_vars
  BY GrowStep, SplitTypeOK DEF IInv, KVP!StoreInv
<1>2. QED
  BY <1>1, Inductive, PTL DEF Spec, RecordsGrow

(* The server survives whatever its clients send, but for a thread that      *)
(* answers a client of its own that is gone, or that has still to copy a     *)
(* field of its own lookup which was overwritten since (Server::handleClient, *)
(* TwoCopySerializer::serialize).                                            *)
THEOREM OnlyRepliesEndIt == Spec => ExitCauses
<1>1. IInv /\ [Next]_vars =>
        [main = "accepting" /\ main' # main =>
           \E c \in Conn : main' = c /\ MayEnd(c)]_vars
  BY ExitStep DEF IInv
<1>2. QED
  BY <1>1, Inductive, PTL DEF Spec, ExitCauses

-----------------------------------------------------------------------------
(* The three builds: the invariant                                          *)

(* The types of the variables that module ZeroCopy adds. *)
ReplyTypes ==
  /\ method \in {"TWOCOPY", "ONECOPY", "ZEROCOPY"}
  /\ entries \in [Conn -> [Field -> Addr \cup {Nil, Garbage}]]
  /\ wire \in [Conn -> Seq(Unsent)]
  /\ by \in Seq(Conn) /\ Len(by) = Len(log)

(* An entry is the pointer of the lookup, or else the field was overwritten; *)
(* the server with two copies has none.                                     *)
EntriesSound ==
  \A c \in Conn, f \in Field :
    entries[c][f] # Nil =>
      /\ method # "TWOCOPY"
      /\ pc[c] = "reply"
      /\ got[c][f] # Nil
      /\ entries[c][f] = got[c][f] \/ Overwritten(c, f)

(* Nothing is in a reply that the lookup did not find. *)
CopiesFound == \A c \in Conn, f \in Field : out[c][f] # Nil => got[c][f] # Nil

(* From a lookup to the end of its reply the thread makes no setFields call. *)
OthersWrote ==
  \A c \in Conn, f \in Field :
    got[c][f] # Nil => \A i \in at[c] + 1 .. Len(log) : by[i] # c

(* An entry of the reply w on the wire: the field was overwritten since the *)
(* lookup, or the record still has the string that the lookup saw.           *)
WrittenSince(w, f) ==
  \E i \in w.at + 1 .. Len(log) : log[i].key = w.key /\ log[i].new[f] # Nil

Untouched(w, f) ==
  /\ w.entries[f] \in Addr
  /\ fields[w.key][f] = w.entries[f]
  /\ heap[w.entries[f]] = w.seen[f]
  /\ w.seen[f] # Nil
  /\ todo[w.key][f] = Nil

WireSound ==
  \A c \in Conn : \A i \in 1..Len(wire[c]) : \A f \in Field :
    LET w == wire[c][i] IN
    /\ w.at <= Len(log)
    /\ w.entries[f] # Nil => WrittenSince(w, f) \/ Untouched(w, f)

ReplyIInv ==
  /\ IInv
  /\ ReplyTypes
  /\ EntriesSound
  /\ CopiesFound
  /\ OthersWrote
  /\ WireSound

ReplyStep == [ReplyNext]_<<vars, reply>>

-----------------------------------------------------------------------------
(* The steps that are not steps of module Server                            *)

(* With entries instead of copies a string is read through its entry, and   *)
(* a reply may end, or end the process, before it was copied.               *)
LEMMA ReplySteps ==
  ASSUME ThreadTypes, ReplyStep
  PROVE  \/ [Next]_vars
         \/ \E c \in Conn : (\E f \in Field : CopyEntry(c, f)) \/ Finish(c) \/ QueueBreaks(c)
<1>1. CASE UNCHANGED <<vars, reply>>
  BY <1>1
<1>2. ASSUME NEW c \in Conn, NEW f \in Field, Gather(c, f) PROVE UNCHANGED vars
  <2>1. pc' = pc
    BY <1>2 DEF Gather, Goto, ThreadTypes
  <2>2. QED
    BY <1>2, <2>1 DEF Gather, Goto, vars, history, threadVars
<1>3. ASSUME NEW c \in Conn, Transmit(c) PROVE UNCHANGED vars
  BY <1>3 DEF Transmit
<1>4. ASSUME NEW c \in Conn, NEW f \in Field, GatherFaults(c, f) PROVE Next
  BY <1>4 DEF GatherFaults, Next, Handle
<1>5. ASSUME NEW c \in Conn, Process(c) PROVE Next
  BY <1>5 DEF Process, Next, Handle
<1>6. ASSUME NEW c \in Conn, TwoCopy(c) PROVE Next
  BY <1>6 DEF TwoCopy, Next, Handle
<1>7. ASSUME NEW c \in Conn, OneCopy(c) PROVE [Next]_vars \/ \E f \in Field : CopyEntry(c, f)
  <2>1. Send(c) => Next
    BY DEF Next, Handle
  <2>2. BrokenPipe(c) => Next
    BY DEF Next, Handle
  <2>3. QED
    BY <1>7, <1>2, <1>4, <2>1, <2>2 DEF OneCopy
<1>8. ASSUME NEW c \in Conn, ZeroCopied(c) PROVE [Next]_vars \/ Finish(c) \/ QueueBreaks(c)
  BY <1>8, <1>2, <1>4 DEF ZeroCopied, Queue
<1>9. ASSUME Listen \/ Idle \/ (\E c \in Conn : Accept(c) \/ Hangup(c) \/ Receive(c))
      PROVE  Next
  BY <1>9 DEF Next
<1>10. QED
  BY <1>1, <1>3, <1>5, <1>6, <1>7, <1>8, <1>9 DEF ReplyStep, ReplyNext, HandleReply

(* The thread of d stays where it is, with what it has looked up. *)
Kept(d) ==
  /\ pc'[d] = pc[d] /\ req'[d] = req[d] /\ resp'[d] = resp[d] /\ got'[d] = got[d]
  /\ lo'[d] = lo[d] /\ at'[d] = at[d] /\ seen'[d] = seen[d]

(* A step that leaves the store and the calls alone, and of every thread    *)
(* what Kept says unless it ends the reply, keeps the invariant, but for     *)
(* the types and the copies.                                                *)
LEMMA AsideIInv ==
  ASSUME IInv, ThreadTypes', CopiesSound', UNCHANGED <<storeVars, log>>,
         \A d \in Conn : Kept(d) \/ (pc[d] = "reply" /\ Sent(d))
  PROVE  IInv'
<1> USE DEF IInv, Kept, Sent
<1>1. KVP!StoreInv'
  <2>1. UNCHANGED KVP!vars
    BY DEF KVP!vars, storeVars
  <2>2. QED
    BY <2>1, KVP!NextStoreInv, NilAssumption
<1>2. WriterHoldsMutex'
  BY DEF WriterHoldsMutex, storeVars
<1>3. SetInProgress' /\ SetAlwaysAccepted'
  BY DEF SetInProgress, SetAlwaysAccepted, storeVars
<1>4. NoLeak'
  BY DEF storeVars, NoLeak, KV!Leaked, KV!Live, KV!Reachable
<1>5. LogIsStore'
  BY DEF storeVars, LogIsStore, KVP!View, KVP!ViewField, KVP!GetField
<1>6. SeenIsPast'
  BY DEF SeenIsPast
<1>7. PointersSound'
  <2> SUFFICES ASSUME NEW d \in Conn, NEW f \in Field, got'[d][f] # Nil
               PROVE  /\ pc'[d] = "reply" /\ req'[d].type \in Gets
                      /\ \/ Overwritten(d, f)'
                         \/ /\ fields'[req'[d].key][f] = got'[d][f]
                            /\ heap'[got'[d][f]] = seen'[d][f]
                            /\ seen'[d][f] # Nil
                            /\ todo'[req'[d].key][f] = Nil
    BY DEF PointersSound
  <2>1. Kept(d)
    BY DEF NoFields
  <2>2. Overwritten(d, f) => Overwritten(d, f)'
    BY <2>1 DEF Overwritten
  <2>3. QED
    BY <2>1, <2>2 DEF PointersSound, storeVars
<1>8. QED
  BY <1>1, <1>2, <1>3, <1>4, <1>5, <1>6, <1>7

(* sendmsg copies what an entry points to: what the lookup saw, or else.    *)
LEMMA CopyEntryIInv ==
  ASSUME IInv, ReplyTypes, EntriesSound, NEW c \in Conn, NEW f \in Field, CopyEntry(c, f)
  PROVE  IInv'
<1>1. /\ pc' = pc /\ pc[c] = "reply"
      /\ entries[c][f] # Nil /\ got[c][f] # Nil
      /\ out' = [out EXCEPT ![c][f] = At(entries[c][f])]
      /\ UNCHANGED <<storeVars, main, peer, count, req, resp, got, log, lo, at, seen>>
  BY DEF CopyEntry, Goto, history, IInv, ThreadTypes, Gathered, ToCopy, Found
<1>2. KVP!TypeOK /\ ThreadTypes
  BY DEF IInv, KVP!StoreInv
<1>3. got[c][f] \in Addr /\ entries[c][f] \in Addr \cup {Garbage}
  BY <1>1, <1>2 DEF ThreadTypes, ReplyTypes
<1>4. At(entries[c][f]) \in Val \cup {Garbage}
  BY <1>2, <1>3 DEF At, KVP!TypeOK
<1>5. ThreadTypes'
  <2>1. out' \in [Conn -> [Field -> Val \cup {Nil, Garbage}]]
    BY <1>1, <1>2, <1>4 DEF ThreadTypes
  <2>2. QED
    BY <1>1, <1>2, <2>1 DEF ThreadTypes
<1>6. ~Overwritten(c, f) => At(entries[c][f]) = seen[c][f]
  <2>1. SUFFICES ASSUME ~Overwritten(c, f) PROVE At(entries[c][f]) = seen[c][f]
    OBVIOUS
  <2>2. entries[c][f] = got[c][f]
    BY <1>1, <2>1 DEF EntriesSound
  <2>3. heap[got[c][f]] = seen[c][f] /\ seen[c][f] # Nil
    BY <1>1, <2>1 DEF IInv, PointersSound
  <2>4. QED
    BY <2>2, <2>3, <1>3, WildEntryAssumption DEF At
<1>7. CopiesSound'
  <2> SUFFICES ASSUME NEW d \in Conn, NEW g \in Field, out'[d][g] # Nil
               PROVE  /\ pc'[d] = "reply"
                      /\ out'[d][g] = seen'[d][g] \/ Overwritten(d, g)'
    BY DEF CopiesSound
  <2>1. Overwritten(d, g)' <=> Overwritten(d, g)
    BY <1>1 DEF Overwritten
  <2>2. CASE d = c /\ g = f
    BY <1>1, <1>2, <1>6, <2>1, <2>2 DEF ThreadTypes
  <2>3. CASE ~(d = c /\ g = f)
    <3>1. out'[d][g] = out[d][g]
      BY <1>1, <1>2, <2>3 DEF ThreadTypes
    <3>2. QED
      BY <1>1, <2>1, <3>1 DEF IInv, CopiesSound
  <2>4. QED
    BY <2>2, <2>3
<1>8. QED
  BY <1>1, <1>5, <1>7, AsideIInv DEF Kept

(* A reply that ends before its strings were copied leaves nothing behind. *)
LEMMA FinishIInv ==
  ASSUME IInv, NEW c \in Conn, Finish(c)
  PROVE  IInv'
<1>0. ThreadTypes
  BY DEF IInv
<1>1. /\ pc[c] = "reply" /\ pc' = [pc EXCEPT ![c] = "read"]
      /\ req' = [req EXCEPT ![c] = NoRequest]
      /\ resp' = [resp EXCEPT ![c] = NoResponse]
      /\ got' = [got EXCEPT ![c] = NoFields]
      /\ out' = [out EXCEPT ![c] = NoFields]
      /\ lo' = [lo EXCEPT ![c] = 0]
      /\ at' = [at EXCEPT ![c] = 0]
      /\ seen' = [seen EXCEPT ![c] = NoFields]
      /\ UNCHANGED <<storeVars, main, count, log>>
  BY DEF Finish, Goto
<1>2. ThreadTypes'
  <2>1. PICK p \in AfterSend(peer[c]) : peer' = [peer EXCEPT ![c] = p]
    BY DEF Finish
  <2>2. p \in {"open", "closed", "reset", "broken"}
    BY <1>0 DEF ThreadTypes, AfterSend
  <2>3. peer' \in [Conn -> {"open", "closed", "reset", "broken"}]
    BY <1>0, <2>1, <2>2 DEF ThreadTypes
  <2>4. NoResponse \in Response /\ Len(log) \in Nat
    BY <1>0 DEF NoResponse, Response, ThreadTypes
  <2>5. /\ pc' \in [Conn -> {"none", "read", "insert", "setFields", "writing",
                             "lookup", "reply", "closed"}]
        /\ req' \in [Conn -> Request] /\ resp' \in [Conn -> Response]
    BY <1>0, <1>1, <2>4, NoRequestType DEF ThreadTypes
  <2>6. lo' \in [Conn -> 0..Len(log)] /\ at' \in [Conn -> 0..Len(log)]
    BY <1>0, <1>1, <2>4 DEF ThreadTypes
  <2>7. /\ got' \in [Conn -> [Field -> Addr \cup {Nil}]]
        /\ out' \in [Conn -> [Field -> Val \cup {Nil, Garbage}]]
        /\ seen' \in [Conn -> [Field -> Val \cup {Nil}]]
    BY <1>0, <1>1 DEF ThreadTypes, NoFields
  <2>8. QED
    BY <1>0, <1>1, <2>3, <2>5, <2>6, <2>7 DEF ThreadTypes
<1>3. \A d \in Conn : (Kept(d) /\ out'[d] = out[d]) \/ (pc[d] = "reply" /\ Sent(d))
  BY <1>0, <1>1 DEF Kept, Sent, ThreadTypes
<1>4. CopiesSound'
  <2> SUFFICES ASSUME NEW d \in Conn, NEW g \in Field, out'[d][g] # Nil
               PROVE  /\ pc'[d] = "reply"
                      /\ out'[d][g] = seen'[d][g] \/ Overwritten(d, g)'
    BY DEF CopiesSound
  <2>1. Kept(d) /\ out'[d] = out[d]
    BY <1>3 DEF Sent, NoFields
  <2>2. Overwritten(d, g)' <=> Overwritten(d, g)
    BY <1>1, <2>1 DEF Kept, Overwritten
  <2>3. QED
    BY <2>1, <2>2 DEF Kept, IInv, CopiesSound
<1>5. QED
  BY <1>1, <1>2, <1>3, <1>4, AsideIInv

(* A process that a reply ends leaves its memory as it was. *)
LEMMA QueueBreaksIInv ==
  ASSUME IInv, NEW c \in Conn, QueueBreaks(c)
  PROVE  IInv'
<1>1. /\ main' = c
      /\ UNCHANGED <<storeVars, pc, peer, count, req, resp, got, out, log, lo, at, seen>>
  BY DEF QueueBreaks, threadVars, history
<1>2. ThreadTypes'
  BY <1>1 DEF IInv, ThreadTypes
<1>3. CopiesSound'
  <2>1. \A d \in Conn, g \in Field : Overwritten(d, g)' <=> Overwritten(d, g)
    BY <1>1 DEF Overwritten
  <2>2. QED
    BY <1>1, <2>1 DEF IInv, CopiesSound
<1>4. QED
  BY <1>1, <1>2, <1>3, AsideIInv DEF Kept

(* So the invariant of the server with two copies holds in all builds.      *)
LEMMA ReplyKeepsIInv ==
  ASSUME IInv, ReplyTypes, EntriesSound, ReplyStep
  PROVE  IInv'
<1>1. ThreadTypes
  BY DEF IInv
<1>2. QED
  BY <1>1, ReplySteps, NextIInv, CopyEntryIInv, FinishIInv, QueueBreaksIInv

-----------------------------------------------------------------------------
(* What a step does to the thread of connection d, to its entries and to    *)
(* the calls                                                                *)

(* It is another thread's or leaves the reply as it is; or d's, before any  *)
(* lookup, or its lookup, or the end of its reply.                          *)
LEMMA ReplyThread ==
  ASSUME IInv, ReplyStep, NEW d \in Conn
  PROVE  \/ /\ pc'[d] = pc[d] /\ req'[d] = req[d] /\ got'[d] = got[d]
            /\ at'[d] = at[d] /\ seen'[d] = seen[d]
         \/ Elsewhere(d)
         \/ pc[d] = "lookup" /\ out'[d] = out[d] /\ at'[d] = Len(log) /\ log' = log
         \/ Sent(d)
<1>1. ThreadTypes /\ SetInProgress
  BY DEF IInv
<1>2. ASSUME [Next]_vars
      PROVE  Still(d) \/ Elsewhere(d) \/ Looked(d) \/ CopiedOne(d) \/ Sent(d)
  BY <1>1, <1>2, ThreadStep
<1>3. ASSUME NEW c \in Conn, (\E f \in Field : CopyEntry(c, f)) \/ QueueBreaks(c)
      PROVE  Kept(d)
  BY <1>1, <1>3 DEF CopyEntry, QueueBreaks, Goto, Kept, threadVars, history, ThreadTypes
<1>4. ASSUME NEW c \in Conn, Finish(c) PROVE Kept(d) \/ Sent(d)
  BY <1>1, <1>4 DEF Finish, Goto, Kept, Sent, ThreadTypes
<1>5. CASE [Next]_vars
  BY <1>5, <1>2 DEF Still, Looked, CopiedOne
<1>6. CASE ~[Next]_vars
  BY <1>1, <1>6, <1>3, <1>4, ReplySteps DEF Kept
<1>7. QED
  BY <1>5, <1>6

(* A setFields call is noted with the connection that makes it. *)
LEMMA CallStep ==
  ASSUME IInv, ReplyStep
  PROVE  \/ log' = log /\ by' = by
         \/ \E c \in Conn : /\ pc[c] = "setFields"
                            /\ by' = Append(by, c)
                            /\ \E e \in Call : log' = Append(log, e)
<1> USE DEF history, reply
<1>1. ASSUME Listen \/ Idle \/ UNCHANGED vars PROVE log' = log
  BY <1>1 DEF Listen, Idle, vars
<1>2. ASSUME NEW c \in Conn,
             \/ Accept(c) \/ Hangup(c) \/ Receive(c) \/ ReadError(c) \/ ReadEnd(c)
             \/ InsertKey(c) \/ EmptySet(c) \/ Send(c) \/ BrokenPipe(c)
      PROVE  log' = log
  BY <1>2 DEF Accept, Hangup, Receive, ReadError, ReadEnd, InsertKey, EmptySet, Send, BrokenPipe
<1>3. ASSUME NEW c \in Conn, NEW f \in Field,
             WriteField(c, f) \/ CopyField(c, f) \/ Fault(c, f) \/ Gather(c, f) \/ CopyEntry(c, f)
      PROVE  log' = log
  BY <1>3 DEF WriteField, CopyField, Fault, Gather, CopyEntry
<1>4. ASSUME NEW c \in Conn, GetAll(c) \/ GetSelected(c) \/ Finish(c) \/ QueueBreaks(c)
      PROVE  log' = log
  BY <1>4 DEF GetAll, GetSelected, LookedUp, Finish, QueueBreaks
<1>5. ASSUME NEW c \in Conn, BeginSet(c)
      PROVE  pc[c] = "setFields" /\ \E e \in Call : log' = Append(log, e)
  <2>1. [key |-> req[c].key, new |-> req[c].fields] \in Call
    BY DEF IInv, ThreadTypes, Request, Call
  <2>2. QED
    BY <1>5, <2>1 DEF BeginSet, Goto
<1>6. ASSUME NEW c \in Conn, Process(c)
      PROVE  \/ log' = log /\ by' = by
             \/ BeginSet(c) /\ by' = Append(by, c)
  BY <1>6, <1>2, <1>3, <1>4 DEF Process
<1>7. ASSUME NEW c \in Conn, TwoCopy(c) PROVE log' = log /\ by' = by
  BY <1>7, <1>2, <1>3 DEF TwoCopy
<1>8. ASSUME NEW c \in Conn, OneCopy(c) PROVE log' = log /\ by' = by
  <2>1. \A f \in Field : Gather(c, f) \/ GatherFaults(c, f) \/ CopyEntry(c, f) => by' = by
    BY DEF Gather, GatherFaults, CopyEntry
  <2>2. QED
    BY <1>8, <1>2, <1>3, <2>1 DEF OneCopy, GatherFaults
<1>9. ASSUME NEW c \in Conn, ZeroCopied(c) PROVE log' = log /\ by' = by
  <2>1. \A f \in Field : Gather(c, f) \/ GatherFaults(c, f) => by' = by
    BY DEF Gather, GatherFaults
  <2>2. QED
    BY <1>9, <1>3, <1>4, <2>1 DEF ZeroCopied, GatherFaults, Queue, QueueBreaks
<1>10. ASSUME NEW c \in Conn, Transmit(c) PROVE log' = log /\ by' = by
  BY <1>10, <1>1 DEF Transmit
<1>11. QED
  BY <1>1, <1>2, <1>5, <1>6, <1>7, <1>8, <1>9, <1>10 DEF ReplyStep, ReplyNext, HandleReply

(* The entries of d stay, or are cleared, as they are when a reply ends, or *)
(* one is added.                                                            *)
LEMMA EntriesStep ==
  ASSUME IInv, ReplyTypes, ReplyStep, NEW d \in Conn
  PROVE  \/ /\ entries'[d] = entries[d]
            /\ method = "TWOCOPY" \/ (pc[d] = "reply" => pc'[d] = "reply")
         \/ entries'[d] = NoFields
         \/ method # "TWOCOPY" /\ \E f \in Field : Gather(d, f)
<1> USE DEF ReplyTypes, IInv, ThreadTypes, reply, Goto
<1> DEFINE Stays == entries'[d] = entries[d] /\ (pc[d] = "reply" => pc'[d] = "reply")
<1>1. ASSUME Listen \/ Idle \/ UNCHANGED vars PROVE pc' = pc
  BY <1>1 DEF Listen, Idle, vars
<1>2. ASSUME NEW c \in Conn,
             \/ Accept(c) \/ Hangup(c) \/ Receive(c) \/ ReadError(c) \/ ReadEnd(c)
             \/ InsertKey(c) \/ EmptySet(c) \/ BrokenPipe(c) \/ BeginSet(c)
             \/ GetAll(c) \/ GetSelected(c) \/ QueueBreaks(c)
      PROVE  pc[d] = "reply" => pc'[d] = "reply"
  BY <1>2 DEF Accept, Hangup, Receive, ReadError, ReadEnd, InsertKey, EmptySet, BrokenPipe,
              BeginSet, GetAll, GetSelected, LookedUp, QueueBreaks
<1>3. ASSUME NEW c \in Conn, NEW f \in Field,
             WriteField(c, f) \/ CopyField(c, f) \/ Fault(c, f) \/ CopyEntry(c, f) \/ Gather(c, f)
      PROVE  pc[d] = "reply" => pc'[d] = "reply"
  BY <1>3 DEF WriteField, CopyField, Fault, CopyEntry, Gather
<1>4. ASSUME NEW c \in Conn, Process(c) PROVE Stays
  BY <1>4, <1>2, <1>3 DEF Process
<1>5. ASSUME NEW c \in Conn, TwoCopy(c)
      PROVE  entries'[d] = entries[d] /\ method = "TWOCOPY"
  BY <1>5 DEF TwoCopy
<1>6. ASSUME NEW c \in Conn, NEW f \in Field, Gather(c, f)
      PROVE  Stays \/ \E g \in Field : Gather(d, g)
  <2>1. c # d => entries'[d] = entries[d]
    BY <1>6 DEF Gather
  <2>2. QED
    BY <1>6, <2>1, <1>3
<1>7. ASSUME NEW c \in Conn, NEW f \in Field, GatherFaults(c, f) \/ CopyEntry(c, f)
      PROVE  Stays
  BY <1>7, <1>3 DEF GatherFaults, CopyEntry
<1>8. ASSUME NEW c \in Conn, Send(c) \/ Finish(c), entries' = [entries EXCEPT ![c] = NoFields]
      PROVE  Stays \/ entries'[d] = NoFields
  BY <1>8 DEF Send, Finish
<1>9. ASSUME NEW c \in Conn, OneCopy(c)
      PROVE  \/ Stays \/ entries'[d] = NoFields
             \/ method # "TWOCOPY" /\ \E g \in Field : Gather(d, g)
  BY <1>9, <1>2, <1>6, <1>7, <1>8 DEF OneCopy
<1>10. ASSUME NEW c \in Conn, ZeroCopied(c)
       PROVE  \/ Stays \/ entries'[d] = NoFields
              \/ method # "TWOCOPY" /\ \E g \in Field : Gather(d, g)
  <2>1. QueueBreaks(c) => entries' = entries
    BY DEF QueueBreaks
  <2>2. QED
    BY <1>10, <2>1, <1>2, <1>6, <1>7, <1>8 DEF ZeroCopied, Queue
<1>11. ASSUME NEW c \in Conn, Transmit(c) PROVE Stays
  BY <1>11, <1>1 DEF Transmit, vars
<1>12. QED
  BY <1>1, <1>2, <1>4, <1>5, <1>9, <1>10, <1>11 DEF ReplyStep, ReplyNext, HandleReply

(* A field once overwritten stays so while its lookup stands. *)
LEMMA ReplyOverwrittenStays ==
  ASSUME IInv, ReplyTypes, ReplyStep, NEW c \in Conn, NEW f \in Field,
         at'[c] = at[c], req'[c] = req[c], Overwritten(c, f)
  PROVE  Overwritten(c, f)'
<1>1. log \in Seq(Call) /\ at[c] \in Nat
  BY DEF IInv, ThreadTypes
<1>2. CASE log' = log
  BY <1>2 DEF Overwritten
<1>3. ASSUME NEW e \in Call, log' = Append(log, e)
      PROVE  Overwritten(c, f)'
  <2>1. PICK i \in at[c] + 1 .. Len(log) : log[i].key = req[c].key /\ log[i].new[f] # Nil
    BY DEF Overwritten
  <2>2. i \in at'[c] + 1 .. Len(log') /\ log'[i] = log[i]
    BY <1>1, <1>3, <2>1
  <2>3. QED
    BY <2>1, <2>2 DEF Overwritten
<1>4. QED
  BY <1>2, <1>3, CallStep

-----------------------------------------------------------------------------
(* The invariant                                                            *)

(* What a step does to the variables of module ZeroCopy, all connections    *)
(* together.                                                                *)
LEMMA ReplyVarsStep ==
  ASSUME ReplyStep
  PROVE  /\ method' = method
         /\ \/ entries' = entries
            \/ \E c \in Conn : entries' = [entries EXCEPT ![c] = NoFields]
            \/ \E c \in Conn, f \in Field : Gather(c, f)
         /\ wire' = wire \/ \E c \in Conn : Queue(c) \/ Transmit(c)
<1> USE DEF reply
<1>1. CASE UNCHANGED reply
  BY <1>1
<1>2. ASSUME NEW c \in Conn, Process(c)
      PROVE  UNCHANGED <<method, entries, wire>>
  BY <1>2 DEF Process
<1>3. ASSUME NEW c \in Conn, TwoCopy(c)
      PROVE  UNCHANGED <<method, entries, wire>>
  BY <1>3 DEF TwoCopy
<1>4. ASSUME NEW c \in Conn, NEW f \in Field, Gather(c, f)
      PROVE  UNCHANGED <<method, wire>>
  BY <1>4 DEF Gather
<1>5. ASSUME NEW c \in Conn, NEW f \in Field, GatherFaults(c, f) \/ CopyEntry(c, f)
      PROVE  UNCHANGED <<method, entries, wire>>
  BY <1>5 DEF GatherFaults, CopyEntry
<1>6. ASSUME NEW c \in Conn, OneCopy(c)
      PROVE  /\ UNCHANGED <<method, wire>>
             /\ \/ entries' = entries
                \/ entries' = [entries EXCEPT ![c] = NoFields]
                \/ \E f \in Field : Gather(c, f)
  BY <1>6, <1>4, <1>5 DEF OneCopy
<1>7. ASSUME NEW c \in Conn, ZeroCopied(c)
      PROVE  /\ method' = method
             /\ \/ entries' = entries
                \/ entries' = [entries EXCEPT ![c] = NoFields]
                \/ \E f \in Field : Gather(c, f)
             /\ wire' = wire \/ Queue(c)
  <2>1. QueueBreaks(c) => UNCHANGED <<method, entries, wire>>
    BY DEF QueueBreaks
  <2>2. Queue(c) => method' = method /\ entries' = [entries EXCEPT ![c] = NoFields]
    BY DEF Queue
  <2>3. QED
    BY <1>7, <1>4, <1>5, <2>1, <2>2 DEF ZeroCopied
<1>8. ASSUME NEW c \in Conn, Transmit(c) PROVE UNCHANGED <<method, entries>>
  BY <1>8 DEF Transmit
<1>9. QED
  BY <1>1, <1>2, <1>3, <1>6, <1>7, <1>8 DEF ReplyStep, ReplyNext, HandleReply

LEMMA ReplyTypesStep ==
  ASSUME IInv, ReplyTypes, ReplyStep
  PROVE  ReplyTypes'
<1>0. ThreadTypes
  BY DEF IInv
<1>1. method' = method
  BY ReplyVarsStep
<1>2. entries' \in [Conn -> [Field -> Addr \cup {Nil, Garbage}]]
  <2>1. ASSUME NEW c \in Conn, NEW f \in Field, Gather(c, f)
        PROVE  entries' \in [Conn -> [Field -> Addr \cup {Nil, Garbage}]]
    <3>1. got[c][f] \in Addr \cup {Nil}
      BY <1>0 DEF ThreadTypes
    <3>2. \/ entries' = [entries EXCEPT ![c][f] = Garbage]
          \/ entries' = [entries EXCEPT ![c][f] = got[c][f]]
      BY <2>1 DEF Gather
    <3>3. PICK e \in Addr \cup {Nil, Garbage} : entries' = [entries EXCEPT ![c][f] = e]
      BY <3>1, <3>2
    <3>4. QED
      BY <3>3 DEF ReplyTypes
  <2>2. QED
    BY <2>1, ReplyVarsStep DEF ReplyTypes, NoFields
<1>3. wire' \in [Conn -> Seq(Unsent)]
  <2>1. ASSUME NEW c \in Conn, Queue(c)
        PROVE  wire' \in [Conn -> Seq(Unsent)]
    <3> DEFINE w == [key |-> req[c].key, entries |-> entries[c], at |-> at[c], seen |-> seen[c]]
    <3>1. w \in Unsent
      <4>1. req[c].key \in Key /\ at[c] \in Nat /\ seen[c] \in [Field -> Val \cup {Nil}]
        BY <1>0 DEF ThreadTypes, Request
      <4>2. entries[c] \in [Field -> Addr \cup {Nil, Garbage}]
        BY DEF ReplyTypes
      <4>3. QED
        BY <4>1, <4>2 DEF Unsent
    <3>2. wire' = wire \/ wire' = [wire EXCEPT ![c] = Append(@, w)]
      BY <2>1 DEF Queue, Enqueue
    <3> HIDE DEF w
    <3>3. Append(wire[c], w) \in Seq(Unsent)
      BY <3>1 DEF ReplyTypes
    <3>4. QED
      BY <3>2, <3>3 DEF ReplyTypes
  <2>2. ASSUME NEW c \in Conn, Transmit(c)
        PROVE  wire' \in [Conn -> Seq(Unsent)]
    <3>1. wire[c] # <<>> /\ wire' = [wire EXCEPT ![c] = Tail(@)]
      BY <2>2 DEF Transmit
    <3>2. Tail(wire[c]) \in Seq(Unsent)
      BY <3>1 DEF ReplyTypes
    <3>3. QED
      BY <3>1, <3>2 DEF ReplyTypes
  <2>3. QED
    BY <2>1, <2>2, ReplyVarsStep DEF ReplyTypes
<1>4. by' \in Seq(Conn) /\ Len(by') = Len(log')
  <2>1. log \in Seq(Call) /\ by \in Seq(Conn) /\ Len(by) = Len(log)
    BY <1>0 DEF ThreadTypes, ReplyTypes
  <2>2. ASSUME NEW c \in Conn, by' = Append(by, c), NEW e \in Call, log' = Append(log, e)
        PROVE  by' \in Seq(Conn) /\ Len(by') = Len(log')
    BY <2>1, <2>2
  <2>3. QED
    BY <2>1, <2>2, CallStep
<1>5. QED
  BY <1>1, <1>2, <1>3, <1>4 DEF ReplyTypes

(* An entry is made of the pointer, unless the string is gone already, and  *)
(* it goes with the reply.                                                  *)
LEMMA EntriesSoundStep ==
  ASSUME IInv, ReplyTypes, EntriesSound, ReplyStep
  PROVE  EntriesSound'
<1> SUFFICES ASSUME NEW d \in Conn, NEW f \in Field, entries'[d][f] # Nil
             PROVE  /\ method' # "TWOCOPY"
                    /\ pc'[d] = "reply"
                    /\ got'[d][f] # Nil
                    /\ entries'[d][f] = got'[d][f] \/ Overwritten(d, f)'
  BY DEF EntriesSound
<1>0. ThreadTypes /\ method' = method
  BY ReplyVarsStep DEF IInv
<1>1. CASE entries'[d] = entries[d] /\ (method = "TWOCOPY" \/ (pc[d] = "reply" => pc'[d] = "reply"))
  <2>1. /\ method # "TWOCOPY"
        /\ pc[d] = "reply" /\ pc'[d] = "reply"
        /\ got[d][f] # Nil
        /\ entries[d][f] = got[d][f] \/ Overwritten(d, f)
    BY <1>1 DEF EntriesSound
  <2>2. req'[d] = req[d] /\ got'[d] = got[d] /\ at'[d] = at[d]
    BY <2>1, ReplyThread DEF Elsewhere, Sent
  <2>3. Overwritten(d, f) => Overwritten(d, f)'
    BY <2>2, ReplyOverwrittenStays
  <2>4. QED
    BY <1>0, <1>1, <2>1, <2>2, <2>3
<1>2. ASSUME NEW g \in Field, Gather(d, g)
      PROVE  /\ pc'[d] = "reply"
             /\ got'[d][f] # Nil
             /\ entries'[d][f] = got'[d][f] \/ Overwritten(d, f)'
  <2>1. /\ pc'[d] = "reply" /\ pc[d] = "reply" /\ got[d][g] # Nil
        /\ entries' = [entries EXCEPT ![d][g] =
                         IF heap[got[d][g]] = Nil THEN Garbage ELSE got[d][g]]
        /\ UNCHANGED <<req, got, log, at>>
    BY <1>0, <1>2 DEF Gather, Goto, ToCopy, Found, threadVars, history, ThreadTypes
  <2>2. Overwritten(d, f)' <=> Overwritten(d, f)
    BY <2>1 DEF Overwritten
  <2>3. CASE f = g
    <3>1. heap[got[d][g]] = Nil => Overwritten(d, g)
      BY <2>1 DEF IInv, PointersSound
    <3>2. entries'[d][g] = IF heap[got[d][g]] = Nil THEN Garbage ELSE got[d][g]
      BY <2>1 DEF ReplyTypes
    <3>3. QED
      BY <2>1, <2>2, <2>3, <3>1, <3>2
  <2>4. CASE f # g
    <3>1. entries'[d][f] = entries[d][f]
      BY <2>1, <2>4 DEF ReplyTypes
    <3>2. QED
      BY <2>1, <2>2, <3>1 DEF EntriesSound
  <2>5. QED
    BY <2>3, <2>4
<1>3. QED
  BY <1>0, <1>1, <1>2, EntriesStep DEF NoFields

LEMMA CopiesFoundStep ==
  ASSUME IInv, ReplyTypes, CopiesFound, ReplyStep
  PROVE  CopiesFound'
<1> SUFFICES ASSUME NEW d \in Conn, NEW f \in Field, out'[d][f] # Nil
             PROVE  got'[d][f] # Nil
  BY DEF CopiesFound
<1>0. ThreadTypes /\ SetInProgress
  BY DEF IInv
<1>1. CASE [Next]_vars
  <2>1. Still(d) \/ Elsewhere(d) \/ Looked(d) \/ CopiedOne(d) \/ Sent(d)
    BY <1>0, <1>1, ThreadStep
  <2>2. CASE Still(d) \/ Elsewhere(d)
    BY <2>2 DEF Still, Elsewhere, CopiesFound
  <2>3. CASE Looked(d)
    BY <2>3 DEF Looked, IInv, CopiesSound
  <2>4. CASE CopiedOne(d)
    BY <2>4 DEF CopiedOne, CopiesFound
  <2>5. CASE Sent(d)
    BY <2>5 DEF Sent, NoFields
  <2>6. QED
    BY <2>1, <2>2, <2>3, <2>4, <2>5
<1>2. ASSUME NEW c \in Conn, NEW g \in Field, CopyEntry(c, g)
      PROVE  got'[d][f] # Nil
  BY <1>0, <1>2 DEF CopyEntry, ToCopy, Found, ThreadTypes, CopiesFound
<1>3. ASSUME NEW c \in Conn, Finish(c)
      PROVE  got'[d][f] # Nil
  BY <1>0, <1>3 DEF Finish, NoFields, ThreadTypes, CopiesFound
<1>4. ASSUME NEW c \in Conn, QueueBreaks(c)
      PROVE  got'[d][f] # Nil
  BY <1>4 DEF QueueBreaks, threadVars, CopiesFound
<1>5. QED
  BY <1>0, <1>1, <1>2, <1>3, <1>4, ReplySteps

(* A thread with a reply in work makes no call. *)
LEMMA OthersWroteStep ==
  ASSUME IInv, ReplyTypes, OthersWrote, ReplyStep
  PROVE  OthersWrote'
<1> SUFFICES ASSUME NEW d \in Conn, NEW f \in Field, got'[d][f] # Nil,
                    NEW i \in at'[d] + 1 .. Len(log')
             PROVE  by'[i] # d
  BY DEF OthersWrote
<1>0. /\ log \in Seq(Call) /\ by \in Seq(Conn) /\ Len(by) = Len(log)
      /\ at[d] \in 0..Len(log)
  BY DEF IInv, ThreadTypes, ReplyTypes
<1>1. CASE pc'[d] = pc[d] /\ got'[d] = got[d] /\ at'[d] = at[d]
  <2>1. pc[d] = "reply"
    BY <1>1 DEF IInv, PointersSound
  <2>2. CASE log' = log /\ by' = by
    BY <1>1, <2>2 DEF OthersWrote
  <2>3. ASSUME NEW c \in Conn, pc[c] = "setFields", by' = Append(by, c),
               NEW e \in Call, log' = Append(log, e)
        PROVE  by'[i] # d
    <3>1. CASE i = Len(log) + 1
      BY <1>0, <2>1, <2>3, <3>1
    <3>2. CASE i # Len(log) + 1
      <4>1. i \in at[d] + 1 .. Len(log) /\ by'[i] = by[i]
        BY <1>0, <1>1, <2>3, <3>2
      <4>2. QED
        BY <1>1, <4>1 DEF OthersWrote
    <3>3. QED
      BY <3>1, <3>2
  <2>4. QED
    BY <2>2, <2>3, CallStep
<1>2. CASE Elsewhere(d)
  BY <1>2 DEF Elsewhere, IInv, PointersSound
<1>3. CASE at'[d] = Len(log) /\ log' = log
  BY <1>0, <1>3
<1>4. CASE Sent(d)
  BY <1>4 DEF Sent, NoFields
<1>5. QED
  BY <1>1, <1>2, <1>3, <1>4, ReplyThread

(* A reply on the wire stays sound while the server goes on. *)
LEMMA WireKept ==
  ASSUME IInv, ReplyTypes, ReplyStep, NEW w \in Unsent, NEW f \in Field,
         w.at <= Len(log), WrittenSince(w, f) \/ Untouched(w, f)
  PROVE  WrittenSince(w, f)' \/ Untouched(w, f)'
<1>0. log \in Seq(Call) /\ w.at \in Nat /\ w.key \in Key /\ TypeOK /\ KVP!StoreInv
  BY SplitTypeOK DEF IInv, ThreadTypes, Unsent, KVP!StoreInv
<1>1. CASE WrittenSince(w, f)
  <2>1. PICK i \in w.at + 1 .. Len(log) : log[i].key = w.key /\ log[i].new[f] # Nil
    BY <1>1 DEF WrittenSince
  <2>2. log' = log \/ \E e \in Call : log' = Append(log, e)
    BY CallStep
  <2>3. i \in w.at + 1 .. Len(log') /\ log'[i] = log[i]
    BY <1>0, <2>1, <2>2
  <2>4. QED
    BY <2>1, <2>3 DEF WrittenSince
<1>2. CASE Untouched(w, f)
  <2>1. ASSUME NEW e \in Call, log' = Append(log, e), e.key = w.key, e.new[f] # Nil
        PROVE  WrittenSince(w, f)'
    <3>1. Len(log) + 1 \in w.at + 1 .. Len(log') /\ log'[Len(log) + 1] = e
      BY <1>0, <2>1
    <3>2. QED
      BY <2>1, <3>1 DEF WrittenSince
  <2>2. CASE [Next]_vars
    <3>1. \/ \E e \in Call : log' = Append(log, e) /\ e.key = w.key /\ e.new[f] # Nil
          \/ /\ fields'[w.key][f] = w.entries[f]
             /\ heap'[w.entries[f]] = heap[w.entries[f]]
             /\ todo'[w.key][f] = Nil
      BY <1>0, <1>2, <2>2, StringKept DEF Untouched
    <3>2. QED
      BY <1>2, <2>1, <3>1 DEF Untouched
  <2>3. CASE UNCHANGED storeVars
    BY <1>2, <2>3 DEF storeVars, Untouched
  <2>4. ASSUME NEW c \in Conn, (\E g \in Field : CopyEntry(c, g)) \/ Finish(c) \/ QueueBreaks(c)
        PROVE  UNCHANGED storeVars
    BY <2>4 DEF CopyEntry, Finish, QueueBreaks
  <2>5. QED
    BY <2>2, <2>3, <2>4, ReplySteps DEF IInv
<1>3. QED
  BY <1>1, <1>2

(* What is queued is what the entries say. *)
LEMMA QueuedSound ==
  ASSUME IInv, EntriesSound, NEW c \in Conn, NEW w \in Unsent, NEW f \in Field,
         w = [key |-> req[c].key, entries |-> entries[c], at |-> at[c], seen |-> seen[c]],
         w.entries[f] # Nil
  PROVE  WrittenSince(w, f) \/ Untouched(w, f)
<1>1. entries[c][f] = got[c][f] \/ Overwritten(c, f)
  BY DEF EntriesSound
<1>2. got[c][f] \in Addr
  BY DEF EntriesSound, IInv, ThreadTypes
<1>3. Overwritten(c, f) => WrittenSince(w, f)
  BY DEF Overwritten, WrittenSince
<1>4. ~Overwritten(c, f) =>
        /\ fields[req[c].key][f] = got[c][f]
        /\ heap[got[c][f]] = seen[c][f]
        /\ seen[c][f] # Nil
        /\ todo[req[c].key][f] = Nil
  BY <1>2, NilAssumption DEF IInv, PointersSound
<1>5. QED
  BY <1>1, <1>2, <1>3, <1>4 DEF Untouched

LEMMA WireSoundStep ==
  ASSUME IInv, ReplyTypes, EntriesSound, WireSound, ReplyStep
  PROVE  WireSound'
<1> DEFINE Sound(w, f) == /\ w.at <= Len(log)
                          /\ w.entries[f] # Nil => WrittenSince(w, f) \/ Untouched(w, f)
<1>0. log \in Seq(Call) /\ ThreadTypes
  BY DEF IInv, ThreadTypes
<1>1. ASSUME NEW w \in Unsent, NEW f \in Field, Sound(w, f)
      PROVE  Sound(w, f)'
  <2>1. Len(log') >= Len(log) /\ Len(log) \in Nat /\ Len(log') \in Nat /\ w.at \in Nat
    BY <1>0, CallStep DEF Unsent
  <2>2. QED
    BY <1>1, <2>1, WireKept
<1>2. ASSUME NEW d \in Conn, NEW i \in 1..Len(wire[d])
      PROVE  wire[d][i] \in Unsent /\ \A f \in Field : Sound(wire[d][i], f)
  BY <1>2 DEF ReplyTypes, WireSound
<1>3. SUFFICES ASSUME NEW d \in Conn, NEW i \in 1..Len(wire'[d])
               PROVE  \E w \in Unsent : w = wire'[d][i] /\ \A f \in Field : Sound(w, f)
  <2>1. ASSUME NEW d \in Conn, NEW i \in 1..Len(wire'[d]), NEW f \in Field
        PROVE  /\ wire'[d][i].at <= Len(log')
               /\ wire'[d][i].entries[f] # Nil =>
                    WrittenSince(wire[d][i], f)' \/ Untouched(wire[d][i], f)'
    <3>1. PICK w \in Unsent : w = wire'[d][i] /\ Sound(w, f)
      BY <1>3
    <3>2. Sound(w, f)'
      BY <1>1, <3>1
    <3>3. QED
      BY <3>1, <3>2 DEF WrittenSince, Untouched
  <2>2. QED
    BY <2>1 DEF WireSound
<1> HIDE DEF Sound
<1>4. CASE wire'[d] = wire[d]
  BY <1>2, <1>4
<1>5. CASE wire[d] # <<>> /\ wire'[d] = Tail(wire[d])
  <2>1. wire[d] \in Seq(Unsent)
    BY DEF ReplyTypes
  <2>2. i + 1 \in 1..Len(wire[d]) /\ wire'[d][i] = wire[d][i + 1]
    BY <1>5, <2>1
  <2>3. QED
    BY <1>2, <2>2
<1>6. CASE Queue(d) /\ wire'[d] # wire[d]
  <2> DEFINE w == [key |-> req[d].key, entries |-> entries[d], at |-> at[d], seen |-> seen[d]]
  <2>1. w \in Unsent
    <3>1. req[d].key \in Key /\ at[d] \in Nat /\ seen[d] \in [Field -> Val \cup {Nil}]
      BY <1>0 DEF ThreadTypes, Request
    <3>2. entries[d] \in [Field -> Addr \cup {Nil, Garbage}]
      BY DEF ReplyTypes
    <3>3. QED
      BY <3>1, <3>2 DEF Unsent
  <2>2. \A f \in Field : Sound(w, f)
    <3>1. w.at <= Len(log)
      BY <1>0 DEF ThreadTypes
    <3>2. QED
      BY <2>1, <3>1, QueuedSound DEF Sound
  <2>3. wire'[d] = Append(wire[d], w) /\ wire[d] \in Seq(Unsent)
    BY <1>6 DEF Queue, Enqueue, ReplyTypes
  <2> HIDE DEF w
  <2>4. CASE i = Len(wire[d]) + 1
    BY <2>1, <2>2, <2>3, <2>4
  <2>5. CASE i # Len(wire[d]) + 1
    <3>1. i \in 1..Len(wire[d]) /\ wire'[d][i] = wire[d][i]
      BY <2>1, <2>3, <2>5
    <3>2. QED
      BY <1>2, <3>1
  <2>6. QED
    BY <2>4, <2>5
<1>7. ASSUME NEW c \in Conn, Queue(c) \/ Transmit(c)
      PROVE  \/ wire'[d] = wire[d]
             \/ wire[d] # <<>> /\ wire'[d] = Tail(wire[d])
             \/ Queue(d)
  BY <1>7 DEF Queue, Enqueue, Transmit, ReplyTypes
<1>8. QED
  BY <1>4, <1>5, <1>6, <1>7, ReplyVarsStep

-----------------------------------------------------------------------------
(* The theorems *)

(* The invariant holds at the start, *)
LEMMA InitReplyIInv == ReplyInit => ReplyIInv
<1> SUFFICES ASSUME ReplyInit PROVE ReplyIInv
  OBVIOUS
<1>1. IInv
  BY InitIInv DEF ReplyInit
<1>2. ReplyTypes
  BY DEF ReplyInit, Init, ReplyTypes, NoFields
<1>3. EntriesSound /\ CopiesFound /\ OthersWrote
  BY DEF ReplyInit, Init, EntriesSound, CopiesFound, OthersWrote, NoFields
<1>4. WireSound
  BY DEF ReplyInit, WireSound
<1>5. QED
  BY <1>1, <1>2, <1>3, <1>4 DEF ReplyIInv

(* every step keeps it, *)
LEMMA NextReplyIInv == ReplyIInv /\ [ReplyNext]_<<vars, reply>> => ReplyIInv'
<1> SUFFICES ASSUME ReplyIInv, ReplyStep PROVE ReplyIInv'
  BY DEF ReplyStep
<1> USE DEF ReplyIInv
<1>1. IInv'
  BY ReplyKeepsIInv
<1>2. ReplyTypes'
  BY ReplyTypesStep
<1>3. EntriesSound' /\ CopiesFound' /\ OthersWrote'
  BY EntriesSoundStep, CopiesFoundStep, OthersWroteStep
<1>4. WireSound'
  BY WireSoundStep
<1>5. QED
  BY <1>1, <1>2, <1>3, <1>4

(* and so it always holds. *)
LEMMA ReplyInductive == ReplySpec => []ReplyIInv
BY InitReplyIInv, NextReplyIInv, PTL DEF ReplySpec

(* Every variable of the server has its type in all three builds. *)
THEOREM ReplyTypeCorrect == ReplySpec => []ReplyTypeOK
<1>1. ReplyIInv => ReplyTypeOK
  BY SplitTypeOK DEF ReplyIInv, IInv, KVP!StoreInv, ReplyTypes, ReplyTypeOK
<1>2. QED
  BY <1>1, ReplyInductive, PTL

(* A reply that is being built, by copies or from entries, is spoiled only  *)
(* by a SET_FIELDS of another connection (TwoCopySerializer::serialize,      *)
(* IOVecSerializer::serialize).                                             *)
THEOREM OnlyOthersSpoil == ReplySpec => []SpoiledByOthers
<1>1. ReplyIInv => SpoiledByOthers
  <2> SUFFICES ASSUME ReplyIInv, NEW c \in Conn, NEW f \in Field,
                      out[c][f] \notin {Nil, seen[c][f]}
               PROVE  \E d \in Conn \ {c} :
                        \E i \in at[c] + 1 .. Len(log) : Wrote(d, i, req[c].key, f)
    BY DEF SpoiledByOthers
  <2>1. PICK i \in at[c] + 1 .. Len(log) :
               log[i].key = req[c].key /\ log[i].new[f] # Nil
    BY DEF ReplyIInv, IInv, CopiesSound, Overwritten
  <2>2. by[i] # c
    BY <2>1 DEF ReplyIInv, CopiesFound, OthersWrote
  <2>3. by[i] \in Conn
    <3>1. by \in Seq(Conn) /\ Len(by) = Len(log) /\ at[c] \in Nat
      BY DEF ReplyIInv, ReplyTypes, IInv, ThreadTypes
    <3>2. i \in 1..Len(by)
      BY <3>1, <2>1
    <3>3. QED
      BY <3>1, <3>2
  <2>4. QED
    BY <2>1, <2>2, <2>3 DEF Wrote
<1>2. QED
  BY <1>1, ReplyInductive, PTL

(* What the kernel would transmit of a zero-copy reply is what the lookup    *)
(* saw, or the field was overwritten since (IOVecSerializer::serialize with  *)
(* MSG_ZEROCOPY, Value::setField).                                          *)
THEOREM OnlyOverwriteSpoilsWire == ReplySpec => []WireSpoiledByOverwrite
<1>1. ReplyIInv => WireSpoiledByOverwrite
  <2> SUFFICES ASSUME ReplyIInv, NEW c \in Conn, NEW n \in 1..Len(wire[c]), NEW f \in Field,
                      wire[c][n].entries[f] # Nil,
                      At(wire[c][n].entries[f]) # wire[c][n].seen[f]
               PROVE  \E d \in Conn : \E i \in wire[c][n].at + 1 .. Len(log) :
                        Wrote(d, i, wire[c][n].key, f)
    BY DEF WireSpoiledByOverwrite
  <2> DEFINE w == wire[c][n]
  <2>1. w.at \in Nat
    <3>1. wire[c] \in Seq(Unsent)
      BY DEF ReplyIInv, ReplyTypes
    <3>2. w \in Unsent
      BY <3>1
    <3>3. QED
      BY <3>2 DEF Unsent
  <2>2. WrittenSince(w, f) \/ Untouched(w, f)
    BY DEF ReplyIInv, WireSound
  <2>3. ~Untouched(w, f)
    BY WildEntryAssumption DEF Untouched, At
  <2>4. PICK i \in w.at + 1 .. Len(log) : log[i].key = w.key /\ log[i].new[f] # Nil
    BY <2>2, <2>3 DEF WrittenSince
  <2>5. by[i] \in Conn
    <3>1. by \in Seq(Conn) /\ Len(by) = Len(log)
      BY DEF ReplyIInv, ReplyTypes
    <3>2. i \in 1..Len(by)
      BY <2>1, <2>4, <3>1
    <3>3. QED
      BY <3>1, <3>2
  <2>6. QED
    BY <2>4, <2>5 DEF Wrote
<1>2. QED
  BY <1>1, ReplyInductive, PTL

(* In all three builds lookups are linearizable and no SET_FIELDS is refused *)
(* (Server::processCommand).                                                *)
THEOREM EveryBuildLinearizable == ReplySpec => [](Linearizable /\ SetAlwaysAccepted)
<1>1. ReplyIInv => Linearizable /\ SetAlwaysAccepted
  BY IInvLinearizable DEF ReplyIInv, IInv
<1>2. QED
  BY <1>1, ReplyInductive, PTL

(* No build loses a string or takes away a key or a field: how a reply gets *)
(* to the socket does not touch the store.                                  *)
THEOREM EveryBuildKeeps == ReplySpec => []NoLeak /\ RecordsGrow
<1>1. ReplyIInv => NoLeak
  BY DEF ReplyIInv, IInv
<1>2. ReplyIInv /\ [ReplyNext]_<<vars, reply>> =>
        [/\ present \subseteq present'
         /\ \A k \in Key, f \in Field : fields[k][f] # Nil => fields'[k][f] # Nil]_vars
  <2> SUFFICES ASSUME ReplyIInv, ReplyStep
               PROVE  /\ present \subseteq present'
                      /\ \A k \in Key, f \in Field : fields[k][f] # Nil => fields'[k][f] # Nil
    BY DEF ReplyStep
  <2>1. TypeOK /\ KVP!StoreInv /\ ThreadTypes
    BY SplitTypeOK DEF ReplyIInv, IInv, KVP!StoreInv
  <2>2. CASE [Next]_vars
    BY <2>1, <2>2, GrowStep
  <2>3. ASSUME NEW c \in Conn, (\E f \in Field : CopyEntry(c, f)) \/ Finish(c) \/ QueueBreaks(c)
        PROVE  UNCHANGED storeVars
    BY <2>3 DEF CopyEntry, Finish, QueueBreaks
  <2>4. QED
    BY <2>1, <2>2, <2>3, ReplySteps DEF storeVars
<1>3. QED
  BY <1>1, <1>2, ReplyInductive, PTL DEF ReplySpec, RecordsGrow

(* So it is in each build: the thread that ends it answers a client that is  *)
(* gone, or a lookup of which a field it has still to copy was overwritten   *)
(* since (Server::handleClient, IOVecSerializer::serialize).                 *)
THEOREM EveryBuildEndsInReply == ReplySpec => ExitCauses
<1>1. ReplyIInv /\ [ReplyNext]_<<vars, reply>> =>
        [main = "accepting" /\ main' # main =>
           \E c \in Conn : main' = c /\ MayEnd(c)]_vars
  <2> SUFFICES ASSUME ReplyIInv, ReplyStep, main = "accepting", main' # main
               PROVE  \E c \in Conn : main' = c /\ MayEnd(c)
    BY DEF ReplyStep
  <2>1. PointersSound /\ ThreadTypes
    BY DEF ReplyIInv, IInv
  <2>2. CASE [Next]_vars
    BY <2>1, <2>2, ExitStep
  <2>3. ASSUME NEW c \in Conn, (\E f \in Field : CopyEntry(c, f)) \/ Finish(c)
        PROVE  FALSE
    BY <2>3 DEF CopyEntry, Finish, Goto
  <2>4. ASSUME NEW c \in Conn, QueueBreaks(c)
        PROVE  main' = c /\ MayEnd(c)
    BY <2>4 DEF QueueBreaks, MayEnd
  <2>5. QED
    BY <2>1, <2>2, <2>3, <2>4, ReplySteps
<1>2. QED
  BY <1>1, ReplyInductive, PTL DEF ReplySpec, ExitCauses
=============================================================================
