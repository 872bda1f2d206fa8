------------------------------- MODULE Server -------------------------------
(***************************************************************************)
(* The muStore server (src/Server.cpp) on top of the store of module       *)
(* KVStore: the accept loop, one detached thread per connection, and       *)
(* processCommand with the reply built by TwoCopySerializer                *)
(* (src/TwoCopySerializer.cpp), the serializer of the mustore_two_copy     *)
(* executable.                                                             *)
(*                                                                         *)
(* A thread takes one step per access to what the threads share: a store   *)
(* method, a string it reads through a pointer, a call on its socket.  A   *)
(* read() is taken to return one whole command; module Connection is about *)
(* when that is so.  What a client has sent is chosen when it is read.     *)
(***************************************************************************)
EXTENDS FiniteSetsExt, Naturals, Sequences

CONSTANTS
  Key, Field, Val, Addr, Nil,
  Conn,        \* the connections; each has a client and a server thread
  Commands,    \* the requests the clients may send, as deserialize parses them
  MaxCommands, \* bound: commands the server reads on one connection
  Garbage      \* what reading a deleted string may yield

Request == [type   : {"SET_FIELDS", "GETALL", "GET_FIELDS", "INVALID"},
            key    : Key,
            fields : [Field -> Val \cup {Nil}],  \* Nil: not in the command
            names  : Seq(Field)]

ASSUME NilAssumption == Nil \notin Val \cup Addr \cup Conn
ASSUME GarbageAssumption == Garbage \notin Val \cup {Nil}
ASSUME CommandsAssumption == Commands # {} /\ Commands \subseteq Request
ASSUME MaxCommandsAssumption == MaxCommands \in Nat

VARIABLES
  present, fields, heap, mutex, todo,  \* the store: see KVStore
  main,    \* the main thread, in start(), "exited" when main() has returned; or
           \* the connection whose thread has ended the process
  pc,      \* pc[c]: where the thread of connection c is
  peer,    \* peer[c]: what c's socket knows of the client; see Hangup
  count,   \* count[c]: commands read on c
  req,     \* req[c]: the Request being processed
  resp,    \* resp[c]: type and key of its Response
  got,     \* got[c]: Response::fields, the pointers the store returned
  out      \* out[c]: the strings copied into the reply so far

VARIABLES  \* history, read by the properties only
  log,     \* the setFields calls, in the order they got the mutex
  lo,      \* lo[c]: how many of them when the command was read
  at,      \* at[c]: how many of them at the lookup
  seen     \* seen[c]: the strings behind got[c] at the lookup

storeVars == <<present, fields, heap, mutex, todo>>
history   == <<log, lo, at, seen>>
vars == <<storeVars, main, pc, peer, count, req, resp, got, out, history>>

KV == INSTANCE KVStore WITH Thread <- Conn, MaxLeaked <- 0

NoFields == [f \in Field |-> Nil]
Error    == "Error"

\* A request that is no command has no fields and no names; nobody looks at
\* its key.
Invalid(key) == [type |-> "INVALID", key |-> key, fields |-> NoFields, names |-> <<>>]

\* What stands in req and resp while no command is being processed.
NoRequest  == CHOOSE r \in Commands : TRUE
NoResponse == [type |-> "RESPONSE", key |-> Error]

TypeOK ==
  /\ KV!TypeOK
  /\ main \in {"start", "bound", "accepting", "exited"} \cup Conn
  /\ pc \in [Conn -> {"none", "read", "insert", "setFields", "writing",
                      "lookup", "reply", "closed"}]
  /\ peer \in [Conn -> {"open", "closed", "reset", "broken"}]
  /\ count \in [Conn -> 0..MaxCommands]
  /\ req \in [Conn -> Request]
  /\ resp \in [Conn -> [type : {"SET_FIELDS", "GETALL", "GET_FIELDS", "RESPONSE"},
                        key  : Key \cup {Error}]]
  /\ got \in [Conn -> [Field -> Addr \cup {Nil}]]
  /\ out \in [Conn -> [Field -> Val \cup {Nil, Garbage}]]
  /\ log \in Seq([key : Key, new : [Field -> Val \cup {Nil}]])
  /\ lo \in [Conn -> 0..Len(log)]
  /\ at \in [Conn -> 0..Len(log)]
  /\ seen \in [Conn -> [Field -> Val \cup {Nil}]]

Init ==
  /\ KV!Init
  /\ main = "start"
  /\ pc = [c \in Conn |-> "none"]
  /\ peer = [c \in Conn |-> "open"]
  /\ count = [c \in Conn |-> 0]
  /\ req = [c \in Conn |-> NoRequest]
  /\ resp = [c \in Conn |-> NoResponse]
  /\ got = [c \in Conn |-> NoFields]
  /\ out = [c \in Conn |-> NoFields]
  /\ log = <<>>
  /\ lo = [c \in Conn |-> 0]
  /\ at = [c \in Conn |-> 0]
  /\ seen = [c \in Conn |-> NoFields]

-----------------------------------------------------------------------------
(* Server::start, in the main thread *)

threadVars == <<count, req, resp, got, out>>

\* bind() and then listen(); when one fails start() returns, and so does main.
Listen ==
  /\ \/ main = "start" /\ main' \in {"bound", "exited"}
     \/ main = "bound" /\ main' \in {"accepting", "exited"}
  /\ UNCHANGED <<storeVars, pc, peer, threadVars, history>>

\* accept() and the detached thread that runs handleClient.
Accept(c) ==
  /\ main = "accepting"
  /\ pc[c] = "none"
  /\ pc' = [pc EXCEPT ![c] = "read"]
  /\ UNCHANGED <<storeVars, main, peer, threadVars, history>>

-----------------------------------------------------------------------------
(* The client's end of a connection *)

\* The client's FIN ("closed") or RST ("reset") arrives.  After a reset one
\* system call on the socket reports the error; then it is "broken".
Hangup(c) ==
  /\ main = "accepting"
  /\ pc[c] # "none"
  /\ \/ peer[c] = "open" /\ peer' = [peer EXCEPT ![c] = "closed"]
     \/ peer[c] \in {"open", "closed"} /\ peer' = [peer EXCEPT ![c] = "reset"]
  /\ UNCHANGED <<storeVars, main, pc, threadVars, history>>

-----------------------------------------------------------------------------
(* Server::handleClient and Server::processCommand, in the thread of c *)

\* The thread of c goes from one place to another; only while the process runs.
Goto(c, from, to) ==
  /\ main = "accepting"
  /\ pc[c] = from
  /\ pc' = [pc EXCEPT ![c] = to]
  /\ UNCHANGED main

\* The type and key of c's Response are set; they start as NoResponse.
Respond(c, type, key) == resp' = [resp EXCEPT ![c] = [type |-> type, key |-> key]]

FirstStep(type) ==
  CASE type = "SET_FIELDS" -> "insert"
    [] type \in {"GETALL", "GET_FIELDS"} -> "lookup"
    [] type = "INVALID" -> "reply"

\* read() returns a command, possibly one queued before the client hung up;
\* processCommand deserializes it and starts a Response.
Receive(c) ==
  \E r \in Commands :
    /\ count[c] < MaxCommands
    /\ count' = [count EXCEPT ![c] = @ + 1]
    /\ Goto(c, "read", FirstStep(r.type))
    /\ req' = [req EXCEPT ![c] = r]
    /\ lo' = [lo EXCEPT ![c] = Len(log)]
    /\ UNCHANGED <<storeVars, peer, resp, got, out, log, at, seen>>

\* Mutant of ReadError: a failed read ends the process.
ReadErrorExits(c) ==
  /\ main = "accepting"
  /\ pc[c] = "read"
  /\ peer[c] = "reset"
  /\ main' = c
  /\ UNCHANGED <<storeVars, pc, peer, threadVars, history>>

\* read() fails: the loop breaks and the empty command, an INVALID one, is
\* processed.
ReadError(c) ==
  /\ peer[c] = "reset"
  /\ peer' = [peer EXCEPT ![c] = "broken"]
  /\ Goto(c, "read", "reply")
  /\ req' = [req EXCEPT ![c] = Invalid(@.key)]
  /\ UNCHANGED <<storeVars, count, resp, got, out, history>>

\* Mutant of ReadEnd: the end of the stream is taken for an empty command.
ReadEndProcesses(c) ==
  /\ peer[c] \in {"closed", "broken"}
  /\ Goto(c, "read", "reply")
  /\ req' = [req EXCEPT ![c] = Invalid(@.key)]
  /\ UNCHANGED <<storeVars, peer, count, resp, got, out, history>>

\* read() returns 0: close the socket and end the thread.
ReadEnd(c) ==
  /\ peer[c] \in {"closed", "broken"}
  /\ Goto(c, "read", "closed")
  /\ UNCHANGED <<storeVars, peer, threadVars, history>>

\* Mutant of InsertKey: setFields is called without insert.
InsertKeySkipped(c) ==
  /\ Goto(c, "insert", "setFields")
  /\ UNCHANGED <<storeVars, peer, threadVars, history>>

\* store.insert(msg.key); what it returns is ignored.
InsertKey(c) ==
  /\ Goto(c, "insert", "setFields")
  /\ \/ KV!Insert(req[c].key)
     \/ mutex = Nil /\ req[c].key \in present /\ UNCHANGED storeVars
  /\ UNCHANGED <<peer, threadVars, history>>

\* store.setFields gets the mutex and finds the key.
BeginSet(c) ==
  /\ KV!BeginSetFields(c, req[c].key, req[c].fields)
  /\ Goto(c, "setFields", "writing")
  /\ log' = Append(log, [key |-> req[c].key, new |-> req[c].fields])
  /\ UNCHANGED <<peer, threadVars, lo, at, seen>>

\* store.setFields writes nothing: there is no such key, or no field to write.
EmptySet(c) ==
  /\ mutex = Nil
  /\ req[c].key \in present => req[c].fields = NoFields
  /\ Goto(c, "setFields", "reply")
  /\ IF req[c].key \in present THEN Respond(c, "SET_FIELDS", req[c].key)
                               ELSE Respond(c, "RESPONSE", Error)
  /\ UNCHANGED <<storeVars, peer, count, req, got, out, history>>

\* Mutant of WriteField: processCommand goes on with the loop unfinished.
WriteFieldReturns(c, f) ==
  /\ KV!SetNextField(c, req[c].key, f)
  /\ Goto(c, "writing", "reply")
  /\ Respond(c, "SET_FIELDS", req[c].key)
  /\ UNCHANGED <<peer, count, req, got, out, history>>

\* The next field of the loop in setFields; the last one releases the mutex.
WriteField(c, f) ==
  /\ KV!SetNextField(c, req[c].key, f)
  /\ Goto(c, "writing", IF mutex' = Nil THEN "reply" ELSE "writing")
  /\ IF mutex' = Nil THEN Respond(c, "SET_FIELDS", req[c].key) ELSE UNCHANGED resp
  /\ UNCHANGED <<peer, count, req, got, out, history>>

Found(ptrs) == {f \in Field : ptrs[f] # Nil}

\* Mutant of LookedUp: the lookup does not lock.
LookedUpUnlocked(c, ptrs) ==
  /\ Goto(c, "lookup", "reply")
  /\ got' = [got EXCEPT ![c] = ptrs]
  /\ at' = [at EXCEPT ![c] = Len(log)]
  /\ seen' = [seen EXCEPT ![c] = [f \in Field |-> IF ptrs[f] = Nil THEN Nil
                                                ELSE heap[ptrs[f]]]]
  /\ UNCHANGED <<storeVars, peer, count, req, out, log, lo>>

LookedUp(c, ptrs) ==
  /\ mutex = Nil
  /\ Goto(c, "lookup", "reply")
  /\ got' = [got EXCEPT ![c] = ptrs]
  /\ at' = [at EXCEPT ![c] = Len(log)]
  /\ seen' = [seen EXCEPT ![c] = [f \in Field |-> IF ptrs[f] = Nil THEN Nil
                                                ELSE heap[ptrs[f]]]]
  /\ UNCHANGED <<storeVars, peer, count, req, out, log, lo>>

\* case GETALL: no field at all is an error.
GetAll(c) ==
  LET ptrs == KV!GetFields(req[c].key) IN
  /\ req[c].type = "GETALL"
  /\ LookedUp(c, ptrs)
  /\ IF Found(ptrs) = {} THEN Respond(c, "RESPONSE", Error)
                         ELSE Respond(c, "GETALL", req[c].key)

NamesOf(r) == {r.names[i] : i \in 1..Len(r.names)}

\* case GET_FIELDS: a map as large as the list of names, or an error.
GetSelected(c) ==
  LET ptrs == KV!GetSelectedFields(req[c].key, NamesOf(req[c])) IN
  /\ req[c].type = "GET_FIELDS"
  /\ LookedUp(c, ptrs)
  /\ IF Found(ptrs) = {} \/ Cardinality(Found(ptrs)) # Len(req[c].names)
     THEN Respond(c, "RESPONSE", Error)
     ELSE Respond(c, "GET_FIELDS", req[c].key)

\* What TwoCopySerializer::serialize reads: every string of Response::fields,
\* except that for GET_FIELDS it goes by Response::fieldNames, which nothing
\* fills.
ToCopy(c) == IF resp[c].type = "GET_FIELDS" THEN {} ELSE Found(got[c])

Copied(c) == \A f \in ToCopy(c) : out[c][f] # Nil

\* One string is read through its pointer.  The mutex is not held: the string
\* may have been deleted, and then the read yields anything, or a fault.
CopyField(c, f) ==
  /\ Goto(c, "reply", "reply")
  /\ f \in ToCopy(c)
  /\ out[c][f] = Nil
  /\ out' = [out EXCEPT ![c][f] =
               IF heap[got[c][f]] = Nil THEN Garbage ELSE heap[got[c][f]]]
  /\ UNCHANGED <<storeVars, peer, count, req, resp, got, history>>

Fault(c, f) ==
  /\ main = "accepting"
  /\ pc[c] = "reply"
  /\ f \in ToCopy(c)
  /\ out[c][f] = Nil
  /\ heap[got[c][f]] = Nil
  /\ main' = c
  /\ UNCHANGED <<storeVars, pc, peer, threadVars, history>>

\* What the socket may know after a send().  A client that closed its socket may
\* answer with a RST; a reset socket reports its error; on a broken one send()
\* does not return.
AfterSend(p) ==
  CASE p = "open"   -> {"open"}
    [] p = "closed" -> {"closed", "reset"}
    [] p = "reset"  -> {"broken"}
    [] p = "broken" -> {}

\* Mutant of Send: the next reply starts with what this one holds.
SendKeepsOut(c) ==
  /\ Copied(c)
  /\ Goto(c, "reply", "read")
  /\ \E p \in AfterSend(peer[c]) : peer' = [peer EXCEPT ![c] = p]
  /\ req' = [req EXCEPT ![c] = NoRequest]
  /\ resp' = [resp EXCEPT ![c] = NoResponse]
  /\ got' = [got EXCEPT ![c] = NoFields]
  /\ lo' = [lo EXCEPT ![c] = 0]
  /\ at' = [at EXCEPT ![c] = 0]
  /\ seen' = [seen EXCEPT ![c] = NoFields]
  /\ UNCHANGED <<storeVars, count, out, log>>

\* send() and the end of processCommand, which ignores what send() returns and
\* drops the Response.
Send(c) ==
  /\ Copied(c)
  /\ Goto(c, "reply", "read")
  /\ \E p \in AfterSend(peer[c]) : peer' = [peer EXCEPT ![c] = p]
  /\ req' = [req EXCEPT ![c] = NoRequest]
  /\ resp' = [resp EXCEPT ![c] = NoResponse]
  /\ got' = [got EXCEPT ![c] = NoFields]
  /\ out' = [out EXCEPT ![c] = NoFields]
  /\ lo' = [lo EXCEPT ![c] = 0]
  /\ at' = [at EXCEPT ![c] = 0]
  /\ seen' = [seen EXCEPT ![c] = NoFields]
  /\ UNCHANGED <<storeVars, count, log>>

\* send() raises SIGPIPE, which nothing handles: at once on a broken socket,
\* and on a reset one when the RST answered an earlier reply.
BrokenPipe(c) ==
  /\ main = "accepting"
  /\ pc[c] = "reply"
  /\ Copied(c)
  /\ peer[c] \in {"reset", "broken"}
  /\ main' = c
  /\ UNCHANGED <<storeVars, pc, peer, threadVars, history>>

-----------------------------------------------------------------------------
\* The process is no more: main() returned, or a thread was killed by a signal.
Ended == main \notin {"start", "bound", "accepting"}

\* The process ended, or every connection did and accept() waits for ever.
Idle ==
  /\ Ended \/ \A c \in Conn : pc[c] = "closed"
  /\ UNCHANGED vars

Handle(c) ==
  \/ ReadError(c) \/ ReadEnd(c)
  \/ InsertKey(c) \/ BeginSet(c) \/ EmptySet(c)
  \/ \E f \in Field : WriteField(c, f) \/ CopyField(c, f) \/ Fault(c, f)
  \/ GetAll(c) \/ GetSelected(c)
  \/ Send(c) \/ BrokenPipe(c)

Next ==
  \/ Listen
  \/ \E c \in Conn : Accept(c) \/ Hangup(c) \/ Receive(c) \/ Handle(c)
  \/ Idle

\* The operating system runs every thread that can run; clients owe nothing.
Fairness == \A c \in Conn : WF_vars(Handle(c))

Spec == Init /\ [][Next]_vars /\ Fairness

-----------------------------------------------------------------------------
(* Properties *)

\* AsOf(calls, n, k): the record of key k once the first n of the setFields
\* calls are done.
Writers(calls, n, k, f) == {i \in 1..n : calls[i].key = k /\ calls[i].new[f] # Nil}

AsOf(calls, n, k) ==
  [f \in Field |-> LET w == Writers(calls, n, k, f) IN
                  IF w = {} THEN Nil ELSE calls[Max(w)].new[f]]

\* Only the writer is inside setFields, and on the key of its own command.
WriterHoldsMutex ==
  \A c \in Conn :
    /\ pc[c] = "writing" <=> mutex = c
    /\ \A k \in Key : mutex = c /\ todo[k] # NoFields => k = req[c].key

Asked(r) == IF r.type = "GETALL" THEN Field ELSE NamesOf(r)

\* The lookups of GETALL and GET_FIELDS are linearizable: the values behind the
\* pointers they return are the whole effect of some prefix of the setFields
\* calls, one that has every call made before the command was read.  No
\* command sees half of another's fields, a lost write or a value rolled back.
Linearizable ==
  \A c \in Conn :
    pc[c] = "reply" /\ req[c].type \in {"GETALL", "GET_FIELDS"} =>
      \E n \in lo[c]..Len(log) :
        \A f \in Field : seen[c][f] = IF f \in Asked(req[c])
                                     THEN AsOf(log, n, req[c].key)[f] ELSE Nil

Overwritten(c, f) ==
  \E i \in at[c] + 1 .. Len(log) :
    log[i].key = req[c].key /\ log[i].new[f] # Nil

\* What goes into a reply differs from what the lookup saw only in a field that a
\* SET_FIELDS of the same key wrote after the lookup: a string is deleted under
\* the serializer by nothing else.
StaleOnlyByOverwrite ==
  \A c \in Conn, f \in Field :
    out[c][f] \notin {Nil, seen[c][f]} => Overwritten(c, f)

\* Every SET_FIELDS is answered as a success: no other thread takes the key away
\* between insert and setFields, which do not share one hold of the mutex.
SetAlwaysAccepted ==
  \A c \in Conn :
    pc[c] = "reply" /\ req[c].type = "SET_FIELDS" => resp[c].type = "SET_FIELDS"

\* The server never loses a string: whatever is alive is in a record.
NoLeak == KV!Leaked = {}

\* What is stored stays: the server has no command that takes away a key or a
\* field, and no interleaving of its commands does either.
RecordsGrow ==
  [][/\ present \subseteq present'
     /\ \A k \in Key, f \in Field : fields[k][f] # Nil => fields'[k][f] # Nil]_vars

\* The thread of c answers a client that is gone, or a lookup of which a field that
\* is still to be copied was overwritten.
MayEnd(c) ==
  /\ pc[c] = "reply"
  /\ \/ peer[c] \in {"reset", "broken"}
     \/ /\ req[c].type \in {"GETALL", "GET_FIELDS"}
        /\ \E f \in ToCopy(c) : out[c][f] = Nil /\ Overwritten(c, f)

\* A thread ends a process that serves only while it answers a client of its own
\* that is gone, or a lookup of its own of which a field that is still to be copied
\* was overwritten since: by no other sequence of commands does a thread come to
\* read a string that is not there.
ExitCauses ==
  [][main = "accepting" /\ main' # main => \E c \in Conn : main' = c /\ MayEnd(c)]_vars

\* Every command that is read is answered: its thread returns to read().
Answered ==
  \A c \in Conn :
    pc[c] \notin {"none", "read", "closed"} ~> pc[c] = "read" \/ Ended

\* The thread of a client that hung up ends, and its socket is closed.
HungUpEnds ==
  \A c \in Conn : peer[c] # "open" ~> pc[c] = "closed" \/ Ended

-----------------------------------------------------------------------------
(* What README.md says and the code does not do *)

\* README.md:7, "Concurrent access": a reply holds the values its lookup saw.
ReplyIsWhatWasSeen ==
  \A c \in Conn, f \in Field : out[c][f] \in {Nil, seen[c][f]}
=============================================================================
