------------------------------ MODULE ZeroCopy ------------------------------
(***************************************************************************)
(* The server of module Server in the three builds that differ in how a    *)
(* reply gets from the store to the socket: TwoCopySerializer copies the   *)
(* strings and sends the copy; IOVecSerializer gives sendmsg the addresses *)
(* of their characters, and the kernel copies them before sendmsg returns  *)
(* or, with MSG_ZEROCOPY, reads them when it transmits.  SO_ZEROCOPY is    *)
(* set on the listening socket (src/Protocol.cpp) and inherited.           *)
(*                                                                         *)
(* Every thread has entries of its own here; that they are in one vector   *)
(* is what module IOVec is about.  The characters of a string live and die *)
(* with it, at its address.                                                *)
(***************************************************************************)
EXTENDS Server

CONSTANT MaxWire  \* zero-copy replies of a socket that the kernel has room for

ASSUME MaxWireAssumption == MaxWire \in Nat \ {0}
ASSUME WildEntryAssumption == Garbage \notin Addr

VARIABLES
  method,   \* the SendMethod of the executable
  entries,  \* entries[c]: the iovecs of its strings
  wire,     \* wire[c]: zero-copy replies to transmit; with the strings seen
  by        \* history; by[i]: the connection that made call i of log

reply == <<method, entries, wire, by>>

Unsent == [key : Key, entries : [Field -> Addr \cup {Nil, Garbage}],
           at : Nat, seen : [Field -> Val \cup {Nil}]]

ReplyTypeOK ==
  /\ TypeOK
  /\ method \in {"TWOCOPY", "ONECOPY", "ZEROCOPY"}
  /\ entries \in [Conn -> [Field -> Addr \cup {Nil, Garbage}]]
  /\ wire \in [Conn -> Seq(Unsent)]
  /\ by \in Seq(Conn) /\ Len(by) = Len(log)

ReplyInit ==
  /\ Init
  /\ method \in {"TWOCOPY", "ONECOPY", "ZEROCOPY"}
  /\ entries = [c \in Conn |-> NoFields]
  /\ wire = [c \in Conn |-> <<>>]
  /\ by = <<>>

-----------------------------------------------------------------------------
(* IOVecSerializer::serialize *)

Gathered(c) == \A f \in ToCopy(c) : entries[c][f] # Nil

\* Mutant of Gather: the entry is the string.
GatherString(c, f) ==
  /\ Goto(c, "reply", "reply")
  /\ f \in ToCopy(c) /\ entries[c][f] = Nil
  /\ entries' = [entries EXCEPT ![c][f] = seen[c][f]]
  /\ UNCHANGED <<storeVars, peer, threadVars, history, method, wire, by>>

\* addIovec(value): c_str() and size() of a string that may have been deleted.
Gather(c, f) ==
  /\ Goto(c, "reply", "reply")
  /\ f \in ToCopy(c) /\ entries[c][f] = Nil
  /\ entries' = [entries EXCEPT ![c][f] =
                   IF heap[got[c][f]] = Nil THEN Garbage ELSE got[c][f]]
  /\ UNCHANGED <<storeVars, peer, threadVars, history, method, wire, by>>

GatherFaults(c, f) ==
  /\ entries[c][f] = Nil
  /\ Fault(c, f)
  /\ UNCHANGED reply

\* What is found at an entry.  A wild one makes no fault: the kernel checks.
At(entry) == IF entry = Garbage THEN Garbage
             ELSE IF heap[entry] = Nil THEN Garbage ELSE heap[entry]

\* One copy: sendmsg copies what the entries point to.
CopyEntry(c, f) ==
  /\ Gathered(c)
  /\ Goto(c, "reply", "reply")
  /\ f \in ToCopy(c) /\ out[c][f] = Nil
  /\ out' = [out EXCEPT ![c][f] = At(entries[c][f])]
  /\ UNCHANGED <<storeVars, peer, count, req, resp, got, history, reply>>

\* Zero copy: sendmsg takes the entries as they are, or fails for lack of room
\* (ENOBUFS), which nobody looks at.
Enqueue(c) ==
  IF Len(wire[c]) < MaxWire
  THEN wire' = [wire EXCEPT ![c] = Append(@,
                  [key |-> req[c].key, entries |-> entries[c], at |-> at[c], seen |-> seen[c]])]
  ELSE UNCHANGED wire

\* The end of processCommand, as in Send.
Finish(c) ==
  /\ Goto(c, "reply", "read")
  /\ \E p \in AfterSend(peer[c]) : peer' = [peer EXCEPT ![c] = p]
  /\ req' = [req EXCEPT ![c] = NoRequest]
  /\ resp' = [resp EXCEPT ![c] = NoResponse]
  /\ got' = [got EXCEPT ![c] = NoFields]
  /\ out' = [out EXCEPT ![c] = NoFields]
  /\ lo' = [lo EXCEPT ![c] = 0]
  /\ at' = [at EXCEPT ![c] = 0]
  /\ seen' = [seen EXCEPT ![c] = NoFields]
  /\ UNCHANGED <<storeVars, count, log>>

\* Mutant of Queue: the entries are not cleared.
QueueKeeps(c) ==
  /\ Gathered(c) /\ Finish(c) /\ Enqueue(c)
  /\ UNCHANGED <<entries, method, by>>

Queue(c) ==
  /\ Gathered(c) /\ Finish(c) /\ Enqueue(c)
  /\ entries' = [entries EXCEPT ![c] = NoFields]
  /\ UNCHANGED <<method, by>>

QueueBreaks(c) ==
  /\ main = "accepting" /\ pc[c] = "reply"
  /\ Gathered(c) /\ peer[c] \in {"reset", "broken"}
  /\ main' = c
  /\ UNCHANGED <<storeVars, pc, peer, threadVars, history, reply>>

\* The kernel transmits a reply of a client that is still there.
Transmit(c) ==
  /\ main = "accepting" /\ wire[c] # <<>> /\ peer[c] \in {"open", "closed"}
  /\ wire' = [wire EXCEPT ![c] = Tail(@)]
  /\ UNCHANGED <<vars, method, entries, by>>

-----------------------------------------------------------------------------
TwoCopy(c) ==
  /\ method = "TWOCOPY"
  /\ (\E f \in Field : CopyField(c, f) \/ Fault(c, f)) \/ Send(c) \/ BrokenPipe(c)
  /\ UNCHANGED reply

OneCopy(c) ==
  /\ method = "ONECOPY"
  /\ \/ \E f \in Field : Gather(c, f) \/ GatherFaults(c, f) \/ CopyEntry(c, f)
     \/ Send(c) /\ entries' = [entries EXCEPT ![c] = NoFields] /\ UNCHANGED <<method, wire, by>>
     \/ BrokenPipe(c) /\ UNCHANGED reply

ZeroCopied(c) ==
  /\ method = "ZEROCOPY"
  /\ (\E f \in Field : Gather(c, f) \/ GatherFaults(c, f)) \/ Queue(c) \/ QueueBreaks(c)

\* The rest of handleClient and processCommand, as in Server.
Process(c) ==
  \/ BeginSet(c) /\ by' = Append(by, c) /\ UNCHANGED <<method, entries, wire>>
  \/ /\ ReadError(c) \/ ReadEnd(c) \/ InsertKey(c) \/ EmptySet(c)
        \/ (\E f \in Field : WriteField(c, f)) \/ GetAll(c) \/ GetSelected(c)
     /\ UNCHANGED reply

HandleReply(c) == Process(c) \/ TwoCopy(c) \/ OneCopy(c) \/ ZeroCopied(c)

ReplyNext ==
  \/ /\ Listen \/ Idle \/ (\E c \in Conn : Accept(c) \/ Hangup(c) \/ Receive(c))
     /\ UNCHANGED reply
  \/ \E c \in Conn : HandleReply(c) \/ Transmit(c)

ReplySpec == ReplyInit /\ [][ReplyNext]_<<vars, reply>>

-----------------------------------------------------------------------------
(* Properties *)

Wrote(c, i, key, f) == by[i] = c /\ log[i].key = key /\ log[i].new[f] # Nil

\* While the client waits for it a reply is spoiled by other clients only: with
\* two copies and with one, no SET_FIELDS of its own connection gets in between.
SpoiledByOthers ==
  \A c \in Conn, f \in Field :
    out[c][f] \notin {Nil, seen[c][f]} =>
      \E d \in Conn \ {c} : \E i \in at[c] + 1 .. Len(log) : Wrote(d, i, req[c].key, f)

\* A zero-copy reply on its way: what the kernel would find at an entry now is
\* what the lookup saw, unless the field was overwritten since, by whomever;
\* its own client may, once it asks for more before it has the reply.
WireSpoiledByOverwrite ==
  \A c \in Conn : \A w \in {wire[c][i] : i \in 1..Len(wire[c])} : \A f \in Field :
    w.entries[f] # Nil /\ At(w.entries[f]) # w.seen[f] =>
      \E d \in Conn : \E i \in w.at + 1 .. Len(log) : Wrote(d, i, w.key, f)
=============================================================================
