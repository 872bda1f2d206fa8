------------------------------- MODULE IOVec --------------------------------
(***************************************************************************)
(* IOVecSerializer (src/IOVecSerializer.cpp), the serializer of the        *)
(* mustore_one_copy and mustore_zero_copy executables.  One object serves  *)
(* the threads of all connections, and its vector iovecs is cleared,       *)
(* filled and handed to sendmsg by each of them without a lock.            *)
(*                                                                         *)
(* An iovec says where the bytes are, not what they are: an Entry is one   *)
(* part of one reply.  push_back is the store of the entry and then the    *)
(* move of the vector's end; a vector that is full is copied to a new      *)
(* block first.  A thread that uses the vector while another copies it, or *)
(* writes past its block, leaves the heap broken, and there the model      *)
(* stops.                                                                  *)
(***************************************************************************)
EXTENDS FiniteSets, Naturals, Sequences

CONSTANTS
  Conn,        \* the connections, each with its thread
  MaxValues,   \* bound: strings in one Response
  MaxReplies,  \* bound: replies on all connections together
  MaxWire,     \* zero-copy replies that the kernel has room for
  ZeroCopy,    \* TRUE: SendMethod::ZEROCOPY, sendmsg with MSG_ZEROCOPY
  Newline,     \* the entry for the literal "\n", the same memory for all
  Junk         \* what is read from memory that was never written or was freed

ASSUME BoundsAssumption == MaxValues \in Nat /\ MaxReplies \in Nat /\ MaxWire \in Nat \ {0}
ASSUME ZeroCopyAssumption == ZeroCopy \in BOOLEAN

\* Replies are numbered as serialize is called.  The strings of a Response are
\* its parts 1, 2, ...; part 0 is its key.
Entry == [reply : 1..MaxReplies, part : 0..MaxValues] \cup {Newline, Junk}

ASSUME MarkersAssumption ==
  /\ Newline \notin [reply : 1..MaxReplies, part : 0..MaxValues]
  /\ Junk \notin [reply : 1..MaxReplies, part : 0..MaxValues]
  /\ Newline # Junk

VARIABLES
  mem,      \* the block the vector has allocated, up to its capacity
  size,     \* iovecs.size()
  block,    \* which block that is; the ones before it were freed
  broken,   \* the heap is corrupt
  pc,       \* pc[c]: where the thread of c is in serialize
  replies,  \* how many replies were begun
  reply,    \* reply[c]: the number of the reply in work, or 0
  values,   \* values[c]: how many strings the Response has
  added,    \* added[c]: how many addIovec calls are done
  slot,     \* slot[c]: where push_back has put the entry
  base,     \* base[c]: message.msg_iov
  len,      \* len[c]: message.msg_iovlen
  message,  \* message[c]: the entries sendmsg found there
  wire,     \* replies the kernel has accepted and has still to read
  alone     \* history; alone[c]: no other thread was in serialize with c

vector == <<mem, size, block>>
locals == <<replies, reply, values, added, slot, base, len, message>>
vars == <<vector, broken, pc, locals, wire, alone>>

TypeOK ==
  /\ mem \in Seq(Entry)
  /\ size \in Nat /\ block \in Nat
  /\ broken \in BOOLEAN
  /\ pc \in [Conn -> {"idle", "clear", "add", "end", "grow", "size", "send", "sent"}]
  /\ replies \in 0..MaxReplies
  /\ reply \in [Conn -> 0..MaxReplies]
  /\ values \in [Conn -> 0..MaxValues]
  /\ added \in [Conn -> 0..MaxValues + 2]
  /\ slot \in [Conn -> Nat]
  /\ base \in [Conn -> 0..block]
  /\ len \in [Conn -> Nat]
  /\ message \in [Conn -> Seq(Entry)]
  /\ wire \subseteq [reply : 1..MaxReplies, entries : Seq(Entry)]
  /\ alone \in [Conn -> BOOLEAN]

Init ==
  /\ mem = <<>> /\ size = 0 /\ block = 0 /\ broken = FALSE
  /\ pc = [c \in Conn |-> "idle"]
  /\ replies = 0
  /\ reply = [c \in Conn |-> 0]
  /\ values = [c \in Conn |-> 0]
  /\ added = [c \in Conn |-> 0]
  /\ slot = [c \in Conn |-> 0]
  /\ base = [c \in Conn |-> 0]
  /\ len = [c \in Conn |-> 0]
  /\ message = [c \in Conn |-> <<>>]
  /\ wire = {}
  /\ alone = [c \in Conn |-> TRUE]

\* The entries that serialize adds for c: values, key, newline.
Parts(c) ==
  [i \in 1..values[c] + 2 |->
     IF i = values[c] + 2 THEN Newline
     ELSE [reply |-> reply[c], part |-> IF i = values[c] + 1 THEN 0 ELSE i]]

Entry1(c) == Parts(c)[added[c] + 1]

Goto(c, from, to) ==
  /\ ~broken
  /\ pc[c] = from
  /\ pc' = [pc EXCEPT ![c] = to]

\* c uses the vector, which breaks the heap if another thread is copying it.
Touch(c) == broken' = \E d \in Conn \ {c} : pc[d] = "grow"

-----------------------------------------------------------------------------
(* IOVecSerializer::serialize, in the thread of c *)

\* processCommand calls it with a Response of n strings.
Serialize(c, n) ==
  /\ replies < MaxReplies
  /\ Goto(c, "idle", "clear")
  /\ replies' = replies + 1
  /\ reply' = [reply EXCEPT ![c] = replies']
  /\ values' = [values EXCEPT ![c] = n]
  /\ alone' = [d \in Conn |-> IF d = c THEN \A e \in Conn \ {c} : pc[e] = "idle"
                              ELSE alone[d] /\ pc[d] = "idle"]
  /\ UNCHANGED <<vector, broken, added, slot, base, len, message, wire>>

\* Mutant of Clear: it is left out.
ClearSkipped(c) ==
  /\ Goto(c, "clear", "add")
  /\ UNCHANGED <<vector, broken, locals, wire, alone>>

\* iovecs.clear() keeps the memory.
Clear(c) ==
  /\ Goto(c, "clear", "add")
  /\ Touch(c)
  /\ size' = 0
  /\ UNCHANGED <<mem, block, locals, wire, alone>>

\* push_back with room to spare: the entry is stored at the end ...
Store(c) ==
  /\ added[c] < Len(Parts(c))
  /\ size # Len(mem)
  /\ Goto(c, "add", "end")
  /\ IF size < Len(mem)
     THEN mem' = [mem EXCEPT ![size + 1] = Entry1(c)] /\ Touch(c)
     ELSE UNCHANGED mem /\ broken' = TRUE
  /\ slot' = [slot EXCEPT ![c] = size + 1]
  /\ UNCHANGED <<size, block, replies, reply, values, added, base, len, message, wire, alone>>

\* ... and the end moves: from where it was, or from where it is now.
MoveEnd(c) ==
  /\ Goto(c, "end", "add")
  /\ Touch(c)
  /\ size' \in {slot[c], size + 1}
  /\ added' = [added EXCEPT ![c] = @ + 1]
  /\ slot' = [slot EXCEPT ![c] = 0]
  /\ UNCHANGED <<mem, block, replies, reply, values, base, len, message, wire, alone>>

\* push_back on a full vector: allocate and copy ...
StartGrowing(c) ==
  /\ added[c] < Len(Parts(c))
  /\ size = Len(mem)
  /\ Goto(c, "add", "grow")
  /\ Touch(c)
  /\ UNCHANGED <<vector, locals, wire, alone>>

\* Mutant of Grow: the next part is taken for added, too.
GrowSkips(c) ==
  /\ Goto(c, "grow", "add")
  /\ mem' = [i \in 1..(IF mem = <<>> THEN 1 ELSE 2 * Len(mem)) |->
               IF i <= Len(mem) THEN mem[i]
               ELSE IF i = Len(mem) + 1 THEN Entry1(c) ELSE Junk]
  /\ size' = Len(mem) + 1
  /\ block' = block + 1
  /\ added' = [added EXCEPT ![c] = @ + 2]
  /\ UNCHANGED <<broken, replies, reply, values, slot, base, len, message, wire, alone>>

\* ... and free the old block.
Grow(c) ==
  /\ Goto(c, "grow", "add")
  /\ mem' = [i \in 1..(IF mem = <<>> THEN 1 ELSE 2 * Len(mem)) |->
               IF i <= Len(mem) THEN mem[i]
               ELSE IF i = Len(mem) + 1 THEN Entry1(c) ELSE Junk]
  /\ size' = Len(mem) + 1
  /\ block' = block + 1
  /\ added' = [added EXCEPT ![c] = @ + 1]
  /\ UNCHANGED <<broken, replies, reply, values, slot, base, len, message, wire, alone>>

\* message.msg_iov = iovecs.data()
TakeData(c) ==
  /\ added[c] = Len(Parts(c))
  /\ Goto(c, "add", "size")
  /\ Touch(c)
  /\ base' = [base EXCEPT ![c] = block]
  /\ UNCHANGED <<vector, replies, reply, values, added, slot, len, message, wire, alone>>

\* message.msg_iovlen = iovecs.size()
TakeSize(c) ==
  /\ Goto(c, "size", "send")
  /\ Touch(c)
  /\ len' = [len EXCEPT ![c] = size]
  /\ UNCHANGED <<vector, replies, reply, values, added, slot, base, message, wire, alone>>

\* sendmsg reads the entries.  With MSG_ZEROCOPY it does not wait for the bytes,
\* and fails for lack of room (ENOBUFS), which serialize returns and nobody looks at.
SendMsg(c) ==
  /\ Goto(c, "send", "sent")
  /\ message' = [message EXCEPT ![c] =
       [i \in 1..len[c] |-> IF base[c] = block /\ i <= Len(mem) THEN mem[i] ELSE Junk]]
  /\ wire' = IF ZeroCopy /\ Cardinality(wire) < MaxWire
             THEN wire \cup {[reply |-> reply[c], entries |-> message'[c]]}
             ELSE wire
  /\ base' = [base EXCEPT ![c] = 0]
  /\ len' = [len EXCEPT ![c] = 0]
  /\ UNCHANGED <<vector, broken, replies, reply, values, added, slot, alone>>

\* serialize and processCommand return: the Response and the locals are gone.
Return(c) ==
  /\ Goto(c, "sent", "idle")
  /\ reply' = [reply EXCEPT ![c] = 0]
  /\ values' = [values EXCEPT ![c] = 0]
  /\ added' = [added EXCEPT ![c] = 0]
  /\ message' = [message EXCEPT ![c] = <<>>]
  /\ alone' = [alone EXCEPT ![c] = TRUE]
  /\ UNCHANGED <<vector, broken, replies, slot, base, len, wire>>

\* The kernel transmits a reply: it reads the memory of its entries.
Transmit ==
  /\ \E m \in wire : wire' = wire \ {m}
  /\ UNCHANGED <<vector, broken, pc, locals, alone>>

\* The threads wait for commands, or the heap is broken.
Idle ==
  /\ broken \/ \A c \in Conn : pc[c] = "idle"
  /\ UNCHANGED vars

Next ==
  \/ \E c \in Conn :
       \/ \E n \in 0..MaxValues : Serialize(c, n)
       \/ Clear(c) \/ Store(c) \/ MoveEnd(c) \/ StartGrowing(c) \/ Grow(c)
       \/ TakeData(c) \/ TakeSize(c) \/ SendMsg(c) \/ Return(c)
  \/ Transmit
  \/ Idle

Spec == Init /\ [][Next]_vars

-----------------------------------------------------------------------------
(* Properties *)

\* A thread that was alone in serialize sends its own reply, whole and in order,
\* whatever the vector went through before, as long as the heap is sound.
AloneSendsItsReply ==
  \A c \in Conn : pc[c] = "sent" /\ alone[c] => message[c] = Parts(c)

-----------------------------------------------------------------------------
(* What README.md says and the code does not do *)

\* README.md:7, "Concurrent access": every client is sent its own reply, whole and
\* in order, whoever else is served.
EachSendsItsReply == \A c \in Conn : pc[c] = "sent" => message[c] = Parts(c)
=============================================================================
