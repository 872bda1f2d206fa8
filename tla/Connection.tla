---------------------------- MODULE Connection -----------------------------
(***************************************************************************)
(* One connection, byte by byte: how the read loop of handleClient         *)
(* (src/Server.cpp) cuts the stream of a client into commands.  The        *)
(* protocol has no delimiter and no length: a command ends with the first  *)
(* read() that does not fill the buffer.  Only positions in the stream     *)
(* matter, so a byte is its position and a command is an interval.         *)
(*                                                                         *)
(* What processCommand makes of a command is in module Server.             *)
(***************************************************************************)
EXTENDS Integers, Sequences

CONSTANTS
  BUF,         \* sizeof(buffer), 1024 in the code
  Lengths,     \* the lengths of the messages a client sends
  MaxMessages  \* bound: messages on the connection

ASSUME BUFAssumption == BUF \in Nat \ {0}
ASSUME LengthsAssumption == Lengths \subseteq Nat \ {0}
ASSUME MaxMessagesAssumption == MaxMessages \in Nat

VARIABLES
  ends,      \* ends[i]: the stream position after the client's i-th message
  arrived,   \* bytes that have reached the server's socket
  consumed,  \* bytes that read() has returned
  start,     \* where `data` starts: data is the interval start..consumed
  frames,    \* the commands given to processCommand, in order
  pc,        \* where the thread is; "process": in processCommand
  peer,      \* what the socket knows of the client, as in module Server
  polite     \* history: so far the client sent each message after the reply to
             \* the one before, and every message arrived in one piece

vars == <<ends, arrived, consumed, start, frames, pc, peer, polite>>

End(i) == IF i = 0 THEN 0 ELSE ends[i]
Sent   == End(Len(ends))

Least(a, b) == IF a < b THEN a ELSE b

TypeOK ==
  /\ ends \in Seq(Nat)
  /\ Len(ends) <= MaxMessages
  /\ arrived \in 0..Sent
  /\ consumed \in 0..arrived
  /\ start \in 0..consumed
  /\ frames \in Seq([from : Nat, to : Nat])
  /\ pc \in {"read", "process", "closed"}
  /\ peer \in {"open", "closed", "reset", "broken"}
  /\ polite \in BOOLEAN

Init ==
  /\ ends = <<>>
  /\ arrived = 0
  /\ consumed = 0
  /\ start = 0
  /\ frames = <<>>
  /\ pc = "read"
  /\ peer = "open"
  /\ polite = TRUE

-----------------------------------------------------------------------------
(* The client and the network *)

Write(n) ==
  /\ peer = "open"
  /\ Len(ends) < MaxMessages
  /\ ends' = Append(ends, Sent + n)
  /\ polite' = (polite /\ Len(frames) = Len(ends) /\ pc = "read")
  /\ UNCHANGED <<arrived, consumed, start, frames, pc, peer>>

\* TCP delivers the next n bytes, wherever they were cut.
Deliver(n) ==
  /\ peer \in {"open", "closed"}
  /\ n \in 1..Sent - arrived
  /\ arrived' = arrived + n
  /\ polite' = (polite /\ arrived' \in {ends[i] : i \in 1..Len(ends)})
  /\ UNCHANGED <<ends, consumed, start, frames, pc, peer>>

\* A FIN follows the last byte sent, a RST overtakes what is still on its way.
Hangup ==
  /\ \/ peer = "open" /\ peer' = "closed"
     \/ peer \in {"open", "closed"} /\ peer' = "reset"
  /\ UNCHANGED <<ends, arrived, consumed, start, frames, pc, polite>>

-----------------------------------------------------------------------------
(* handleClient *)

\* Mutant of Read: the whole buffer is appended, whatever was read.
ReadWholeBuffer ==
  /\ pc = "read"
  /\ arrived > consumed
  /\ consumed' = consumed + BUF
  /\ pc' = IF arrived - consumed < BUF THEN "process" ELSE "read"
  /\ UNCHANGED <<ends, arrived, start, frames, peer, polite>>

\* Mutant of Read: a read of one byte less than the buffer counts as a full one.
ReadOffByOne ==
  LET n == Least(BUF, arrived - consumed) IN
  /\ pc = "read"
  /\ n > 0
  /\ consumed' = consumed + n
  /\ pc' = IF n < BUF - 1 THEN "process" ELSE "read"
  /\ UNCHANGED <<ends, arrived, start, frames, peer, polite>>

\* Mutant of Read: a short read does not end the command.
ReadGoesOn ==
  /\ pc = "read"
  /\ arrived > consumed
  /\ consumed' = Least(BUF + consumed, arrived)
  /\ UNCHANGED <<ends, arrived, start, frames, pc, peer, polite>>

\* Mutant of Read: a full buffer ends the command too.
ReadEndsAtFull ==
  LET n == Least(BUF, arrived - consumed) IN
  /\ pc = "read"
  /\ n > 0
  /\ consumed' = consumed + n
  /\ pc' = "process"
  /\ UNCHANGED <<ends, arrived, start, frames, peer, polite>>

\* read() returns what has arrived, up to a full buffer, and data.append adds
\* it; less than a full buffer ends the command.
Read ==
  LET n == Least(BUF, arrived - consumed) IN
  /\ pc = "read"
  /\ n > 0
  /\ consumed' = consumed + n
  /\ pc' = IF n < BUF THEN "process" ELSE "read"
  /\ UNCHANGED <<ends, arrived, start, frames, peer, polite>>

\* read() fails: the inner loop breaks with the data it has.
ReadError ==
  /\ pc = "read"
  /\ arrived = consumed
  /\ peer = "reset"
  /\ peer' = "broken"
  /\ pc' = "process"
  /\ UNCHANGED <<ends, arrived, consumed, start, frames, polite>>

\* read() returns 0: goto end, whatever data holds.
ReadEnd ==
  /\ pc = "read"
  /\ arrived = consumed
  /\ peer = "broken" \/ (peer = "closed" /\ arrived = Sent)
  /\ pc' = "closed"
  /\ UNCHANGED <<ends, arrived, consumed, start, frames, peer, polite>>

\* Mutant of Process: data is not emptied between commands.
ProcessKeepsData ==
  /\ pc = "process"
  /\ frames' = Append(frames, [from |-> start, to |-> consumed])
  /\ pc' = "read"
  /\ UNCHANGED <<ends, arrived, consumed, start, peer, polite>>

\* processCommand(data) replies, and the next command starts with empty data.
Process ==
  /\ pc = "process"
  /\ frames' = Append(frames, [from |-> start, to |-> consumed])
  /\ start' = consumed
  /\ pc' = "read"
  /\ UNCHANGED <<ends, arrived, consumed, peer, polite>>

-----------------------------------------------------------------------------
\* The connection ended, or the client waits for a reply that never comes.
Idle ==
  /\ pc = "closed"
  /\ UNCHANGED vars

Handle == Read \/ ReadError \/ ReadEnd \/ Process

Next ==
  \/ \E n \in Lengths : Write(n)
  \/ \E n \in 1..Sent - arrived : Deliver(n)
  \/ Hangup
  \/ Handle
  \/ Idle

\* The server's thread runs, and TCP delivers what was sent; a client need not
\* send, nor hang up.
Fairness ==
  /\ WF_vars(Handle)
  /\ WF_vars(\E n \in 1..Sent - arrived : Deliver(n))

Spec == Init /\ [][Next]_vars /\ Fairness

-----------------------------------------------------------------------------
(* Properties *)

Size(i) == frames[i].to - frames[i].from

\* The commands tile what was read: no byte is in two commands, none is skipped
\* between two, and the bytes of `data` come right after the last command.
FramesTile ==
  /\ start = IF frames = <<>> THEN 0 ELSE frames[Len(frames)].to
  /\ \A i \in 1..Len(frames) :
       frames[i].from = IF i = 1 THEN 0 ELSE frames[i - 1].to

\* A thread that waits in read() holds whole buffers only, so those are all that
\* is thrown away when the client closes: never the short tail of a command.
WaitsOnWholeBlocks == pc # "process" => (consumed - start) % BUF = 0

\* A command that is empty or made of whole buffers comes from a failed read, so
\* it is the last one of its connection.
BlockFrameIsLast ==
  \A i \in 1..Len(frames) :
    Size(i) % BUF = 0 => i = Len(frames) /\ peer = "broken"

\* A message that fills buffers exactly.
ExactMultiple == \E i \in 1..Len(ends) : (ends[i] - End(i - 1)) % BUF = 0

\* A polite client that sends no message of whole buffers gets a reply to each.
PoliteAnswered ==
  \A i \in 1..MaxMessages :
    Len(ends) >= i ~> \/ Len(frames) >= i
                      \/ ~polite \/ ExactMultiple \/ peer # "open"

-----------------------------------------------------------------------------
(* What README.md says and the code does not do *)

\* README.md:33-61 has a response to each command.  Here: to each command of a
\* client that sends one at a time, that TCP delivers in one piece.
EachMessageAnswered ==
  \A i \in 1..MaxMessages :
    Len(ends) >= i ~> Len(frames) >= i \/ ~polite \/ peer # "open"
=============================================================================
