-------------------------- MODULE TimingSerializer --------------------------
(***************************************************************************)
(* TimingSerializer (src/TimingSerializer.cpp) around one of Serializers,  *)
(* over the life of the process (src/main.cpp): the CSV file and the log   *)
(* survive it, the buffer of the stream does not.  Each thread fills a     *)
(* message of its own, but from strings of the store, which it reads one   *)
(* by one through pointers while other threads may delete them: what a     *)
(* read gives is left open here (modules Server and ZeroCopy say how a     *)
(* string gets lost).  What the threads share besides is the stream of the *)
(* CSV file, and the Logger of a build with DEBUGMODE.                     *)
(*                                                                         *)
(* A row is one insertion here, of the name of the serializer and the      *)
(* size: where rows of two threads mix their columns in the program, one   *)
(* of them is lost or repeated as a whole.  The time in front and the      *)
(* duration behind are left out.  An insertion goes to the buffer in two   *)
(* moves: it is stored where the buffer ends, then the end moves.  flush() *)
(* writes the buffer out and then empties it.  There is no lock.           *)
(***************************************************************************)
EXTENDS Serializers

CONSTANTS
  Conn,        \* the connections, each with its thread
  MaxReplies,  \* bound: calls of serialize, all starts together
  MaxStarts,   \* bound: starts of the server, and of others beside it
  Header, Junk,\* the first line of the CSV file; memory that was never written
  MainLine     \* a line in the log that is not of a reply

ASSUME MaxRepliesAssumption == MaxReplies \in Nat
ASSUME MaxStartsAssumption == MaxStarts \in Nat

LogName == "mustore.log"

VARIABLES
  kind,      \* which serializer the executable was built with
  main,      \* where main() is
  starts,
  other,     \* what a second process, started while the port is taken, has done
  csv,       \* what is in the CSV file
  buffer,    \* the memory of the stream's buffer
  end,       \* how much of it is in use
  pc,        \* pc[c]: where the thread of c is
  replies,   \* calls of serialize
  failed,    \* those that sent nothing
  reply,     \* reply[c]: the number of the one in work, or 0
  found,     \* found[c]: the names in Response::fields of that reply
  record,    \* record[c]: the strings read so far, in the order of the names
  person,    \* person[c]: its message
  row,       \* row[c]: its row
  slot,      \* slot[c]: where the row was stored
  written,   \* written[c]: what the flush of c wrote
  alone,     \* history; alone[c]: no other thread was in logTiming with c
  strayed,   \* history: two threads were, or a second process wrote a header
  mutex, currentLevel, logFile, files, reads, at, line

L == INSTANCE Logger WITH Thread <- Conn, Text <- 1..MaxReplies,
                          File <- {LogName}

ASSUME MainLineAssumption == MainLine \notin L!Line

process == <<kind, main, starts, other>>
message == <<replies, failed, reply, found, record, person>>
stream  == <<row, slot, buffer, end, written>>
history == <<alone, strayed>>
logger  == <<mutex, currentLevel, logFile, files, reads, at, line>>
vars    == <<process, csv, pc, message, stream, history, logger>>

Row  == [reply : 1..MaxReplies, type : {"MuSer", ""}, size : {"size", "SIZE_MAX"}]
Cell == Row \cup {Header, Junk}

TypeOK ==
  /\ kind \in Kinds
  /\ main \in {"down", "open", "level", "bind", "up"}
  /\ starts \in 0..MaxStarts
  /\ other \subseteq {"started", "header", "logged"}
  /\ csv \in Seq(Cell) /\ buffer \in Seq(Cell) /\ end \in Nat
  /\ pc \in [Conn -> {"idle", "fill", "sent", "store", "move", "flush", "empty", "log"}]
  /\ replies \in 0..MaxReplies /\ failed \subseteq 1..replies
  /\ \A c \in Conn : pc[c] = "idle" <=> reply[c] = 0
  /\ reply \in [Conn -> 0..replies]
  /\ found \in [Conn -> SUBSET (Names \cup {Other})]
  /\ record \in [Conn -> Records]
  /\ kind = "MuSer" => person \in [Conn -> Person]
  /\ row \in [Conn -> Row \cup {Junk}]
  /\ slot \in [Conn -> Nat]
  /\ written \in [Conn -> Seq(Cell)]
  /\ alone \in [Conn -> BOOLEAN] /\ strayed \in BOOLEAN
  /\ L!TypeOK

\* No thread yet, or no more.
NoThreads ==
  /\ pc' = [c \in Conn |-> "idle"] /\ reply' = [c \in Conn |-> 0]
  /\ found' = [c \in Conn |-> {}] /\ record' = [c \in Conn |-> <<>>]
  /\ person' = [c \in Conn |-> Message(kind, Args(kind, <<>>))]
  /\ row' = [c \in Conn |-> Junk] /\ slot' = [c \in Conn |-> 0]
  /\ written' = [c \in Conn |-> <<>>] /\ alone' = [c \in Conn |-> TRUE]
  /\ UNCHANGED <<replies, failed>>

Init ==
  /\ kind \in Kinds /\ main = "down" /\ starts = 0 /\ other = {}
  /\ csv = <<>> /\ buffer = <<>> /\ end = 0
  /\ pc = [c \in Conn |-> "idle"] /\ reply = [c \in Conn |-> 0]
  /\ replies = 0 /\ failed = {}
  /\ found = [c \in Conn |-> {}] /\ record = [c \in Conn |-> <<>>]
  /\ person = [c \in Conn |-> Message(kind, Args(kind, <<>>))]
  /\ row = [c \in Conn |-> Junk] /\ slot = [c \in Conn |-> 0]
  /\ written = [c \in Conn |-> <<>>] /\ alone = [c \in Conn |-> TRUE]
  /\ strayed = FALSE
  /\ L!Init

-----------------------------------------------------------------------------
(* The process *)

\* Mutant of OpenCsv: the header is written at every start.
OpenCsvAnew == <<Header>>

\* The constructor: the file is open to append, and an empty one gets a header.
OpenCsv == IF csv = <<>> THEN <<Header>> ELSE <<>>

\* The initialisation of Protocol::serializer, before main().
Start ==
  /\ main = "down" /\ starts < MaxStarts
  /\ main' = "open" /\ starts' = starts + 1
  /\ buffer' = OpenCsv /\ end' = Len(buffer')
  /\ NoThreads /\ L!Fresh
  /\ UNCHANGED <<kind, other, csv, strayed>>

OpenLog ==
  /\ main = "open" /\ main' = "level"
  /\ L!SetLogFile(LogName)
  /\ UNCHANGED <<kind, starts, other, csv, pc, message, stream, history>>

SetLevel ==
  /\ main = "level" /\ main' = "bind"
  /\ L!SetLogLevel(L!DEBUG)
  /\ UNCHANGED <<kind, starts, other, csv, pc, message, stream, history>>

\* One line of main() stands for all: "Server started ..." here,
Bind ==
  /\ main = "bind" /\ main' = "up"
  /\ L!LogMain(LogName)
  /\ UNCHANGED <<kind, starts, other, csv, pc, message, stream, history>>

\* and "Failed to bind ..." where start() and main() return and the stream is closed.
BindFails ==
  /\ main = "bind" /\ main' = "down"
  /\ L!LogMain(LogName)
  /\ csv' = csv \o SubSeq(buffer, 1, end)
  /\ buffer' = <<>> /\ end' = 0
  /\ UNCHANGED <<kind, starts, other, pc, message, row, slot, written, history>>

\* A signal ends the process, SIGPIPE among them, and no destructor runs.
Die ==
  /\ main # "down" /\ main' = "down"
  /\ buffer' = <<>> /\ end' = 0
  /\ NoThreads /\ L!Fresh
  /\ UNCHANGED <<kind, starts, other, csv, strayed>>

\* The same program is started once more, with a buffer and a Logger of its own.  It
\* cannot bind, says so in the same log, and its end writes out its buffer.
OtherStarts ==
  /\ main = "up" /\ other = {} /\ starts < MaxStarts
  /\ starts' = starts + 1
  /\ other' = {"started"} \cup (IF OpenCsv = <<>> THEN {} ELSE {"header"})
  /\ UNCHANGED <<kind, main, csv, pc, message, stream, history, logger>>

OtherLogs ==
  /\ "started" \in other /\ "logged" \notin other
  /\ other' = other \cup {"logged"}
  /\ L!LogMain(LogName)
  /\ UNCHANGED <<kind, main, starts, csv, pc, message, stream, history>>

OtherEnds ==
  /\ "logged" \in other /\ other' = {}
  /\ csv' = IF "header" \in other THEN Append(csv, Header) ELSE csv
  /\ strayed' = (strayed \/ "header" \in other)
  /\ UNCHANGED <<kind, main, starts, pc, message, stream, alone, logger>>

-----------------------------------------------------------------------------
(* serialize *)

Goto(c, from, to) ==
  /\ main = "up" /\ pc[c] = from
  /\ pc' = [pc EXCEPT ![c] = to]
  /\ UNCHANGED <<process, replies>>

\* processCommand calls serialize with a Response that has these fields.
Call(c, names) ==
  /\ main = "up" /\ pc[c] = "idle" /\ at[c] = "out" /\ replies < MaxReplies
  /\ pc' = [pc EXCEPT ![c] = "fill"]
  /\ replies' = replies + 1
  /\ reply' = [reply EXCEPT ![c] = replies']
  /\ found' = [found EXCEPT ![c] = names]
  /\ UNCHANGED <<process, csv, failed, record, person, stream, history, logger>>

\* The next field that the message has a place for, if the record has any field.
NextName(c) == Len(record[c]) + 1

Complete(c) == found[c] = {} \/ NextName(c) \notin Names

\* Its string is read through the store's pointer, without the store's mutex: the one
\* that the lookup found, or where that was deleted any other.
ReadField(c, n) ==
  /\ Goto(c, "fill", "fill")
  /\ ~Complete(c) /\ NextName(c) \in found[c]
  /\ record' = [record EXCEPT ![c] = Append(@, n)]
  /\ UNCHANGED <<csv, failed, reply, found, person, stream, history, logger>>

\* A read of a deleted string, or at() for a name that is not there, ends the process
\* with all its threads: nobody handles the signal, or catches the exception.
ReadFails(c) ==
  /\ main = "up" /\ pc[c] = "fill"
  /\ ~Complete(c)
  /\ Die

\* The message is made of what was read, and sent, which may fail.
Serialize(c) ==
  /\ Goto(c, "fill", "sent")
  /\ Complete(c)
  /\ failed' \in {failed, failed \cup {reply[c]}}
  /\ person' = [person EXCEPT ![c] = Message(kind, Args(kind, record[c]))]
  /\ UNCHANGED <<csv, reply, found, record, stream, history, logger>>

\* The switch: of the six builds, Protobuf and FlatBuffers have no case.
SerializerType == IF kind = "MuSer" THEN "MuSer" ELSE ""

\* The parameter dataSize is a size_t.
DataSize(result) == IF result = "-1" THEN "SIZE_MAX" ELSE result

\* The serializer inside has returned; the message is gone with it, and the
\* record counts no more.
LogTiming(c) ==
  /\ Goto(c, "sent", "store")
  /\ row' = [row EXCEPT ![c] =
       [reply |-> reply[c], type |-> SerializerType,
        size |-> DataSize(Result(kind, reply[c] \notin failed))]]
  /\ found' = [found EXCEPT ![c] = {}] /\ record' = [record EXCEPT ![c] = <<>>]
  /\ person' = [person EXCEPT ![c] = Message(kind, Args(kind, <<>>))]
  /\ LET in == {d \in Conn \ {c} : pc[d] \in {"store", "move", "flush", "empty"}} IN
     /\ alone' = [d \in Conn |-> IF d = c THEN in = {} ELSE alone[d] /\ d \notin in]
     /\ strayed' = (strayed \/ in # {})
  /\ UNCHANGED <<csv, failed, reply, slot, buffer, end, written, logger>>

\* csvFile << ... : the characters of the row ...
Store(c) ==
  /\ Goto(c, "store", "move")
  /\ slot' = [slot EXCEPT ![c] = end + 1]
  /\ buffer' = [i \in 1..Max({Len(buffer), end + 1}) |->
                  IF i = end + 1 THEN row[c]
                  ELSE IF i <= Len(buffer) THEN buffer[i] ELSE Junk]
  /\ UNCHANGED <<csv, failed, reply, found, record, person, row, end, written, history, logger>>

\* ... and the end, moved from where it was or from where it is now.
Move(c) ==
  /\ Goto(c, "move", "flush")
  /\ end' \in {slot[c], end + 1}
  /\ slot' = [slot EXCEPT ![c] = 0]
  /\ UNCHANGED <<csv, failed, reply, found, record, person, row, buffer, written, history, logger>>

\* Mutant of Flush: it is left to the buffer.
FlushNot(c) ==
  /\ Goto(c, "flush", "empty")
  /\ UNCHANGED <<csv, failed, reply, found, record, person, stream, history, logger>>

\* csvFile.flush(): the buffer is written ...
Flush(c) ==
  /\ Goto(c, "flush", "empty")
  /\ written' = [written EXCEPT ![c] =
                   [i \in 1..end |-> IF i <= Len(buffer) THEN buffer[i] ELSE Junk]]
  /\ csv' = csv \o written'[c]
  /\ UNCHANGED <<failed, reply, found, record, person, row, slot, buffer, end, history, logger>>

\* Mutant of Empty: what was written stays in the buffer.
EmptyNot(c) ==
  /\ Goto(c, "empty", "log")
  /\ row' = [row EXCEPT ![c] = Junk]
  /\ written' = [written EXCEPT ![c] = <<>>]
  /\ UNCHANGED <<csv, failed, reply, found, record, person, slot, buffer, end, history, logger>>

\* ... and empty again.
Empty(c) ==
  /\ Goto(c, "empty", "log")
  /\ end' = 0
  /\ row' = [row EXCEPT ![c] = Junk]
  /\ written' = [written EXCEPT ![c] = <<>>]
  /\ UNCHANGED <<csv, failed, reply, found, record, person, slot, buffer, history, logger>>

\* processCommand: LOG_INFO("Sent response to client ...")
LogSent(c) ==
  /\ Goto(c, "log", "idle")
  /\ L!Log(c, L!INFO, reply[c])
  /\ reply' = [reply EXCEPT ![c] = 0]
  /\ UNCHANGED <<csv, failed, found, record, person, stream, history>>

LoggerStep ==
  /\ \E c \in Conn : L!Lock(c) \/ L!Write(c)
  /\ UNCHANGED <<process, csv, pc, message, stream, history>>

Next ==
  \/ Start \/ OpenLog \/ SetLevel \/ Bind \/ BindFails \/ Die
  \/ OtherStarts \/ OtherLogs \/ OtherEnds
  \/ \E c \in Conn :
       \/ \E names \in SUBSET (Names \cup {Other}) : Call(c, names)
       \/ \E n \in Lens : ReadField(c, n)
       \/ ReadFails(c) \/ Serialize(c)
       \/ LogTiming(c) \/ Store(c) \/ Move(c) \/ Flush(c) \/ Empty(c) \/ LogSent(c)
  \/ LoggerStep

Spec == Init /\ [][Next]_vars

-----------------------------------------------------------------------------
(* Properties *)

\* What a class counts before it writes is what it writes.  Of MuSer: the copy
\* stays inside the buffer it allocates and sends no byte it did not fill, the
\* other two ways fill every entry of their array and none beyond.  Of Protobuf:
\* ByteSizeLong, which serialize returns and the CSV file gets, is the size.
FitsExactly ==
  \A c \in Conn :
    LET p == person[c] IN
    CASE kind = "MuSer"       -> Offset(p) = BufSize(p) /\ Len(Parts(p)) = IOVLen(p)
      [] kind = "PROTOBUF"    -> PB!Written(PB!InternalSerialize(p)) = PB!ByteSizeLong(p)
      [] kind = "FlatBuffers" -> TRUE

\* At each member a client finds a string as long as the one that the read of that
\* very field gave, each as long as it happens to be by then, or nothing if there
\* are no fields; and the key behind them.  MuSer's lengths stand in front of their
\* own bytes; which bytes, when the setter got a temporary, is not said here.
MembersAsRead ==
  \A c \in Conn : pc[c] = "sent" =>
    LET p == person[c] IN
    /\ kind = "MuSer" => p.bitmap = Ids /\ Readable(p, Parts(p))
    /\ \A id \in Names :
         Received(kind, p, id) = IF found[c] # {} THEN record[c][id] ELSE 0
    /\ Received(kind, p, N) \in {KeyLen - 1, KeyLen}

\* A thread that was alone in logTiming writes its row, and the header if it is
\* the first, whatever a race did to the buffer before.
LoneRowsWhole ==
  \A c \in Conn : pc[c] = "empty" /\ alone[c] =>
    written[c] \in {<<row[c]>>, <<Header, row[c]>>}

\* Over all starts and deaths, the CSV file is a header and one row each for some
\* of the replies, unless two threads were in logTiming or a second process
\* wrote a header; a row tells a reply that was not sent, except Protobuf's.
FileIsHeaderAndRows ==
  ~strayed /\ csv # <<>> =>
    /\ csv[1] = Header
    /\ \A i \in 2..Len(csv) :
         /\ csv[i] \in Row
         /\ csv[i].size = "SIZE_MAX" <=> csv[i].reply \in failed /\ kind # "PROTOBUF"
         /\ \A j \in 2..i - 1 : csv[i].reply # csv[j].reply

\* A reply is in the log only after its row is in the CSV file: of the two files
\* that a death leaves, the log is behind.
LoggedAfterRow ==
  ~strayed => \A i \in 1..Len(files[LogName]) : files[LogName][i] # MainLine =>
                \E j \in 2..Len(csv) : csv[j].reply = files[LogName][i].text

\* The lines of the replies are in the log in the order in which their threads read
\* the clock, whatever main() or another process writes between them.
LinesInReadOrder == L!LinesInReadOrder
=============================================================================
