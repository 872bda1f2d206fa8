# muStore in TLA+

muStore (`src/`) is a nested key-value store behind a TCP socket: a key has a
record, a record has fields, and a client sends `SET_FIELDS`, `GETALL` and
`GET_FIELDS` as text. This directory models it in TLA+, checks the models with
TLC on small instances and proves what matters most with TLAPS.

Paths below are relative to the repository (`src/src/Server.cpp` is the file
`src/Server.cpp` of muStore).

## The system

| Part | State | Operations | Interaction |
|---|---|---|---|
| `Server` (`Server.cpp`, `main.cpp`) | the listening socket, the `KVStore` | `start`, `handleClient`, `processCommand` | `start` accepts in the main thread and detaches one thread per connection; each thread runs the read loop and `processCommand`, which calls the store and then the serializer. Nothing joins a thread; a signal or an uncaught exception ends them all. |
| `KVStore` (`KVstore.cpp`) | `std::unordered_map<string, Value>`, one `std::mutex` | `insert`, `setField`, `getField`, `removeField`, `remove`, `setFields`, `getFields`, `getSelectedFields` | Every method locks the mutex for its whole body. The getters return pointers into the store. |
| `Value` (`Value.cpp`) | field name -> `std::string*` | the same on one record | `setField` deletes the old string and allocates a new one. No destructor. |
| `Protocol` (`Protocol.cpp`) | the static serializer | `deserialize`, `serializeAndSend`, `createSocket` | The executable decides which serializer at compile time. |
| `TwoCopySerializer` | none | `serialize` | Follows the pointers of the `Response`, with no lock, into an `ostringstream`, then `send`. |
| `IOVecSerializer` (one copy, zero copy) | the vector `iovecs` | `serialize` | One object for all threads; fills `iovecs` and calls `sendmsg`, with `MSG_ZEROCOPY` in the zero-copy build. |
| `MuSer`, `Protobuf`, `FlatBuffers` | none | `serialize` | Need ten fixed field names; `at()` throws otherwise. |
| `TimingSerializer` | a CSV file | `serialize`, `logTiming` | Wraps the others; all threads write rows to the file. |
| `Person` (`include/Person.hpp`) | a message of eleven strings | setters, getters, three wire paths | Generated by the uSer compiler, used by `MuSer`. |
| `Logger` | a file, a level, a mutex | `log`, `setLogFile`, `setLogLevel` | Compiled out unless `DEBUGMODE` is defined. |

What is hard here is concurrency (threads that share the store, the serializer
and the CSV file, with pointers that outlive the lock), the byte stream (no
delimiter and no length ends a command), and failures (resets, `SIGPIPE`,
exceptions that nobody catches). `PROJECT.json` lists each hazard at its line.
There is no replication and no timeout, and the store is not persistent; what
survives the process is the CSV file and the log.

## The modules

| Module | Models | Written about |
|---|---|---|
| `NestedMap` | what the store promises: a map of maps, every operation atomic | `KVstore.cpp` |
| `KVStore`, `MCKVStore` | the store with its heap, its pointers and its mutex; implements `NestedMap` | `KVstore.cpp`, `Value.cpp` |
| `KVStoreProofs` | proofs about `KVStore` | |
| `Server`, `MCServer` | accept loop, connection threads, `processCommand`, the two-copy reply; composes `KVStore` | `Server.cpp`, `TwoCopySerializer.cpp` |
| `ZeroCopy`, `MCZeroCopy` | the server in its two-copy, one-copy and zero-copy builds; extends `Server` | `IOVecSerializer.cpp` |
| `ServerProofs` | proofs about `Server` and, in its three builds, `ZeroCopy`; uses `KVStoreProofs` | |
| `Connection` | how the read loop cuts a byte stream into commands | `Server.cpp` |
| `Session`, `MCSession` | a connection with its text: composes `Connection` and `Protocol` | `Server.cpp`, `Protocol.cpp` |
| `SessionProofs` | proofs about `Connection` and `Session`; uses `ProtocolProofs` | |
| `Protocol`, `MCProtocol` | the parser, word by word | `Protocol.cpp` |
| `ProtocolProofs` | proofs about `Protocol` | |
| `IOVec`, `MCIOVec` | the shared vector of `IOVecSerializer`, and zero-copy sends | `IOVecSerializer.cpp` |
| `IOVecProofs` | proofs about `IOVec` | |
| `Person` | the uSer message class: setters, sizes, what goes on the wire | `include/Person.hpp` |
| `ProtobufPerson` | the protobuf message: setters, size, writer, parse table | `include/final.pb.cc`, `final.pb.h` |
| `FlatPerson` | the FlatBuffers table: vtable, builder, accessors | `include/final_generated.h` |
| `Serializers` | the three serializers with a fixed message, as operators; uses the three above | `muSer.cpp`, `ext-serializers/` |
| `Logger` | level, mutex and file of the log | `Logger.cpp` |
| `LoggerProofs` | proofs about `Logger` | |
| `TimingSerializer`, `MCTimingSerializer` | the life of the process: starts, deaths, the CSV file and the log; composes `Serializers` and `Logger` | `TimingSerializer.cpp`, `main.cpp` |
| `TimingSerializerProofs` | proofs about `TimingSerializer` and `Serializers`; uses `LoggerProofs` | |
| `SequenceLemmas` | lemmas about the community modules' folds, `FlattenSeq` and `Max`, for the proofs | |

An `MC` module only gives the constants their values and the symmetry. A
definition whose comment begins "Mutant of" is a plausible bug; `PROJECT.json`
says which property must catch it.

### KVStore

`present` is the key set of `KVStore::store`, `fields[k][f]` the pointer in
`Value::fields`, `heap[a]` the string alive at an address. The allocator returns
any free address, at once the one just deleted if it likes, and never fails.
Each method is an action. A method that holds the mutex from start to end, and
whose intermediate states nobody can see, is one step. `setFields` is not such a
method, because threads follow pointers into the heap without the mutex: it
takes the mutex in `BeginSetFields` and writes a field per `SetNextField`, in
any order, as an `unordered_map` does. `setField`, `removeField` and `remove`
are methods the server never calls; they are part of the class and of this
module.

The refinement mapping to `NestedMap` counts what a running `setFields` has
still to write as written, so the call takes effect when it gets the mutex.

### Server

`main` is the main thread in `Server::start`; `pc[c]` is where the thread of
connection `c` is in `handleClient` and `processCommand`. `req`, `resp`, `got`
and `out` are its locals: the `Request`, the type and key of the `Response`, the
pointers in `Response::fields` and the strings copied from them. A thread takes
one step per access to something shared: `insert` and `setFields` are two holds
of the mutex and therefore two steps; the lookup is one; then each string is
read in a step of its own, with no lock. A string that was deleted reads as
whatever is at its address now, `Garbage`, or a fault that ends the process. A
string is read in one step: a delete in the middle of the copy is the same
outcome as one before it. What ends the process puts its thread in `main`.

The client can hang up or reset at any time. `Receive` may return a command that
was queued before. A `send` on a reset socket raises `SIGPIPE`, which ends the
process (`BrokenPipe`). `log`, `lo`, `at` and `seen` are history variables and
no guard reads them.

### ZeroCopy

The same server, with the way of a reply from the store to the socket as one of
three (`method`). `Gather` is `addIovec` on a string of the record: `c_str()` of
a pointer that may dangle, hence `Garbage` or a fault. With one copy `sendmsg`
reads the characters at the entries, string by string; with zero copy it puts
the entries in `wire[c]` (or fails for lack of room, which nobody looks at), and
they are read at `Transmit`, whenever the kernel gets there. The characters of a
string live and die with it. Each thread has entries of its own here, so that
what goes wrong is the fault of the store's pointers and not of the vector;
`IOVec` is about the vector.

### Connection

A byte is its position in the stream. `Deliver` hands over any number of bytes,
which is what TCP segmentation allows. `Read` returns what has arrived up to a
full buffer; the inner loop of `handleClient` goes on exactly after a full one.
`Server` takes a `read` to return one whole command: `PoliteExecuted` of
`Session` says when that is so.

### Session

`Connection` with the bytes filled in: `stream` is what the client wrote, as
characters or as pieces of words that no cut divides (`SET_`, `FIELDS`), and a
command is what the loop cuts out of it. `BeginProcess` turns the bytes into
words (`Runs` is what `operator>>` finds: a word ends before a blank or at the
end; `WordOf` is what `find('=')` and the quotes make of it), the actions of
`Protocol` parse them, one word a step, and `EndProcess` is the rest of
`processCommand` and of the loop. `executed` is a history of the commands that
were not `INVALID`, with the bytes they came from.
A message is a record of type, key and arguments, whose names and values are made
of `Letter`: any piece but a blank, a `=` and a quote. The client writes it word
by word (`Written`), with a `=` and perhaps quotes in the words of a `SET_FIELDS`,
and `Text` puts a blank behind each word and a newline behind the last. `Join` is
what pieces spell; it leaves quotes out, since a word keeps only whether one stands
at either end of its value.
This is where a command cut by TCP, or two pipelined commands read as one, get
their meaning.

### Protocol

The text of a command is a sequence of words, since `operator>>` never sees
anything else. Of a word it keeps whether there is a `=`, and whether what
follows starts and ends with a quote. `front()` and `back()` of an empty value
are taken to be no quote: `front()` reads the terminating zero, and `back()` is
then not called. The client is in the module too (`Write`): it writes what it
means as `README.md` of muStore shows.

### IOVec

`iovecs` is the memory it has, its size and which block that is. `push_back` is
the store of the entry and the move of the end, or, on a full vector, the
allocation of a new block and the release of the old one. That is a data race
when two threads do it, so the behaviour is undefined; the outcomes the model
has are: an entry overwritten by another, the end moved once or twice for two
entries, an end beyond what was written, a vector used while it is copied, a
write past the block (the last two break the heap, and there the model stops),
and `sendmsg` reading a block that was freed. `MSG_ZEROCOPY` leaves the reply in
`wire` until the kernel transmits it, or fails for lack of room, which nobody
looks at; `SO_ZEROCOPY` is set on the listening socket (`Protocol.cpp:123`) and
inherited. `Return` is the end of `serialize`
and of `processCommand`, when the `Response` and its key are destroyed.

### Person, ProtobufPerson, FlatPerson and Serializers

Each generated class is a value and operators on it, with `N` members, the last
for the key. `Person` is the set of present ids and the length of each value,
and what `serializeAndWriteCOPY`, `SG` and `ZC` send: all three loop over
`values_` alike, and the sizes they allocate come from loops of their own. `SG`,
which nothing calls, also asserts that a message has `BUFFER_SIZE` bytes
(`Person.hpp:739`); that is left out. A
reader takes the members in the order of their bits (`Readable`). The
branches for numbers and lists are left out: the class has no setter for them.
The bytes are left out as well: `MuSer` gives each setter a temporary
(`muSer.cpp:29-39`), and what the class of the absent uSer submodule keeps is its
length and a pointer to it. `ProtobufPerson` has the setters,
`ByteSizeLong`, `InternalSerialize` and the parse table as a client would use
it; there are no has-bits, and an empty string is not written. A length takes
one byte below 128 and another from each power of 128 on, and the run has 128;
`ByteSizeLong` counts one byte for a tag, which is right up to number 15
(`TagAssumption`; the program has 11). `FlatPerson` has the vtable offsets, `AddOffset`, `CreatePerson` and the
accessors.

`Serializers` calls them with whatever was read of a record, or with ten empty
strings if it has no fields. Of every string the length is kept.

### TimingSerializer and Logger

The process from start to death, several times over. `Start` is the
initialisation of `Protocol::serializer`, before `main()`: the CSV file is opened
to append, and the header goes to the buffer of the stream if the file is empty.
`OpenLog`, `SetLevel` and `Bind` are the steps of `main()`; `BindFails` returns
from it, which closes the stream and writes the buffer; `Die` is a signal and
loses it. `OtherStarts` is the same program started once more while the port is
taken: it has a buffer of its own and writes it when it ends, and before that it
logs to the same file (`OtherLogs`), under the mutex of a `Logger` of its own.

`serialize` is called with the pointers of a lookup (`Call`), and follows them one
by one without the mutex of the store, while other threads may delete the strings.
So each string is read in a step of its own (`ReadField`), which gives any length:
how strings come to be replaced is the matter of `Server` and `ZeroCopy`. A read of
a deleted string may end the process, and so does `at()` for a name that the record
lacks (`ReadFails`). `Serialize` makes the message of what was read, and sends it.
`LogTiming` makes the row, with `-1` as a `size_t` and the empty type of the two
builds the switch has no case for. `Store`, `Move`, `Flush` and `Empty` are what
an unlocked `ofstream` does with it: the insertion is a store and a move of the
end, `flush` writes the buffer and then empties it. A row is one insertion,
where the program has eight: the columns of rows that mix are lost or repeated
together. Then the thread logs (`LogSent`), with the actions of `Logger`, whose
mutex does what the CSV file lacks. Of the `LOG` calls in a thread this is the
one modelled, and one line stands for those of `main` (`LogMain`); a build without
`DEBUGMODE` has none.

`Logger` keeps nothing of what the clock says: it is the system's, printed in local
time, and can be set back. `reads` counts how often the threads read it, and a line
has the number of its reading, which is taken under the mutex.

## The runs

All take less than three minutes with two workers. The type invariant of `Server`
is checked as a part of `ReplyTypeOK`.

| Run | Bounds | Shows |
|---|---|---|
| `kvstore` | 2 keys, 2 fields, 2 values, 5 addresses, 2 threads, 1 leaked string | `NoDanglingField`, `NoSharedString`, `NoOrphanField`: pointers and heap agree. `LeakOnlyByRemove`: only `remove` loses strings. `ImplementsNestedMap`. |
| `server` | 2 connections, 2 commands each, out of 5 that collide on 2 keys; 3 addresses | `ExitCauses`: a thread ends the process only in its own reply, to a client that is gone or with a field still to copy that was overwritten. `Linearizable`, `StaleOnlyByOverwrite`, `SetAlwaysAccepted`, `NoLeak`, `RecordsGrow`, `WriterHoldsMutex` |
| `server_live` | 2 connections, one command each, on one key of 2 fields, 3 addresses; with an empty `SET_FIELDS`, a repeated name and an unknown command | `Answered`: no command is left waiting. `HungUpEnds`: no thread outlives its client. |
| `zero_copy` | 2 connections, 2 commands each on one field, 2 values, 2 addresses, room for 1 reply in the kernel | `SpoiledByOthers`: before it is sent, a reply is spoiled by other connections only. `WireSpoiledByOverwrite`: on the wire, only where the field was overwritten, by the client itself, too. |
| `session` | a buffer of 4 pieces; 2 messages out of a `SET_FIELDS` of 2 fields, one quoted, a `GETALL`, and a `GET_FIELDS` of two whole buffers; 2 deliveries that cut | `FramesTile`: no byte lost or repeated. `WaitsOnWholeBlocks`, `BlockFrameIsLast`: what can be cut off, and when. `PoliteExecuted`, `PoliteAnswered`: each message of a client that waits for its reply is executed once, as it was meant, and answered, if it is not of whole buffers. `HeadsOnce`: the rest of a cut command is never a command. `CutOnlyTruncates`: what is executed of it. |
| `protocol` | all texts of up to 5 of 9 words; all commands of up to 2 arguments | `LastAssignmentWins`, `NamesAreFields`: the result against the text. `OneWordUnderstood`: the result against what the client meant. |
| `iovec` | 2 connections, 3 replies of 2 or 3 entries, one reply in the kernel at a time, zero copy | `AloneSendsItsReply`: a race does no harm to later replies if the heap survives it. |
| `timing_serializer` | each of the three classes; 2 connections, 3 replies, 2 starts, two fields and the key, strings of 1 or 128 bytes | `FitsExactly`: what is counted is what is written. `MembersAsRead`: at each member a client finds a string as long as what was read for that field, in whatever way the record changed between the reads. `LoneRowsWhole`: a race between two rows does no harm to a later one. `FileIsHeaderAndRows`: the CSV file over all starts and deaths. `LoggedAfterRow`: which of the two files is behind. `LinesInReadOrder`: the threads' lines are in the log in the order in which they read the clock. |

Why these are enough: every hazard needs two threads and no more, the third
actor being the heap. A lookup goes wrong through one write in between; two
fields show half an update, two keys show an address that moves from one record
to another, and three addresses let the allocator choose. The buffer of
`session` has messages that leave different remainders and one of whole buffers;
its size only matters modulo, and two cuts leave a head, a middle and a tail of
a command. In the vector and the stream a third
call is what follows a race of two. A `zero copy` run contains every behaviour
of `one copy`: there a reply is transmitted as it is sent. The fixed message has
two fields and the key: a record can change between two reads, and one read can
get to the wrong member; 1 and 128 tell the strings apart, and 128 does not fit the
byte that 127 does. Two starts have a start on an empty
file and one on the file of the process that died, or of the one beside it.
`timing_serializer` has a VIEW: once a race or a second header has happened, no
property looks at the CSV file nor at the outcome of a reply that is over, and
no action at more than whether the file is empty, so states that differ in
nothing else are one; nor does it tell apart records that differ only in names
already read. It is the only run with `CHECK_DEADLOCK FALSE`: a process
that died and has no start left stops. Only the connections (and the addresses
of `zero_copy`) are symmetric, which are only compared; the runs with liveness
properties have no symmetry.

The runs that must fail show where the code does not do what it says:

| Run | Property | What happens |
|---|---|---|
| `server_stale_reply` | `ReplyIsWhatWasSeen` | the reply reads a string that a `SET_FIELDS` of another connection has deleted |
| `connection_stall` | `EachMessageAnswered` | a command of exactly 1024 bytes (or a multiple) waits for more |
| `protocol_quoted` | `QuotedUnderstood` | `name="John Doe"` is cut at the space |
| `iovec_race` | `EachSendsItsReply` | two threads in one `iovecs` at once: one sends something else than its reply |

Known and without a run, because one test shows it: a `GET_FIELDS` that succeeds
answers no value, since nothing fills `Response::fieldNames` (`ToCopy` in
`Server`), though src/README.md:54 shows values; and the key of a zero-copy reply
is in a `Response` that is gone when the kernel reads it (`SendMsg` and `Return`
in `IOVec`).

Known and without a run, because no document or comment denies it: in the MuSer,
Protobuf and FlatBuffers builds a record without the ten names ends the process,
and a reply may mix the fields of two updates; rows written at once mix; Protobuf
leaves out the newline after the key; a failed send is logged as `SIZE_MAX`
bytes, and by Protobuf as one that worked; two builds log no type; a second
process may leave a header between the rows; the times in the log may go back; a
command that TCP cuts is executed up to the cut, and two that are read together are
one; `serializeAndWriteSG` asserts that every message has `BUFFER_SIZE` bytes.

### Fairness

`Server`: weak fairness of `Handle(c)` for each connection. The threads are
kernel threads, and the operating system runs each that can run. It is weak, so
it does not promise the mutex to a thread that finds it taken again and again;
with `MaxCommands` the others run out of commands, so the run does not show
what a busy server with an unfair mutex does. `Accept`, `Hangup` and `Receive`
have no fairness: clients owe nothing. `Connection` and `Session`: weak fairness
of the thread (it is one loop, with nothing to choose) and of delivery by TCP,
none of the client. The other modules state safety only.

## The proofs

They hold for every set of keys, fields, values, addresses and connections, any
number of commands, messages, words and starts, under the assumptions named in
the modules, which TLC evaluates on every run. They are of two kinds. Some say
what the constants are: `Nil`, `Garbage`, `Junk` and `Newline` are none of the
values they stand beside (`NilAssumption`, `GarbageAssumption`,
`WildEntryAssumption`, `MarkersAssumption`), no line of a thread is one of `main`
(`MainLineAssumption`), bounds are numbers, commands and
messages are made of tokens. The others are facts about strings, about which the
provers know nothing: `PieceAssumption`, `PiecesAssumption` (the pieces of a command
spell it) and `CutsAssumption` (words cut anywhere are made of tokens).

`KVStoreProofs`. `StoreInv` (types, no dangling pointer, no shared string, no
orphan, lock) is inductive as it stands: that a delete frees no other field's
string needs `NoSharedString`, and that a new string is nobody's needs
`NoDanglingField`. Each of its parts is a theorem (`StoreTypes`,
`NothingDangles`, `NothingShared`, `NothingOrphaned`, `UpdateLocked`), and from
it follow `OnlyRemoveLeaks` and `Refinement`: every step maps to a step of
`NestedMap` or to a stutter; `SetNextField` is the stutter.

`ServerProofs`. The properties are not inductive. `IInv` adds to them

- `StoreInv` of the store, whose proof is reused: each step of the server is a
  step of `KVStore` or leaves it alone (`StoreStep`);
- `WriterHoldsMutex` and `SetInProgress`: the thread with the mutex writes what
  is left of the last entry of the log;
- `LogIsStore`: what a key holds, with what is still to be written, is what the
  log says (`AsOf`); `SeenIsPast`: what a lookup saw is what the log said then.
  `Linearizable` follows with the prefix `at[c]`;
- `PointersSound`: a pointer in a `Response` still leads to the string seen, or
  its field was overwritten since; `CopiesSound`: so does what was copied.
  `StaleOnlyByOverwrite` follows, and it needs `NoSharedString` again. So does
  `ExitCauses`: of a thread that faults, the pointer that led nowhere is one of its own
  lookup, of a field it had still to copy, which was overwritten since.

The three builds of `ZeroCopy` take steps that `Server` does not have, where a
reply ends without having been copied. `ReplyIInv` is `IInv` and, beside the
types,

- `EntriesSound`: an entry is the pointer of the lookup, or the field was
  overwritten; `CopiesFound`: nothing is copied that the lookup did not find;
- `OthersWrote`: from its lookup to the end of its reply a thread makes no
  `setFields`. With `StaleOnlyByOverwrite` this is `OnlyOthersSpoil`;
- `WireSound`: behind an entry in the kernel is the string that the lookup saw,
  or the field was overwritten. `OnlyOverwriteSpoilsWire` follows; here the reply
  is over and its own client may be the one who wrote.

The theorems of `Server` that are not about its copies hold in all builds
(`EveryBuildLinearizable`, `EveryBuildKeeps`, `EveryBuildEndsInReply`).

`SessionProofs`. For `Connection`, with any buffer size and message lengths,
`CInv` adds to `FramesTile` the types and `ReadsWhole`: while the thread is in
the inner loop, what it holds is a multiple of the buffer. `Tiling` and
`WaitingHoldsWholeBlocks` follow. `WholeBuffersEndTheConnection` needs
`EndsRagged` beside it: as long as the connection is not broken, no command so
far was of whole buffers. Divisibility is stated with a quotient (`Whole`),
because the SMT backend finds nothing about `%` with a variable divisor. A step
of `Session` is a step of `Connection` or parsing (`IsConnection`), so all this
holds there (`SessionTiles`). `SInv` adds `StreamInv`: the stream is the texts of
the messages, each between its ends; `ParserInv`: while a command is parsed, the
invariants of `ProtocolProofs` hold on the words of its bytes; `ExecutedInv`:
each executed command says what its bytes say, and ends before the next begins.
From it follow `SessionTypes`, `ExecutesItsBytes` and `NoneTwice`, wherever TCP
cuts. With a polite client (`Aligned`: commands begin and end where messages do;
`PoliteInv`: all of them were executed) the bytes of a command are a message, and
`ExecutesThePolite` is `PoliteExecuted`: the commands executed are the messages, and
a message that was read and not executed is of whole buffers (`ReadsWhole`). Messages
are as `MessagesAssumption` says, without blanks, quotes or `=` in what they name.

What is left is about words. `Join` and `Runs` are recursive functions: each is
shown to exist (`JoinIs`, `RunsIs`) and to depend on nothing behind the place it
has come to, so pieces can be added at the end one at a time: a letter makes the
last word longer (`RunsThenWord`), a blank ends it. By induction over the words,
`Runs` of a text are the words that were written, and of a beginning of a text
they are the words before the cut and what there is of the next (`TextRuns`,
`CutRuns`). A word as it is written has its first `=` behind the field, and its
quotes at the ends of the value; so it is the word that was meant, and the text
is read as it was meant (`WrittenAsMeant`). A beginning of a word is a beginning of
the field, or the field with a beginning of the value (`PartOfValue`).

`CutsTruncate` is `CutOnlyTruncates` for any messages: the bytes of a command that
ends in the message it starts with are blanks and a beginning of that message
(`BytesOfCut`), whose words `CutRuns` gives; `ExecutedInv` says what the parser
makes of them; and the fields assigned by the arguments before the cut are the
fold `FieldsOf`, which is shown to be the last assignment of each field
(`FieldsOfIs`). There are as many cases as there are places for a cut: in the
command, in the key, behind a word, in a field, in a value.

`HeadsAreCommands` is `HeadsOnce`, under `CommandsFirst`: no part of a word of a
message, but its first word, spells a command. The hypothesis is needed. A key
`GETALL` would refute `HeadsOnce`: cut before the key, the message leaves a rest
that is a command. Nothing in the code forbids such a key, so the theorem says
what must be asked of clients; the run checks `HeadsOnce` with messages that meet
it, and TLC evaluates it there (`MCCommandsFirst`). The proof finds the first word
of what was executed in the stream and the message it lies in; it is no part of a
later word, hence the first.

`ProtocolProofs`, for any tokens and texts of any length. `PInv` adds to
`LastAssignmentWins` and `NamesAreFields` the types and `BeforeArguments`: no
field is assigned before the third word. The step that matters is `TakePair`:
the word it takes is the greatest of the assignments of its field. `WordsTaken`
and `NamesTaken` say what has become of the words taken so far; when there are no
more, they are the whole result (`DeserializesWords`). `Understands` compares it
with the fold of what the client meant.

`IOVecProofs`. `IInv` is the types, `Counted` (how far each thread is with its
entries) and `Alone`: a thread that nobody met since it began finds the vector as it
left it, whatever was done to it before. `AloneIsRight` follows.

`LoggerProofs`. `LInv` adds to `LinesInReadOrder` that no line in a file is from a
later reading of the clock than `reads` counts, and that the line under the mutex is
from the latest. `TimingSerializerProofs` shows that the process implements `Logger`
(`UsesLogger`): every step is a step of `Logger` or leaves it alone, `Start` and `Die`
are its `Fresh`, and a line of `main` or of the second process is its `LogMain`. So
`LogLinesInReadOrder` is `LogInOrder` of `Logger`, for any number of starts and threads.
The CSV file has two invariants. `RowInv` is about the buffer: between two rows it
is empty or has the header (`Left`), and a thread that is alone finds it as it left
it. `LoneRow` follows, after any race. `FileInv` is about the file as long as
nothing strayed: the buffer has the header exactly if the file has not
(`HeaderDue`), a row tells what became of its reply (`RowsTell`), and `Kept` says
which replies have a row and which are in the log. `CsvIsHeaderAndRows` and
`LogBehindCsv` follow, over all starts and deaths.

The messages, for any number of members, lengths and outcomes of the reads. `Made`:
each thread has the strings it has read so far, in the order of the names, and from
`Serialize` on a message made of all of them (`ReadOne`, `ReadAll`) or of none. What the message is, and what is written of
it, are folds, and the proofs give each a closed form: the setters fill every
member with its argument (`MuSerFills`, `ProtobufFills`, `FlatPlaces`); what
MuSer writes are two parts for each member in order (`PartsAre`), and both of its
loops add up the same sizes (`MuSerFits`); the fields of protobuf are those of
the members that are not empty, `Written` and `ByteSizeLong` are the same sum, and
the parser is the inverse (`ProtobufFits`). `WritesWhatItCounts` and
`ClientsFindWhatWasRead` follow.

`SequenceLemmas`. A theorem of the library about induction has an operator as its
parameter, which the provers cannot instantiate, so inductions are arguments
about a least counterexample (`LeastOf`, from the well-foundedness of `<`). A fold
is a recursive function on the subsets of a set; two of them are the same if they
agree on a set whenever they do on the set without some element (`SameFold`), so
a closed form is one function more. `SumOver` does this for sums, `FlattenUpto`
and `FlattenAppend` for `FlattenSeq`. For recursion over the places of a sequence
the parameter is data instead of an operator: `InductUpto` and `InductSeq` take the
set of the places where a fact holds, `Recursion` the family of steps as a function.

Only model-checked: liveness (`Answered`, `HungUpEnds`, `PoliteAnswered`), which
the prover does not reach. Every safety property of a passing run is a theorem.
What the proofs take from TLC are the facts about strings above, on the
constants of each run.

## Not modelled

- `Protocol::createSocket` and its errors, `main`'s argument: they are over
  before the first connection, and an error is an exception that ends `main`.
- The getters of `Person` (most use the id of field 1): nothing calls them.
- Of the generated protobuf and FlatBuffers code what the program never calls:
  `clear_`, `release_` and `mutable_`, merging, swapping and copying, arenas,
  reflection, `Verify`. Of protobuf's `Person` the program uses the setters,
  `ByteSizeLong` and the writer; a client uses the parse table.
- The uSer library, whose submodule is empty.
- Allocation failures, and the text that `TwoCopySerializer` puts around values.
- The copy of each log line on `std::cout`, and the time and duration of a row.
- The wait of a client whose zero-copy reply the kernel refused.

## The plan

Done: all parts of the system modelled as far as the sections above say, the
compositions (`ZeroCopy`, `Session`, `TimingSerializer`), and a proof of every
safety property that a passing run checks. What may follow a change of the code:

1. A general form of `IInv` of `IOVec` for a thread that met another and was left
   alone again, if the code gets a lock around `push_back`.
2. `HeadsOnce` without `CommandsFirst`, if commands get a delimiter or a length.
