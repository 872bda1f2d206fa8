------------------------------ MODULE Session -------------------------------
(***************************************************************************)
(* One connection with its text: the byte stream of module Connection, and *)
(* what deserialize, module Protocol, makes of each command that the read  *)
(* loop cuts out of it.  The bytes are characters, or pieces of words that *)
(* are not cut.  A message ends with a newline, as a terminal sends it.    *)
(***************************************************************************)
EXTENDS Connection, FiniteSetsExt, SequencesExt

CONSTANTS
  Piece,      \* characters, and pieces of words that are not cut
  Messages,   \* what clients mean: type, key and args, as pieces; see Text
  Token, Nil, \* see Protocol
  MaxCuts     \* bound: deliveries of less than all there is

Quote == "\""
Blank == {" ", "\n"}

ASSUME PieceAssumption ==
  {"SET_", "GET_", "FIELDS", "GET", "ALL", "=", Quote} \cup Blank \subseteq Piece

\* What names, keys and values are made of.
Letter == Piece \ (Blank \cup {"=", Quote})

Pieces(t) ==
  CASE t = "SET_FIELDS" -> <<"SET_", "FIELDS">>
    [] t = "GET_FIELDS" -> <<"GET_", "FIELDS">>
    [] t = "GETALL"     -> <<"GET", "ALL">>

\* The words of m, as the client of README.md:33-61 writes them.
WrittenWord(m, a) ==
  LET q == IF a.quoted THEN <<Quote>> ELSE <<>> IN
  IF m.type = "SET_FIELDS" THEN a.field \o <<"=">> \o q \o a.value \o q ELSE a.field

Written(m) ==
  <<Pieces(m.type), m.key>> \o [i \in 1..Len(m.args) |-> WrittenWord(m, m.args[i])]

\* A blank comes after each word, and a newline after the last.
Text(m) ==
  LET words == Written(m) IN
  FlattenSeq([i \in 1..Len(words) |->
                Append(words[i], IF i = Len(words) THEN "\n" ELSE " ")])

\* What clients send, message after message.
StreamOf(messages) == FlattenSeq([i \in 1..Len(messages) |-> Text(messages[i])])

VARIABLES
  stream,    \* the bytes the client sent
  said,      \* history: the messages it sent
  cuts,      \* history: deliveries of less than all there was
  executed,  \* history: the commands that were valid, with their places
  text, read, at, type, key, fields, fieldNames  \* deserialize: see Protocol;
             \* at is "none" outside

P == INSTANCE Protocol WITH pc <- at, Texts <- {}, Commands <- {}, meant <- said

Argument == [field : Seq(Letter), value : Seq(Letter), quoted : BOOLEAN]
Message  == [type : P!Types, key : Seq(Letter), args : Seq(Argument)]

\* A word has a letter; one with a '=' needs no other.
ASSUME MessagesAssumption ==
  /\ Messages \subseteq Message /\ Lengths = {Len(Text(m)) : m \in Messages}
  /\ \A m \in Messages :
       m.key # <<>> /\ \A i \in 1..Len(m.args) : m.type = "SET_FIELDS" \/ m.args[i].field # <<>>
ASSUME SessionTokenAssumption == P!Types \cup {""} \subseteq Token /\ Nil \notin P!Value
ASSUME MaxCutsAssumption == MaxCuts \in Nat

request == <<type, key, fields, fieldNames>>
parser  == <<text, read, at, request>>
svars   == <<vars, stream, said, cuts, executed, parser>>

NoFields == [t \in Token |-> Nil]

\* A request for the bytes from..to.
Request == [from : Nat, to : Nat, type : P!Types, key : P!Word,
            fields : [Token -> P!Value \cup {Nil}], names : Seq(P!Word)]

SessionTypeOK ==
  /\ TypeOK
  /\ Len(stream) = Sent /\ said \in Seq(Messages) /\ Len(said) = Len(ends)
  /\ cuts \in 0..MaxCuts
  /\ executed \in Seq(Request)
  /\ text \in Seq(P!Word) /\ read \in 0..Len(text)
  /\ at \in {"none", "command", "key", "arguments", "done"}
  /\ at # "none" => pc = "process"

SessionInit ==
  /\ Init
  /\ stream = <<>> /\ said = <<>> /\ cuts = 0 /\ executed = <<>>
  /\ text = <<>> /\ read = 0 /\ at = "none"
  /\ type = "INVALID" /\ key = P!Bare("") /\ fields = NoFields /\ fieldNames = <<>>

-----------------------------------------------------------------------------
(* From bytes to words *)

\* What the pieces spell, with the quotes left out.
Join(pieces) ==
  LET first[n \in 0..Len(pieces)] ==
        IF n = 0 THEN ""
        ELSE IF pieces[n] = Quote THEN first[n - 1]
        ELSE first[n - 1] \o pieces[n]
  IN  first[Len(pieces)]

ASSUME PiecesAssumption == \A t \in P!Types : Join(Pieces(t)) = t

\* Around the first '=' of a word, pair.find(KV_SEP).
WordOf(pieces) ==
  LET pos == SelectInSeq(pieces, LAMBDA x : x = "=")
      v   == SubSeq(pieces, pos + 1, Len(pieces))
  IN  [name  |-> Join(SubSeq(pieces, 1, IF pos = 0 THEN Len(pieces) ELSE pos - 1)),
       eq    |-> pos # 0,
       value |-> [open  |-> v # <<>> /\ Head(v) = Quote,
                  text  |-> IF pos = 0 THEN "" ELSE Join(v),
                  close |-> v # <<>> /\ Last(v) = Quote]]

\* iss >> word, again and again: a word ends before a blank or at the end.
Runs(pieces) ==
  LET In(n)    == n \in 1..Len(pieces) /\ pieces[n] \notin Blank
      first(n) == Max({i \in 1..n : ~In(i - 1)})
      runs[n \in 0..Len(pieces)] ==
        IF n = 0 THEN <<>>
        ELSE IF In(n) /\ ~In(n + 1) THEN Append(runs[n - 1], SubSeq(pieces, first(n), n))
        ELSE runs[n - 1]
  IN  runs[Len(pieces)]

WordsOf(runs) == [k \in 1..Len(runs) |-> WordOf(runs[k])]
Words(pieces) == WordsOf(Runs(pieces))

\* The tokens include whatever a cut can leave of the words of a stream.
ASSUME CutsAssumption ==
  \A n \in 0..MaxMessages : \A messages \in [1..n -> Messages] :
    LET s == StreamOf(messages) IN
    \A from \in 0..Len(s) : \A to \in from..Len(s) :
      Words(SubSeq(s, from + 1, to)) \in Seq(P!Word)

\* The words of m as it was meant.
MeantWords(m) ==
  <<P!Bare(m.type), P!Bare(Join(m.key))>> \o
  [i \in 1..Len(m.args) |->
     LET a == m.args[i] IN
     IF m.type = "SET_FIELDS"
     THEN [name |-> Join(a.field), eq |-> TRUE,
           value |-> [open |-> a.quoted, text |-> Join(a.value), close |-> a.quoted]]
     ELSE P!Bare(Join(a.field))]

-----------------------------------------------------------------------------
(* The client and the network *)

Send(m) ==
  /\ Write(Len(Text(m)))
  /\ stream' = stream \o Text(m) /\ said' = Append(said, m)
  /\ UNCHANGED <<cuts, executed, parser>>

Segment(n) ==
  /\ Deliver(n)
  /\ cuts' = IF n < Sent - arrived THEN cuts + 1 ELSE cuts
  /\ cuts' <= MaxCuts
  /\ UNCHANGED <<stream, said, executed, parser>>

-----------------------------------------------------------------------------
(* The thread *)

\* processCommand(data) begins with deserialize(data).
BeginProcess ==
  /\ pc = "process" /\ at = "none"
  /\ at' = "command"
  /\ \E data \in {SubSeq(stream, start + 1, consumed)} : \E runs \in {Runs(data)} :
       text' = WordsOf(runs)
  /\ UNCHANGED <<vars, stream, said, cuts, executed, read, request>>

Deserialize ==
  /\ P!TakeCommand \/ P!TakeKey \/ P!TakePair \/ P!TakeName \/ P!TakeNoMore
  /\ UNCHANGED <<vars, stream, said, cuts, executed>>

\* The request is executed unless it is INVALID, and the loop goes on.
EndProcess ==
  /\ at = "done"
  /\ Process
  /\ executed' = IF type = "INVALID" THEN executed
                 ELSE Append(executed, [from |-> start, to |-> consumed, type |-> type,
                                        key |-> key, fields |-> fields, names |-> fieldNames])
  /\ text' = <<>> /\ read' = 0 /\ at' = "none"
  /\ type' = "INVALID" /\ key' = P!Bare("") /\ fields' = NoFields /\ fieldNames' = <<>>
  /\ UNCHANGED <<stream, said, cuts>>

Thread ==
  \/ /\ Read \/ ReadError \/ ReadEnd
     /\ UNCHANGED <<stream, said, cuts, executed, parser>>
  \/ BeginProcess \/ Deserialize \/ EndProcess

SessionNext ==
  \/ \E m \in Messages : Send(m)
  \/ \E n \in 1..Sent - arrived : Segment(n)
  \/ (Hangup \/ Idle) /\ UNCHANGED <<stream, said, cuts, executed, parser>>
  \/ Thread

\* As in Connection: the thread runs, and TCP delivers.
SessionSpec ==
  /\ SessionInit /\ [][SessionNext]_svars
  /\ WF_svars(Thread) /\ WF_svars(\E n \in 1..Sent - arrived : Segment(n))

-----------------------------------------------------------------------------
(* Properties *)

Beginnings(pieces) == {Join(SubSeq(pieces, 1, i)) : i \in 0..Len(pieces)}

\* The fields of the first n arguments of m, and their names.
FieldsOf(m, n) ==
  IF m.type # "SET_FIELDS" THEN NoFields
  ELSE FoldLeft(LAMBDA f, a : [f EXCEPT ![Join(a.field)] = P!Plain(Join(a.value))],
                NoFields, SubSeq(m.args, 1, n))

NamesOf(m, n) == [i \in 1..n |-> P!Bare(Join(m.args[i].field))]

\* With a polite client, the commands executed are the messages, each once, in
\* order, and as they were meant.  Once a thread that waits has read all there is, it
\* has executed all of them; or all but the last, which is one of whole buffers.
PoliteExecuted ==
  polite /\ peer # "broken" =>
    /\ Len(executed) = Len(frames) /\ Len(frames) <= Len(said)
    /\ \A i \in 1..Len(executed) :
         LET e == executed[i]  m == said[i] IN
         /\ e.from = End(i - 1) /\ e.to = End(i)
         /\ e.type = m.type /\ e.key = P!Bare(Join(m.key))
         /\ e.fields = FieldsOf(m, Len(m.args))
         /\ m.type # "GETALL" => e.names = NamesOf(m, Len(m.args))
    /\ pc = "read" /\ consumed = Sent /\ Len(executed) # Len(said) =>
         Len(said) = Len(executed) + 1 /\ (Sent - End(Len(executed))) % BUF = 0

\* Request e starts with the j-th message: at most blanks come before it.
StartsWith(e, j) ==
  /\ e.from <= End(j - 1) /\ End(j - 1) < e.to
  /\ \A p \in e.from + 1..End(j - 1) : stream[p] \in Blank

\* No part of a word but the first of a message is a command.
CommandsFirst ==
  \A m \in Messages : \A i, j \in 1..Len(Text(m)) : \A t \in P!Types :
    WordOf(SubSeq(Text(m), i, j)) = P!Bare(t) => i = 1 /\ t = m.type

\* However the stream is cut or joined, what is executed starts with a message of
\* that type, and no message is executed twice: the rest of a command that was cut
\* is never taken for a command.
HeadsOnce ==
  \A i \in 1..Len(executed) :
    \E j \in 1..Len(said) :
      /\ StartsWith(executed[i], j) /\ executed[i].type = said[j].type
      /\ \A k \in 1..i - 1 : ~StartsWith(executed[k], j)

\* The n-th field has a beginning of its value, and with it the quote that was open;
\* a quote alone counts as two.
CutValue(e, m, n) ==
  LET a == m.args[n]
      v == {P!Plain("")} \cup {[open |-> a.quoted, text |-> p, close |-> FALSE] : p \in Beginnings(a.value)}
  IN  \E x \in v : e.fields = [FieldsOf(m, n - 1) EXCEPT ![Join(a.field)] = x]

\* A command that is cut off is executed up to the cut: all but its last word are
\* as they were meant, the last is a beginning of what was meant, and without
\* the whole key there are no fields.
CutOnlyTruncates ==
  \A i \in 1..Len(executed), j \in 1..Len(said) :
    LET e == executed[i]  m == said[j] IN
    StartsWith(e, j) /\ e.to <= End(j) =>
      \/ e.key \in {P!Bare(p) : p \in Beginnings(m.key)} /\ e.fields = NoFields /\ e.names = <<>>
      \/ /\ e.key = P!Bare(Join(m.key))
         /\ \/ \E n \in 0..Len(m.args) :
                 e.fields = FieldsOf(m, n) /\ e.names = NamesOf(m, n)
            \/ \E n \in 1..Len(m.args) : e.names = NamesOf(m, n) /\ CutValue(e, m, n)
            \/ /\ m.type = "GET_FIELDS" /\ e.fields = NoFields
               /\ \E n \in 1..Len(m.args) : \E p \in Beginnings(m.args[n].field) :
                    e.names = Append(NamesOf(m, n - 1), P!Bare(p))
=============================================================================
