------------------------------ MODULE Protocol ------------------------------
(***************************************************************************)
(* Protocol::deserialize (src/Protocol.cpp): how the text of a command     *)
(* becomes the Request that processCommand works on.  operator>> takes one *)
(* word of the text at a time, so the text is a sequence of words.  What   *)
(* the parser asks of a word is whether it has a '=', and whether what     *)
(* follows it starts and ends with a quote; the rest is a Token.           *)
(***************************************************************************)
EXTENDS FiniteSetsExt, Naturals, SequencesExt

CONSTANTS
  Token,     \* text with no white space, no quote and no '='; may be ""
  Texts,     \* texts that clients send, whatever they mean by them
  Commands,  \* what clients mean, to be written as README.md says
  Nil

Types == {"SET_FIELDS", "GETALL", "GET_FIELDS"}

\* A value as written: its text, with a quote before it or after it or none.
\* A lone '"' is both, as front() and back() have it; "" is neither.
Value == [open : BOOLEAN, text : Token, close : BOOLEAN]

\* The word name=value, or just the name, possibly with a quote after it.
Word == {w \in [name : Token, eq : BOOLEAN, value : Value] :
           w.eq /\ w.value.text = "" => w.value.open = w.value.close}

Plain(t)  == [open |-> FALSE, text |-> t, close |-> FALSE]
Quoted(t) == [open |-> TRUE, text |-> t, close |-> TRUE]
Bare(t)   == [name |-> t, eq |-> FALSE, value |-> Plain("")]

ASSUME TokenAssumption == Types \cup {""} \subseteq Token
ASSUME NilAssumption == Nil \notin Value \cup Commands
ASSUME TextsAssumption == Texts \subseteq Seq(Word)

VARIABLES
  text,        \* data, as words
  meant,       \* history: the command that text was written for, or Nil
  read,        \* how many words operator>> has taken
  pc,          \* where deserialize is
  type,        \* Request::type
  key,         \* Request::key
  fields,      \* Request::fields; Nil: not in the map
  fieldNames   \* Request::fieldNames

vars == <<text, meant, read, pc, type, key, fields, fieldNames>>

TypeOK ==
  /\ text \in Seq(Word)
  /\ meant \in Commands \cup {Nil}
  /\ read \in 0..Len(text)
  /\ pc \in {"command", "key", "arguments", "done"}
  /\ type \in Types \cup {"INVALID"}
  /\ key \in Word
  /\ fields \in [Token -> Value \cup {Nil}]
  /\ fieldNames \in Seq(Word)

-----------------------------------------------------------------------------
(* The client.  A command is its type, its key and its arguments: names, or *)
(* for SET_FIELDS a field with a value of some words, in quotes or not.     *)

\* README.md:36: field="value"; the words after the first are words of the text.
WritePair(a) ==
  [i \in 1..Len(a.words) |->
     [name  |-> IF i = 1 THEN a.field ELSE a.words[i],
      eq    |-> i = 1,
      value |-> [open  |-> i = 1 /\ a.quoted,
                 text  |-> IF i = 1 THEN a.words[i] ELSE "",
                 close |-> i = Len(a.words) /\ a.quoted]]]

Write(c) ==
  <<Bare(c.type), Bare(c.key)>> \o
  IF c.type = "SET_FIELDS"
  THEN FlattenSeq([i \in 1..Len(c.args) |-> WritePair(c.args[i])])
  ELSE [i \in 1..Len(c.args) |-> Bare(c.args[i])]

\* An argument of a SET_FIELDS.
Argument == [field : Token, words : Seq(Token), quoted : BOOLEAN]

\* What clients mean are commands, and can be written in words.
ASSUME CommandsAssumption ==
  \A c \in Commands :
    /\ c.type \in Types /\ c.key \in Token
    /\ c.args \in Seq(IF c.type = "SET_FIELDS" THEN Argument ELSE Token)
    /\ Write(c) \in Seq(Word)

Init ==
  /\ \/ meant = Nil /\ text \in Texts
     \/ meant \in Commands /\ text = Write(meant)
  /\ read = 0
  /\ pc = "command"
  /\ type = "INVALID"
  /\ key = Bare("")
  /\ fields = [t \in Token |-> Nil]
  /\ fieldNames = <<>>

-----------------------------------------------------------------------------
(* deserialize *)

More == read < Len(text)
Next1 == text[read + 1]

\* iss >> command, and the branch it selects; another word, or none at all, is
\* no command.
TakeCommand ==
  /\ pc = "command"
  /\ IF More /\ \E t \in Types : Next1 = Bare(t)
     THEN type' = Next1.name /\ pc' = "key"
     ELSE type' = "INVALID" /\ pc' = "done"
  /\ read' = IF More THEN read + 1 ELSE read
  /\ UNCHANGED <<text, meant, key, fields, fieldNames>>

\* iss >> msg.key, which leaves the key empty at the end of the text.
TakeKey ==
  /\ pc = "key"
  /\ IF More THEN key' = Next1 /\ read' = read + 1 ELSE UNCHANGED <<key, read>>
  /\ pc' = IF type = "GETALL" THEN "done" ELSE "arguments"
  /\ UNCHANGED <<text, meant, type, fields, fieldNames>>

\* Mutant of Unquote: one character too many is kept.
UnquoteFront(v) == IF v.open /\ v.close THEN [v EXCEPT !.open = FALSE] ELSE v

\* Mutant of Unquote: one quote is enough.
UnquoteEither(v) == IF v.open \/ v.close THEN Plain(v.text) ELSE v

\* The quotes go when both are there.
Unquote(v) == IF v.open /\ v.close THEN Plain(v.text) ELSE v

\* Mutant of TakePair: a field that has a value keeps it.
TakePairKeepsFirst ==
  /\ pc = "arguments"
  /\ type = "SET_FIELDS"
  /\ More
  /\ read' = read + 1
  /\ IF Next1.eq
     THEN /\ fields' = [fields EXCEPT ![Next1.name] =
                          IF @ = Nil THEN Unquote(Next1.value) ELSE @]
          /\ fieldNames' = Append(fieldNames, Bare(Next1.name))
     ELSE UNCHANGED <<fields, fieldNames>>
  /\ UNCHANGED <<text, meant, pc, type, key>>

\* Mutant of TakePair: a word without '=' is a field name too.
TakePairNamesAll ==
  /\ pc = "arguments"
  /\ type = "SET_FIELDS"
  /\ More
  /\ read' = read + 1
  /\ fieldNames' = Append(fieldNames, Bare(Next1.name))
  /\ IF Next1.eq
     THEN fields' = [fields EXCEPT ![Next1.name] = Unquote(Next1.value)]
     ELSE UNCHANGED fields
  /\ UNCHANGED <<text, meant, pc, type, key>>

\* The loop of SET_FIELDS: a word without '=' is skipped.
TakePair ==
  /\ pc = "arguments"
  /\ type = "SET_FIELDS"
  /\ More
  /\ read' = read + 1
  /\ IF Next1.eq
     THEN /\ fields' = [fields EXCEPT ![Next1.name] = Unquote(Next1.value)]
          /\ fieldNames' = Append(fieldNames, Bare(Next1.name))
     ELSE UNCHANGED <<fields, fieldNames>>
  /\ UNCHANGED <<text, meant, pc, type, key>>

\* Mutant of TakeName: what precedes a '=' is taken for the name.
TakeNameText ==
  /\ pc = "arguments"
  /\ type = "GET_FIELDS"
  /\ More
  /\ read' = read + 1
  /\ fieldNames' = Append(fieldNames, Next1.name)
  /\ UNCHANGED <<text, meant, pc, type, key, fields>>

\* The loop of GET_FIELDS: every word is a name, a '=' in it notwithstanding.
TakeName ==
  /\ pc = "arguments"
  /\ type = "GET_FIELDS"
  /\ More
  /\ read' = read + 1
  /\ fieldNames' = Append(fieldNames, Next1)
  /\ UNCHANGED <<text, meant, pc, type, key, fields>>

TakeNoMore ==
  /\ pc = "arguments"
  /\ ~More
  /\ pc' = "done"
  /\ UNCHANGED <<text, meant, read, type, key, fields, fieldNames>>

Idle == pc = "done" /\ UNCHANGED vars

Next == TakeCommand \/ TakeKey \/ TakePair \/ TakeName \/ TakeNoMore \/ Idle

Spec == Init /\ [][Next]_vars

-----------------------------------------------------------------------------
(* Properties *)

\* Where the words taken so far assign field t.
Assignments(t) == {i \in 3..read : text[i].eq /\ text[i].name = t}

\* Whatever the text, a field of a SET_FIELDS has the value that was written
\* last, and no field comes from the command word or the key.
LastAssignmentWins ==
  \A t \in Token :
    fields[t] = IF type # "SET_FIELDS" \/ Assignments(t) = {} THEN Nil
                ELSE Unquote(text[Max(Assignments(t))].value)

\* fieldNames of a SET_FIELDS are the fields it has: SET_FIELDS and GET_FIELDS
\* fill the two members of one Request in loops of their own.
NamesAreFields ==
  type = "SET_FIELDS" =>
    {fieldNames[i] : i \in 1..Len(fieldNames)} =
      {Bare(t) : t \in {u \in Token : fields[u] # Nil}}

\* The last argument of c for field t, if any.
For(c, t) == {i \in 1..Len(c.args) : c.args[i].field = t}

\* The Request says what the client meant.
Understood(c) ==
  /\ type = c.type /\ key = Bare(c.key)
  /\ c.type = "SET_FIELDS" =>
       \A t \in Token :
         IF For(c, t) = {} THEN fields[t] = Nil
         ELSE LET words == c.args[Max(For(c, t))].words IN
              Len(words) = 1 /\ fields[t] = Plain(words[1])
  /\ c.type = "GET_FIELDS" =>
       fieldNames = [i \in 1..Len(c.args) |-> Bare(c.args[i])]

OneWordEach(c) ==
  c.type = "SET_FIELDS" => \A i \in 1..Len(c.args) : Len(c.args[i].words) = 1

\* A command whose values are one word each is understood, with quotes or
\* without, however often it names a field.
OneWordUnderstood ==
  pc = "done" /\ meant # Nil /\ OneWordEach(meant) => Understood(meant)

\* README.md:36, SET_FIELDS user123 name="John Doe" ...: so is a value of two
\* words between quotes.  Here the words are cut at the space.
QuotedUnderstood == pc = "done" /\ meant # Nil => Understood(meant)
=============================================================================
