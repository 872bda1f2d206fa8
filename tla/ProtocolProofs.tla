--------------------------- MODULE ProtocolProofs ---------------------------
(* What deserialize has made of the words it has taken, for any tokens and   *)
(* texts of any length: the fields are those assigned, each with its last    *)
(* value, and the names are the fields.                                      *)
EXTENDS Protocol, SequenceLemmas

\* Before the arguments no field is assigned, and the arguments start at the
\* third word, if there is one.
BeforeArguments ==
  /\ pc = "command" => read = 0
  /\ pc = "key" => read = 1
  /\ pc \in {"command", "key"} => fields = [t \in Token |-> Nil] /\ fieldNames = <<>>
  /\ pc = "arguments" => read >= 2 \/ read = Len(text)
  /\ type # "SET_FIELDS" => fields = [t \in Token |-> Nil]

PInv == TypeOK /\ BeforeArguments /\ LastAssignmentWins /\ NamesAreFields

-----------------------------------------------------------------------------
\* Removing the quotes of a value leaves a value (Protocol::deserialize).
LEMMA UnquoteType ==
  ASSUME NEW v \in Value
  PROVE  Unquote(v) \in Value /\ Unquote(v) # Nil
  <1>1. v.text \in Token
    BY DEF Value
  <1>2. Plain(v.text) \in Value
    BY <1>1 DEF Plain, Value
  <1>3. Unquote(v) \in {Plain(v.text), v}
    BY DEF Unquote
  <1> QED BY <1>2, <1>3, NilAssumption

\* A name alone is a word.
LEMMA BareType ==
  ASSUME NEW t \in Token
  PROVE  Bare(t) \in Word
  BY TokenAssumption DEF Bare, Plain, Word, Value

LEMMA PInvInit == Init => PInv
  <1> SUFFICES ASSUME Init PROVE PInv
    OBVIOUS
  <1>1. text \in Seq(Word)
    BY TextsAssumption, CommandsAssumption DEF Init
  <1>2. TypeOK
    <2>1. "" \in Token
      BY TokenAssumption
    <2>2. key \in Word
      BY <2>1, BareType DEF Init
    <2>3. meant \in Commands \cup {Nil} /\ fields \in [Token -> Value \cup {Nil}]
      BY DEF Init
    <2>4. read = 0 /\ fieldNames = <<>>
      BY DEF Init
    <2>5. Len(text) \in Nat
      BY <1>1
    <2>6. read \in 0..Len(text)
      BY <2>4, <2>5
    <2>7. fieldNames \in Seq(Word)
      BY <2>4
    <2> QED BY <1>1, <2>2, <2>3, <2>6, <2>7 DEF Init, TypeOK
  <1>3. BeforeArguments
    BY DEF Init, BeforeArguments
  <1>4. LastAssignmentWins
    BY DEF Init, LastAssignmentWins
  <1>5. NamesAreFields
    BY DEF Init, NamesAreFields
  <1> QED BY <1>2, <1>3, <1>4, <1>5 DEF PInv

-----------------------------------------------------------------------------
\* The command and the key assign nothing.
LEMMA TakeCommandStep == PInv /\ TakeCommand => PInv'
  <1> SUFFICES ASSUME PInv, TakeCommand PROVE PInv'
    OBVIOUS
  <1> USE DEF PInv, TakeCommand
  <1>1. type' \in Types \cup {"INVALID"} /\ pc' \in {"key", "done"}
    <2>1. \A t \in Types : Bare(t).name = t
      BY DEF Bare
    <2> QED BY <2>1
  <1>2. read = 0 /\ read' \in 0..Len(text) /\ read' <= 1
    BY DEF TypeOK, BeforeArguments, More
  <1>3. TypeOK'
    BY <1>1, <1>2 DEF TypeOK
  <1>4. fields' = [t \in Token |-> Nil] /\ fieldNames' = <<>>
    BY DEF BeforeArguments
  <1>5. BeforeArguments'
    BY <1>1, <1>2, <1>4 DEF BeforeArguments
  <1>6. \A t \in Token : Assignments(t)' = {}
    BY <1>2 DEF Assignments
  <1>7. LastAssignmentWins'
    BY <1>4, <1>6 DEF LastAssignmentWins
  <1>8. NamesAreFields'
    BY <1>4 DEF NamesAreFields
  <1> QED BY <1>3, <1>5, <1>7, <1>8

LEMMA TakeKeyStep == PInv /\ TakeKey => PInv'
  <1> SUFFICES ASSUME PInv, TakeKey PROVE PInv'
    OBVIOUS
  <1> USE DEF PInv, TakeKey
  <1>1. read = 1 /\ read' \in 0..Len(text) /\ read' <= 2 /\ (read' = 2 \/ read' = Len(text))
    BY DEF TypeOK, BeforeArguments, More
  <1>2. key' \in Word
    BY DEF TypeOK, More, Next1
  <1>3. TypeOK'
    BY <1>1, <1>2 DEF TypeOK
  <1>4. fields' = [t \in Token |-> Nil] /\ fieldNames' = <<>>
    BY DEF BeforeArguments
  <1>5. BeforeArguments'
    BY <1>1, <1>4 DEF BeforeArguments
  <1>6. \A t \in Token : Assignments(t)' = {}
    BY <1>1 DEF Assignments
  <1>7. LastAssignmentWins'
    BY <1>4, <1>6 DEF LastAssignmentWins
  <1>8. NamesAreFields'
    BY <1>4 DEF NamesAreFields
  <1> QED BY <1>3, <1>5, <1>7, <1>8

\* A word with '=' assigns one field, and it is the last assignment of that field.
LEMMA TakePairStep == PInv /\ TakePair => PInv'
  <1> SUFFICES ASSUME PInv, TakePair PROVE PInv'
    OBVIOUS
  <1> USE DEF PInv, TakePair
  <1>1. /\ read \in Nat /\ read >= 2 /\ read' = read + 1 /\ read' \in 0..Len(text)
        /\ text' = text /\ type' = type /\ type = "SET_FIELDS" /\ pc' = pc
    BY DEF TypeOK, BeforeArguments, More
  <1>2. Next1 \in Word /\ Next1 = text[read']
    BY <1>1 DEF TypeOK, Next1
  <1>3. Next1.name \in Token /\ Next1.value \in Value
    BY <1>2 DEF Word
  <1>4. CASE Next1.eq
    <2> DEFINE u == Next1.name
               x == Unquote(Next1.value)
    <2>1. x \in Value /\ x # Nil
      BY <1>3, UnquoteType
    <2>2. fields' = [fields EXCEPT ![u] = x] /\ fieldNames' = Append(fieldNames, Bare(u))
      BY <1>4
    <2>3. u \in Token /\ Bare(u) \in Word
      BY <1>3, BareType
    <2> HIDE DEF u, x
    <2>4. TypeOK'
      BY <1>1, <2>1, <2>2, <2>3 DEF TypeOK
    <2>5. BeforeArguments'
      BY <1>1 DEF BeforeArguments
    <2>6. \A t \in Token : fields'[t] = IF t = u THEN x ELSE fields[t]
      BY <2>2, <2>3 DEF TypeOK
    <2>7. LastAssignmentWins'
      <3> SUFFICES ASSUME NEW t \in Token
                   PROVE  fields'[t] = IF Assignments(t)' = {} THEN Nil
                                       ELSE Unquote(text[Max(Assignments(t)')].value)
        BY <1>1 DEF LastAssignmentWins
      <3>1. CASE t = u
        <4>1. read' \in Assignments(t)'
          BY <1>1, <1>2, <1>4, <3>1 DEF Assignments, u
        <4>2. Assignments(t)' \subseteq Nat /\ \A i \in Assignments(t)' : i <= read'
          BY <1>1 DEF Assignments
        <4>3. Max(Assignments(t)') = read'
          BY <4>1, <4>2, MaxIs
        <4> QED BY <4>1, <4>3, <3>1, <2>6, <1>2 DEF x
      <3>2. CASE t # u
        <4>1. Assignments(t)' = Assignments(t)
          BY <1>1, <1>2, <3>2 DEF Assignments, u
        <4> QED BY <4>1, <3>2, <2>6, <1>1 DEF LastAssignmentWins
      <3> QED BY <3>1, <3>2
    <2>8. NamesAreFields'
      <3>1. {fieldNames'[i] : i \in 1..Len(fieldNames')} =
              {fieldNames[i] : i \in 1..Len(fieldNames)} \cup {Bare(u)}
        BY <2>2, <2>3 DEF TypeOK
      <3>2. {t \in Token : fields'[t] # Nil} = {t \in Token : fields[t] # Nil} \cup {u}
        BY <2>1, <2>3, <2>6
      <3>3. {Bare(t) : t \in {v \in Token : fields'[v] # Nil}} =
              {Bare(t) : t \in {v \in Token : fields[v] # Nil}} \cup {Bare(u)}
        BY <3>2
      <3> QED BY <1>1, <3>1, <3>3 DEF NamesAreFields
    <2> QED BY <2>4, <2>5, <2>7, <2>8
  <1>5. CASE ~Next1.eq
    <2>1. fields' = fields /\ fieldNames' = fieldNames
      BY <1>5
    <2>2. TypeOK'
      BY <1>1, <2>1 DEF TypeOK
    <2>3. BeforeArguments'
      BY <1>1 DEF BeforeArguments
    <2>4. \A t \in Token : Assignments(t)' = Assignments(t)
      BY <1>1, <1>2, <1>5 DEF Assignments
    <2>5. LastAssignmentWins'
      BY <1>1, <2>1, <2>4 DEF LastAssignmentWins
    <2>6. NamesAreFields'
      BY <1>1, <2>1 DEF NamesAreFields
    <2> QED BY <2>2, <2>3, <2>5, <2>6
  <1> QED BY <1>4, <1>5

\* A GET_FIELDS gets names and no fields, and the end of the text changes neither.
LEMMA OtherSteps == PInv /\ (TakeName \/ TakeNoMore \/ UNCHANGED vars) => PInv'
  <1> SUFFICES ASSUME PInv, TakeName \/ TakeNoMore \/ UNCHANGED vars PROVE PInv'
    OBVIOUS
  <1> USE DEF PInv
  <1>1. CASE TakeName
    <2> USE <1>1 DEF TakeName
    <2>1. read' = read + 1 /\ read \in Nat /\ read' \in 0..Len(text) /\ type' = "GET_FIELDS"
      BY DEF TypeOK, More
    <2>2. Next1 \in Word
      BY <2>1 DEF TypeOK, Next1
    <2>3. TypeOK'
      BY <2>1, <2>2 DEF TypeOK
    <2>4. BeforeArguments'
      BY <2>1 DEF BeforeArguments, More, TypeOK
    <2>5. LastAssignmentWins' /\ NamesAreFields'
      BY <2>1 DEF LastAssignmentWins, NamesAreFields
    <2> QED BY <2>3, <2>4, <2>5
  <1>2. CASE TakeNoMore \/ UNCHANGED vars
    <2>1. UNCHANGED <<text, meant, read, type, key, fields, fieldNames>>
      BY <1>2 DEF TakeNoMore, vars
    <2>2. pc' \in {pc, "done"}
      BY <1>2 DEF TakeNoMore, vars
    <2>3. TypeOK' /\ BeforeArguments'
      BY <2>1, <2>2 DEF TypeOK, BeforeArguments
    <2>4. \A t \in Token : Assignments(t)' = Assignments(t)
      BY <2>1 DEF Assignments
    <2>5. LastAssignmentWins'
      BY <2>1, <2>4 DEF LastAssignmentWins
    <2>6. NamesAreFields'
      BY <2>1 DEF NamesAreFields
    <2> QED BY <2>3, <2>5, <2>6
  <1> QED BY <1>1, <1>2

LEMMA PInvStep == PInv /\ [Next]_vars => PInv'
  BY TakeCommandStep, TakeKeyStep, TakePairStep, OtherSteps DEF Next, Idle

\* Types, assignments and names are as they should be after every word
\* (Protocol::deserialize).
THEOREM ParserInvariant == Spec => []PInv
  BY PInvInit, PInvStep, PTL DEF Spec

\* The locals of deserialize and the Request keep their types.
THEOREM ParserTypes == Spec => []TypeOK
  <1>1. PInv => TypeOK
    BY DEF PInv
  <1> QED BY <1>1, ParserInvariant, PTL

\* In a text of any length, each field has the value that was written last, and
\* no field comes from the command word or the key (Protocol::deserialize).
THEOREM LastWins == Spec => []LastAssignmentWins
  <1>1. PInv => LastAssignmentWins
    BY DEF PInv
  <1> QED BY <1>1, ParserInvariant, PTL

\* fieldNames and fields of a SET_FIELDS name the same (Protocol::deserialize).
THEOREM NamesMatch == Spec => []NamesAreFields
  <1>1. PInv => NamesAreFields
    BY DEF PInv
  <1> QED BY <1>1, ParserInvariant, PTL

-----------------------------------------------------------------------------
(* A command of one-word values is understood. *)

\* The word of an argument of one word.
PairOf(a) ==
  [name  |-> a.field, eq |-> TRUE,
   value |-> [open |-> a.quoted, text |-> a.words[1], close |-> a.quoted]]

LEMMA OneWordPair ==
  ASSUME NEW a \in Argument, Len(a.words) = 1
  PROVE  WritePair(a) = <<PairOf(a)>>
  <1>1. a.quoted \in BOOLEAN
    BY DEF Argument
  <1> DEFINE w(i) == [name  |-> IF i = 1 THEN a.field ELSE a.words[i],
                      eq    |-> i = 1,
                      value |-> [open  |-> i = 1 /\ a.quoted,
                                 text  |-> IF i = 1 THEN a.words[i] ELSE "",
                                 close |-> i = 1 /\ a.quoted]]
  <1>2. WritePair(a) = [i \in 1..1 |-> w(i)]
    BY DEF WritePair
  <1>3. w(1) = [name  |-> a.field, eq |-> 1 = 1,
                value |-> [open  |-> 1 = 1 /\ a.quoted, text |-> a.words[1],
                           close |-> 1 = 1 /\ a.quoted]]
    OBVIOUS
  <1>4. (1 = 1) = TRUE /\ (1 = 1 /\ a.quoted) = a.quoted
    BY <1>1
  <1>5. w(1) = PairOf(a)
    BY <1>3, <1>4, Zenon DEF PairOf
  <1> HIDE DEF w
  <1>6. [i \in 1..1 |-> w(i)] = [i \in 1..1 |-> w(1)]
    OBVIOUS
  <1>7. WritePair(a) = [i \in 1..1 |-> PairOf(a)]
    BY <1>2, <1>5, <1>6
  <1> QED BY <1>7

\* The words of a command after its type and its key, if a value is one word.
ArgumentWords(c) ==
  [i \in 1..Len(c.args) |-> IF c.type = "SET_FIELDS" THEN PairOf(c.args[i]) ELSE Bare(c.args[i])]

\* What the client writes of a command of one-word values, word by word.
LEMMA WordsWritten ==
  ASSUME NEW c \in Commands, OneWordEach(c)
  PROVE  /\ Len(c.args) \in Nat /\ Len(Write(c)) = Len(c.args) + 2
         /\ Write(c)[1] = Bare(c.type) /\ Write(c)[2] = Bare(c.key)
         /\ \A i \in 1..Len(c.args) : Write(c)[i + 2] = ArgumentWords(c)[i]
  <1> DEFINE n == Len(c.args)
             W == ArgumentWords(c)
             S == {W[i] : i \in 1..n} \cup {Bare(c.type), Bare(c.key)}
  <1>1. n \in Nat
    BY CommandsAssumption
  <1>2. W \in Seq(S) /\ Len(W) = n /\ DOMAIN W = 1..n
    BY <1>1 DEF ArgumentWords
  <1>3. Write(c) = <<Bare(c.type), Bare(c.key)>> \o W
    <2>1. CASE c.type = "SET_FIELDS"
      <3> DEFINE parts == [i \in 1..n |-> WritePair(c.args[i])]
      <3>1. ASSUME NEW i \in 1..n PROVE parts[i] = <<W[i]>>
        <4>1. c.args[i] \in Argument
          BY <2>1, CommandsAssumption
        <4>2. Len(c.args[i].words) = 1
          BY <2>1 DEF OneWordEach
        <4>3. WritePair(c.args[i]) = <<PairOf(c.args[i])>>
          BY <4>1, <4>2, OneWordPair
        <4> QED BY <4>3, <2>1 DEF ArgumentWords
      <3>2. Len(parts) = n
        BY <1>1
      <3>3. parts \in Seq(Seq(S))
        <4>1. \A i \in 1..n : W[i] \in S
          OBVIOUS
        <4>2. ASSUME NEW i \in 1..n PROVE parts[i] \in Seq(S)
          <5>1. \A x \in S : <<x>> \in Seq(S)
            OBVIOUS
          <5> HIDE DEF parts, W, S
          <5>2. <<W[i]>> \in Seq(S)
            BY <4>1, <5>1
          <5> QED BY <3>1, <5>2
        <4>3. parts = [i \in 1..n |-> parts[i]]
          OBVIOUS
        <4> HIDE DEF parts, W, S
        <4>4. \A k \in Nat : \A f : f = [i \in 1..k |-> f[i]] /\ (\A i \in 1..k : f[i] \in Seq(S))
                                => f \in Seq(Seq(S))
          OBVIOUS
        <4> QED BY <1>1, <4>2, <4>3, <4>4
      <3>4. Write(c) = <<Bare(c.type), Bare(c.key)>> \o FlattenSeq(parts)
        BY <2>1 DEF Write
      <3> HIDE DEF parts, W, S
      <3>5. FlattenSeq(parts) = W
        BY <1>2, <3>1, <3>2, <3>3, FlattenSingles
      <3> QED BY <3>4, <3>5
    <2>2. CASE c.type # "SET_FIELDS"
      <3>1. W = [i \in 1..n |-> Bare(c.args[i])]
        BY <2>2 DEF ArgumentWords
      <3> QED BY <2>2, <3>1 DEF Write
    <2> QED BY <2>1, <2>2
  <1>4. <<Bare(c.type), Bare(c.key)>> \in Seq(S)
    OBVIOUS
  <1> HIDE DEF W, S
  <1>5. /\ Len(Write(c)) = 2 + n
        /\ \A i \in 1..2 + n : Write(c)[i] = IF i <= 2 THEN <<Bare(c.type), Bare(c.key)>>[i]
                                                      ELSE W[i - 2]
    BY <1>2, <1>3, <1>4, ConcatProperties
  <1>6. Write(c)[1] = Bare(c.type) /\ Write(c)[2] = Bare(c.key)
    BY <1>1, <1>5
  <1>7. ASSUME NEW i \in 1..n PROVE Write(c)[i + 2] = W[i]
    BY <1>1, <1>5
  <1> QED BY <1>1, <1>5, <1>6, <1>7 DEF W

-----------------------------------------------------------------------------
\* How many of n words are arguments.
Rest(n) == IF n > 2 THEN n - 2 ELSE 0

\* What has become of the words taken so far.
WordsTaken ==
  /\ pc \in {"key", "arguments"} => type # "INVALID"
  /\ pc = "arguments" => type # "GETALL"
  /\ pc = "done" /\ type = "INVALID" =>
       ~(Len(text) > 0 /\ \E t \in Types : text[1] = Bare(t))
  /\ type # "INVALID" => Len(text) > 0 /\ text[1] = Bare(type)
  /\ pc \in {"command", "key"} => key = Bare("")
  /\ pc \in {"arguments", "done"} /\ type # "INVALID" =>
       key = IF Len(text) > 1 THEN text[2] ELSE Bare("")
  /\ pc = "done" /\ type \in {"SET_FIELDS", "GET_FIELDS"} => read = Len(text)
  /\ type \in {"INVALID", "GETALL"} => fieldNames = <<>>

\* The first k arguments in words w, and no others before word n, have a '='.
FirstPairs(w, n, k) ==
  /\ k \in 0..Rest(n)
  /\ \A i \in 1..k : w[i + 2].eq
  /\ \A i \in k + 1..Rest(n) : ~w[i + 2].eq

\* The names of a GET_FIELDS are its words; those of a SET_FIELDS come before the
\* '=', if the words that have one are the first.
NamesTaken ==
  /\ type = "GET_FIELDS" =>
       /\ Len(fieldNames) = Rest(read)
       /\ \A i \in 1..Rest(read) : fieldNames[i] = text[i + 2]
  /\ type = "SET_FIELDS" =>
       \A k \in Nat : FirstPairs(text, read, k) =>
         /\ Len(fieldNames) = k
         /\ \A i \in 1..k : fieldNames[i] = Bare(text[i + 2].name)

LEMMA WordsTakenInit == Init => WordsTaken /\ NamesTaken
  BY DEF Init, WordsTaken, NamesTaken

LEMMA WordsTakenStep == PInv /\ WordsTaken /\ [Next]_vars => WordsTaken'
  <1> SUFFICES ASSUME PInv, WordsTaken, [Next]_vars PROVE WordsTaken'
    OBVIOUS
  <1>0. text' = text /\ read \in Nat /\ Len(text) \in Nat /\ read <= Len(text)
    BY DEF PInv, TypeOK, Next, TakeCommand, TakeKey, TakePair, TakeName, TakeNoMore, Idle, vars
  <1>1. CASE TakeCommand
    <2>1. read = 0 /\ fieldNames' = <<>>
      BY <1>1 DEF TakeCommand, PInv, BeforeArguments
    <2>2. More <=> Len(text) > 0
      BY <1>0, <2>1 DEF More
    <2>3. Next1 = text[1]
      BY <2>1 DEF Next1
    <2>4. key' = Bare("")
      BY <1>1 DEF TakeCommand, PInv, TypeOK, WordsTaken
    <2>5. CASE More /\ \E t \in Types : Next1 = Bare(t)
      <3>1. PICK t \in Types : Next1 = Bare(t)
        BY <2>5
      <3>2. Bare(t).name = t
        BY DEF Bare
      <3>3. type' = t /\ pc' = "key"
        BY <1>1, <2>5, <3>1, <3>2 DEF TakeCommand
      <3>4. t # "INVALID"
        BY DEF Types
      <3> QED BY <1>0, <2>1, <2>2, <2>3, <2>4, <2>5, <3>1, <3>3, <3>4 DEF WordsTaken
    <2>6. CASE ~(More /\ \E t \in Types : Next1 = Bare(t))
      <3>1. type' = "INVALID" /\ pc' = "done"
        BY <1>1, <2>6 DEF TakeCommand
      <3> QED BY <1>0, <2>1, <2>2, <2>3, <2>6, <3>1 DEF WordsTaken
    <2> QED BY <2>5, <2>6
  <1>2. CASE TakeKey
    <2>1. read = 1 /\ fieldNames' = fieldNames /\ type' = type
      BY <1>2 DEF TakeKey, PInv, BeforeArguments
    <2>2. key' = IF Len(text) > 1 THEN text[2] ELSE Bare("")
      <3>1. key = Bare("")
        BY <1>2 DEF TakeKey, WordsTaken
      <3>2. More <=> Len(text) > 1
        BY <1>0, <2>1 DEF More
      <3>3. Next1 = text[2]
        BY <2>1 DEF Next1
      <3> QED BY <1>2, <3>1, <3>2, <3>3 DEF TakeKey
    <2>3. pc' = IF type = "GETALL" THEN "done" ELSE "arguments"
      BY <1>2 DEF TakeKey
    <2> QED BY <1>0, <1>2, <2>1, <2>2, <2>3 DEF WordsTaken, TakeKey
  <1>3. CASE TakePair
    BY <1>0, <1>3 DEF TakePair, WordsTaken
  <1>4. CASE TakeName
    BY <1>0, <1>4 DEF TakeName, WordsTaken
  <1>5. CASE TakeNoMore
    <2>1. read' = Len(text) /\ pc = "arguments" /\ pc' = "done"
      BY <1>0, <1>5 DEF TakeNoMore, More
    <2>2. UNCHANGED <<type, key, fieldNames>>
      BY <1>5 DEF TakeNoMore
    <2> QED BY <1>0, <2>1, <2>2 DEF WordsTaken
  <1>6. CASE Idle \/ UNCHANGED vars
    BY <1>6 DEF Idle, vars, WordsTaken
  <1> QED BY <1>1, <1>2, <1>3, <1>4, <1>5, <1>6 DEF Next

LEMMA NamesTakenStep == PInv /\ WordsTaken /\ NamesTaken /\ [Next]_vars => NamesTaken'
  <1> SUFFICES ASSUME PInv, WordsTaken, NamesTaken, [Next]_vars PROVE NamesTaken'
    OBVIOUS
  <1>0. /\ text' = text /\ read \in Nat /\ Len(text) \in Nat /\ read <= Len(text)
        /\ fieldNames \in Seq(Word)
    BY DEF PInv, TypeOK, Next, TakeCommand, TakeKey, TakePair, TakeName, TakeNoMore, Idle, vars
  <1>1. CASE TakeCommand \/ TakeKey
    <2>1. fieldNames' = <<>> /\ Rest(read') = 0
      BY <1>0, <1>1 DEF TakeCommand, TakeKey, PInv, BeforeArguments, Rest
    <2>2. \A k \in Nat : FirstPairs(text', read', k) => k = 0
      BY <2>1 DEF FirstPairs
    <2> QED BY <2>1, <2>2 DEF NamesTaken
  <1>2. CASE TakePair
    <2>1. /\ type = "SET_FIELDS" /\ type' = type /\ read >= 2 /\ read' = read + 1
          /\ Next1 = text[read + 1]
      BY <1>0, <1>2 DEF TakePair, More, PInv, BeforeArguments, Next1
    <2> SUFFICES ASSUME NEW k \in Nat, FirstPairs(text, read', k)
                 PROVE  /\ Len(fieldNames') = k
                        /\ \A i \in 1..k : fieldNames'[i] = Bare(text[i + 2].name)
      BY <1>0, <2>1 DEF NamesTaken
    <2>2. /\ Rest(read) = read - 2 /\ Rest(read') = read - 1 /\ read - 1 \in Nat
          /\ k \in 0..read - 1
          /\ \A i \in 1..k : text[i + 2].eq
          /\ \A i \in k + 1..read - 1 : ~text[i + 2].eq
      <3>1. Rest(read) = read - 2 /\ Rest(read') = read - 1 /\ read - 1 \in Nat
        BY <1>0, <2>1 DEF Rest
      <3> QED BY <3>1 DEF FirstPairs
    <2>3. Next1 = text[(read - 1) + 2]
      <3>1. (read - 1) + 2 = read + 1
        BY <1>0
      <3> QED BY <2>1, <3>1
    <2>4. CASE Next1.eq
      <3>1. k = read - 1
        <4>1. ~(read - 1 \in k + 1..read - 1)
          BY <2>2, <2>3, <2>4
        <4> QED BY <1>0, <2>2, <4>1
      <3>2. FirstPairs(text, read, read - 2) /\ read - 2 \in Nat
        BY <1>0, <2>1, <2>2, <3>1 DEF FirstPairs
      <3>3. /\ Len(fieldNames) = read - 2
            /\ \A i \in 1..read - 2 : fieldNames[i] = Bare(text[i + 2].name)
        BY <2>1, <3>2 DEF NamesTaken
      <3>4. fieldNames' = Append(fieldNames, Bare(Next1.name))
        BY <1>2, <2>4 DEF TakePair
      <3>5. ASSUME NEW i \in 1..k PROVE fieldNames'[i] = Bare(text[i + 2].name)
        <4>1. CASE i \in 1..read - 2
          BY <4>1, <1>0, <3>3, <3>4
        <4>2. CASE i = read - 1
          <5>1. i = Len(fieldNames) + 1
            BY <4>2, <1>0, <2>1, <3>3
          <5>2. fieldNames'[Len(fieldNames) + 1] = Bare(Next1.name)
            BY <1>0, <3>4
          <5> QED BY <4>2, <5>1, <5>2, <2>3
        <4> QED BY <4>1, <4>2, <1>0, <2>1, <3>1
      <3>6. Len(fieldNames') = k
        BY <1>0, <3>1, <3>3, <3>4
      <3> QED BY <3>5, <3>6
    <2>5. CASE ~Next1.eq
      <3>1. fieldNames' = fieldNames
        BY <1>2, <2>5 DEF TakePair
      <3>2. k # read - 1
        <4>1. k = read - 1 => read - 1 \in 1..k
          BY <1>0, <2>1, <2>2
        <4> QED BY <4>1, <2>2, <2>3, <2>5
      <3>3. FirstPairs(text, read, k)
        BY <1>0, <2>1, <2>2, <3>2 DEF FirstPairs
      <3> QED BY <2>1, <3>1, <3>3 DEF NamesTaken
    <2> QED BY <2>4, <2>5
  <1>3. CASE TakeName
    <2>1. /\ type = "GET_FIELDS" /\ type' = type /\ read >= 2 /\ read' = read + 1
          /\ fieldNames' = Append(fieldNames, text[read + 1])
      BY <1>0, <1>3 DEF TakeName, More, PInv, BeforeArguments, Next1
    <2>2. Rest(read) = read - 2 /\ Rest(read') = Rest(read) + 1
      BY <1>0, <2>1 DEF Rest
    <2>3. /\ Len(fieldNames) = read - 2
          /\ \A i \in 1..read - 2 : fieldNames[i] = text[i + 2]
      BY <2>1, <2>2 DEF NamesTaken
    <2>4. ASSUME NEW i \in 1..Rest(read') PROVE fieldNames'[i] = text[i + 2]
      <3>1. CASE i \in 1..read - 2
        BY <3>1, <1>0, <2>1, <2>3
      <3>2. CASE i = read - 1
        <4>1. i = Len(fieldNames) + 1 /\ i + 2 = read + 1
          BY <3>2, <1>0, <2>3
        <4>2. fieldNames'[Len(fieldNames) + 1] = text[read + 1]
          BY <1>0, <2>1
        <4> QED BY <4>1, <4>2
      <3>3. Rest(read') = read - 1
        BY <1>0, <2>1, <2>2
      <3> QED BY <3>1, <3>2, <3>3, <1>0
    <2>5. Len(fieldNames') = Rest(read')
      BY <1>0, <2>1, <2>2, <2>3
    <2> QED BY <1>0, <2>1, <2>4, <2>5 DEF NamesTaken
  <1>4. CASE TakeNoMore \/ Idle \/ UNCHANGED vars
    BY <1>4 DEF TakeNoMore, Idle, vars, NamesTaken
  <1> QED BY <1>1, <1>2, <1>3, <1>4 DEF Next

\* Where the words w assign field t.
Assigning(w, t) == {i \in 3..Len(w) : w[i].eq /\ w[i].name = t}

\* What a valid request of type ty, key k, fields fs and names ns has of its words.
Parsed(w, ty, k, fs, ns) ==
  /\ ty \in Types /\ Len(w) > 0 /\ w[1] = Bare(ty)
  /\ k = IF Len(w) > 1 THEN w[2] ELSE Bare("")
  /\ \A t \in Token :
       fs[t] = IF ty # "SET_FIELDS" \/ Assigning(w, t) = {} THEN Nil
               ELSE Unquote(w[Max(Assigning(w, t))].value)
  /\ ty = "GETALL" => ns = <<>>
  /\ ty = "GET_FIELDS" => /\ Len(ns) = Rest(Len(w))
                          /\ \A i \in 1..Rest(Len(w)) : ns[i] = w[i + 2]
  /\ ty = "SET_FIELDS" =>
       {ns[i] : i \in 1..Len(ns)} = {Bare(t) : t \in {u \in Token : fs[u] # Nil}}
  /\ ty = "SET_FIELDS" =>
       \A n \in Nat : FirstPairs(w, Len(w), n) =>
         Len(ns) = n /\ \A i \in 1..n : ns[i] = Bare(w[i + 2].name)

LEMMA ParsedWhenDone ==
  ASSUME PInv, WordsTaken, NamesTaken, pc = "done", type # "INVALID"
  PROVE  Parsed(text, type, key, fields, fieldNames)
  <1>1. type \in Types
    BY DEF PInv, TypeOK
  <1>2. type # "GETALL" => read = Len(text)
    BY <1>1 DEF WordsTaken, Types
  <1>3. type = "SET_FIELDS" => \A t \in Token : Assignments(t) = Assigning(text, t)
    BY <1>2 DEF Assignments, Assigning
  <1>4. \A t \in Token :
          fields[t] = IF type # "SET_FIELDS" \/ Assigning(text, t) = {} THEN Nil
                      ELSE Unquote(text[Max(Assigning(text, t))].value)
    BY <1>3 DEF PInv, LastAssignmentWins
  <1>5. Len(text) > 0 /\ text[1] = Bare(type)
        /\ key = IF Len(text) > 1 THEN text[2] ELSE Bare("")
    BY DEF WordsTaken
  <1>6. type = "GETALL" => fieldNames = <<>>
    BY DEF WordsTaken
  <1>7. type = "SET_FIELDS" =>
          {fieldNames[i] : i \in 1..Len(fieldNames)} =
            {Bare(t) : t \in {u \in Token : fields[u] # Nil}}
    BY DEF PInv, NamesAreFields
  <1>8. type = "GET_FIELDS" => /\ Len(fieldNames) = Rest(Len(text))
                               /\ \A i \in 1..Rest(Len(text)) : fieldNames[i] = text[i + 2]
    BY <1>2 DEF NamesTaken
  <1>9. type = "SET_FIELDS" =>
          \A n \in Nat : FirstPairs(text, Len(text), n) =>
            Len(fieldNames) = n /\ \A i \in 1..n : fieldNames[i] = Bare(text[i + 2].name)
    BY <1>2 DEF NamesTaken
  <1> QED BY <1>1, <1>4, <1>5, <1>6, <1>7, <1>8, <1>9 DEF Parsed

\* The Request of any text, of any length and however meant, is what its words
\* say: which one is the command and which the key, what the last '=' gives each
\* field, which names there are and in which order (Protocol::deserialize).
THEOREM DeserializesWords ==
  Spec => [](pc = "done" /\ type # "INVALID" => Parsed(text, type, key, fields, fieldNames))
  <1>1. PInv /\ WordsTaken /\ NamesTaken /\ pc = "done" /\ type # "INVALID" =>
          Parsed(text, type, key, fields, fieldNames)
    BY ParsedWhenDone
  <1> QED BY <1>1, ParserInvariant, WordsTakenInit, WordsTakenStep, NamesTakenStep, PTL DEF Spec

-----------------------------------------------------------------------------
\* The text of a command that was meant stays what the client wrote.
AsWritten == meant # Nil => text = Write(meant)

LEMMA AsWrittenKept == (Init => AsWritten) /\ (AsWritten /\ [Next]_vars => AsWritten')
  <1>1. Init => AsWritten
    BY NilAssumption DEF Init, AsWritten
  <1>2. [Next]_vars => UNCHANGED <<text, meant>>
    BY DEF Next, TakeCommand, TakeKey, TakePair, TakeName, TakeNoMore, Idle, vars
  <1> QED BY <1>1, <1>2 DEF AsWritten

\* The quotes around a value of one word go, and nothing goes that was not a quote.
LEMMA UnquotePair ==
  ASSUME NEW a \in Argument
  PROVE  Unquote(PairOf(a).value) = Plain(a.words[1])
  <1>1. a.quoted \in BOOLEAN
    BY DEF Argument
  <1> QED BY <1>1 DEF Unquote, PairOf, Plain

\* The last word that assigns field t is that of the last argument for t.
LEMMA LastArgument ==
  ASSUME NEW c \in Commands, OneWordEach(c), c.type = "SET_FIELDS", NEW t \in Token
  PROVE  /\ Assigning(Write(c), t) = {} <=> For(c, t) = {}
         /\ For(c, t) # {} =>
              /\ Max(For(c, t)) \in For(c, t)
              /\ Max(Assigning(Write(c), t)) = Max(For(c, t)) + 2
  <1> DEFINE n == Len(c.args)
             w == Write(c)
  <1>1. n \in Nat /\ Len(w) = n + 2
    BY WordsWritten
  <1>2. ASSUME NEW i \in 1..n PROVE w[i + 2] = PairOf(c.args[i])
    BY <1>2, WordsWritten DEF ArgumentWords
  <1>3. ASSUME NEW i \in 1..n PROVE i + 2 \in Assigning(w, t) <=> i \in For(c, t)
    <2>0. PairOf(c.args[i]).eq = TRUE /\ PairOf(c.args[i]).name = c.args[i].field
      BY Zenon DEF PairOf
    <2>1. w[i + 2].eq = TRUE /\ w[i + 2].name = c.args[i].field
      <3>1. w[i + 2] = PairOf(c.args[i])
        BY <1>2
      <3> QED BY <2>0, <3>1, Zenon
    <2>2. i + 2 \in 3..Len(w)
      BY <1>1
    <2> QED BY <2>1, <2>2 DEF Assigning, For
  <1>4. \A i \in Assigning(w, t) : i - 2 \in For(c, t)
    <2> SUFFICES ASSUME NEW i \in Assigning(w, t) PROVE i - 2 \in For(c, t)
      OBVIOUS
    <2>1. i \in 3..n + 2
      BY <1>1 DEF Assigning
    <2>2. i - 2 \in 1..n /\ (i - 2) + 2 = i
      BY <1>1, <2>1
    <2> QED BY <1>3, <2>2
  <1>5. For(c, t) \subseteq 1..n /\ Assigning(w, t) \subseteq 3..n + 2
    BY <1>1 DEF For, Assigning
  <1>6. Assigning(w, t) = {} <=> For(c, t) = {}
    BY <1>3, <1>4, <1>5
  <1>7. ASSUME For(c, t) # {}
        PROVE  Max(For(c, t)) \in For(c, t) /\ Max(Assigning(w, t)) = Max(For(c, t)) + 2
    <2> DEFINE F == For(c, t)
    <2>1. PICK m \in F : \A i \in F : i <= m
      <3> DEFINE T == {n - i : i \in F}
      <3>1. T \in SUBSET Nat /\ T # {}
        BY <1>1, <1>5, <1>7
      <3>2. PICK k \in T : \A u \in T : k <= u
        <4> HIDE DEF T
        <4> QED BY <3>1, LeastOf
      <3>3. PICK m \in F : k = n - m
        OBVIOUS
      <3>4. ASSUME NEW i \in F PROVE i <= m
        <4>1. n - i \in T
          OBVIOUS
        <4>2. n - m <= n - i
          BY <3>2, <3>3, <4>1
        <4>3. i \in Nat /\ m \in Nat
          BY <1>5
        <4> QED BY <1>1, <4>2, <4>3
      <3> QED BY <3>4
    <2>2. F \in SUBSET Nat /\ m \in Nat /\ m \in 1..n
      BY <1>5
    <2>3. Max(F) = m
      <3> HIDE DEF F
      <3> QED BY <2>1, <2>2, MaxIs
    <2>4. m + 2 \in Assigning(w, t)
      BY <1>3, <2>2
    <2>5. ASSUME NEW i \in Assigning(w, t) PROVE i <= m + 2
      <3>1. i - 2 <= m
        BY <1>4, <2>1
      <3>2. i \in Nat
        BY <1>5
      <3> QED BY <3>1, <3>2, <2>2
    <2>6. Assigning(w, t) \in SUBSET Nat
      BY <1>5
    <2>7. Max(Assigning(w, t)) = m + 2
      BY <2>4, <2>5, <2>6, MaxIs
    <2> QED BY <2>3, <2>7
  <1> QED BY <1>6, <1>7

\* A command whose values are one word each is understood as it was meant, with
\* quotes or without, whatever the tokens, the number of its arguments and how
\* often it names a field (Protocol::deserialize).
THEOREM Understands == Spec => []OneWordUnderstood
  <1>1. ASSUME PInv, WordsTaken, NamesTaken, AsWritten PROVE OneWordUnderstood
    <2> SUFFICES ASSUME pc = "done", meant # Nil, OneWordEach(meant) PROVE Understood(meant)
      BY DEF OneWordUnderstood
    <2> DEFINE c == meant
               n == Len(c.args)
    <2>1. c \in Commands /\ text = Write(c)
      BY <1>1 DEF PInv, TypeOK, AsWritten
    <2>2. /\ n \in Nat /\ Len(text) = n + 2
          /\ text[1] = Bare(c.type) /\ text[2] = Bare(c.key) /\ c.type \in Types
          /\ \A i \in 1..n : text[i + 2] = ArgumentWords(c)[i]
      BY <2>1, WordsWritten, CommandsAssumption
    <2>3. type # "INVALID"
      <3>1. Len(text) > 0 /\ \E t \in Types : text[1] = Bare(t)
        BY <2>2
      <3> QED BY <1>1, <3>1 DEF WordsTaken
    <2>4. Parsed(text, type, key, fields, fieldNames)
      BY <1>1, <2>3, ParsedWhenDone
    <2>5. type = c.type /\ key = Bare(c.key)
      <3>1. Bare(type).name = type /\ Bare(c.type).name = c.type
        BY DEF Bare
      <3>2. Len(text) > 1
        BY <2>2
      <3>3. Bare(type) = Bare(c.type)
        BY <2>2, <2>4 DEF Parsed
      <3>4. key = Bare(c.key)
        BY <2>2, <2>4, <3>2 DEF Parsed
      <3> QED BY <3>1, <3>3, <3>4
    <2>6. ASSUME c.type = "SET_FIELDS", NEW t \in Token
          PROVE  IF For(c, t) = {} THEN fields[t] = Nil
                 ELSE LET words == c.args[Max(For(c, t))].words IN
                      Len(words) = 1 /\ fields[t] = Plain(words[1])
      <3>1. /\ Assigning(text, t) = {} <=> For(c, t) = {}
            /\ For(c, t) # {} =>
                 /\ Max(For(c, t)) \in For(c, t)
                 /\ Max(Assigning(text, t)) = Max(For(c, t)) + 2
        BY <2>1, <2>6, LastArgument
      <3>2. fields[t] = IF Assigning(text, t) = {} THEN Nil
                        ELSE Unquote(text[Max(Assigning(text, t))].value)
        BY <2>4, <2>5, <2>6 DEF Parsed
      <3>3. CASE For(c, t) = {}
        BY <3>1, <3>2, <3>3
      <3>4. CASE For(c, t) # {}
        <4> DEFINE m == Max(For(c, t))
                   a == c.args[m]
        <4>1. m \in 1..n
          BY <3>1, <3>4 DEF For
        <4>2. a \in Argument
          BY <2>1, <2>6, <4>1, CommandsAssumption
        <4>3. Len(a.words) = 1
          BY <2>6, <4>1 DEF OneWordEach
        <4>4. text[m + 2] = PairOf(a)
          BY <2>2, <2>6, <4>1 DEF ArgumentWords
        <4>5. fields[t] = Unquote(PairOf(a).value)
          BY <3>1, <3>2, <3>4, <4>4
        <4>6. fields[t] = Plain(a.words[1])
          BY <4>2, <4>5, UnquotePair
        <4> QED BY <3>4, <4>3, <4>6
      <3> QED BY <3>3, <3>4
    <2>7. ASSUME c.type = "GET_FIELDS"
          PROVE  fieldNames = [i \in 1..n |-> Bare(c.args[i])]
      <3>1. Rest(Len(text)) = n
        BY <2>2 DEF Rest
      <3>2. Len(fieldNames) = n /\ \A i \in 1..n : fieldNames[i] = text[i + 2]
        BY <2>4, <2>5, <2>7, <3>1 DEF Parsed
      <3>3. \A i \in 1..n : fieldNames[i] = Bare(c.args[i])
        BY <2>2, <2>7, <3>2 DEF ArgumentWords
      <3>4. fieldNames = [i \in 1..n |-> fieldNames[i]]
        BY <1>1, <3>2, LenProperties DEF PInv, TypeOK
      <3> QED BY <3>3, <3>4
    <2> QED BY <2>5, <2>6, <2>7 DEF Understood
  <1>2. PInv /\ WordsTaken /\ NamesTaken /\ AsWritten => OneWordUnderstood
    BY <1>1
  <1> QED BY <1>2, ParserInvariant, WordsTakenInit, WordsTakenStep, NamesTakenStep,
             AsWrittenKept, PTL DEF Spec
=============================================================================
