---------------------------- MODULE Serializers -----------------------------
(***************************************************************************)
(* The serializers with a fixed message: MuSer (src/muSer.cpp), Protobuf   *)
(* and FlatBuffers (src/ext-serializers/).  The message has a place for    *)
(* ten fields of the record, by name, and the last for the key; the class  *)
(* of the message is generated, a different one for each.  Of a string     *)
(* only the length is kept.                                                *)
(***************************************************************************)
EXTENDS Person

CONSTANTS
  Lens,    \* lengths of the values
  KeyLen   \* length of the key with its newline

ASSUME SerializersAssumption == Lens \subseteq Nat /\ KeyLen \in Nat \ {0}

\* ByteSizeLong counts one byte for a tag, whatever the number of the member.
ASSUME TagAssumption == N <= 15

PB == INSTANCE ProtobufPerson
FB == INSTANCE FlatPerson

Kinds == {"MuSer", "PROTOBUF", "FlatBuffers"}

Names == 1..N - 1   \* "field1" ... "field9", "field0"
Other == N          \* a field with any other name

\* What was read of the strings of a Response, in the order of the names.
Records == UNION {[1..n -> Lens] : n \in 0..N - 1}

\* What the setters get: the fields, as they were read or all of them empty, and
\* the key.  Protobuf leaves out the newline of the key if there are fields.
Args(kind, fields) ==
  LET none == DOMAIN fields = {}
      key  == IF kind = "PROTOBUF" /\ ~none THEN KeyLen - 1 ELSE KeyLen
  IN  [id \in Ids |-> IF id = N THEN key ELSE IF none THEN 0 ELSE fields[id]]

Each == [id \in Ids |-> id]

\* MuSer's setters get a temporary copy of each string: its length stays in the
\* message, the bytes it stood for are gone when the message is written.
MuSerMessage(args)    == FoldLeft(LAMBDA p, id : SetField(p, id, args[id]), NewPerson, Each)
ProtobufMessage(args) == FoldLeft(LAMBDA p, id : PB!Set(p, id, args[id]), PB!NewPerson, Each)

\* CreateString puts each string into the buffer, the empty ones, too.
FlatMessage(args) == [strings |-> args, table |-> FB!CreatePerson(Each)]

Message(kind, args) ==
  CASE kind = "MuSer"       -> MuSerMessage(args)
    [] kind = "PROTOBUF"    -> ProtobufMessage(args)
    [] kind = "FlatBuffers" -> FlatMessage(args)

\* What a client finds at id in the message it received.
Received(kind, p, id) ==
  CASE kind = "MuSer"       -> p.len[id]
    [] kind = "PROTOBUF"    -> PB!Parse(PB!InternalSerialize(p))[id]
    [] kind = "FlatBuffers" -> p.strings[FB!Get(p.table, id)]

\* What serialize returns: the size, or -1 for a message that was not sent.
\* Protobuf asks only for the size.
Result(kind, sent) == IF sent \/ kind = "PROTOBUF" THEN "size" ELSE "-1"
=============================================================================
