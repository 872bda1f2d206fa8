--------------------------- MODULE ProtobufPerson ---------------------------
(***************************************************************************)
(* The class Person that protoc generated (src/include/final.pb.h and      *)
(* final.pb.cc), as far as Protobuf::serialize uses it: the setters, the   *)
(* size that ByteSizeLong announces and what _InternalSerialize writes.    *)
(* The syntax is proto3: there are no has-bits, and an empty string is not *)
(* written.  Of a string only the length is kept.                          *)
(***************************************************************************)
EXTENDS FiniteSetsExt, Naturals, SequencesExt

CONSTANT N  \* members of the message; 11 in the program

Ids == 1..N

\* The constructor, and set_a ... set_k.
NewPerson == [id \in Ids |-> 0]
Set(p, id, n) == [p EXCEPT ![id] = n]

\* Bytes of a number on the wire, seven bits to a byte, so one more from each power
\* of 128 on; it has 32 bits.
VarintSize(n) == 1 + Cardinality({power \in {128, 16384, 2097152, 268435456} : n >= power})

\* A tag of one byte, and what WireFormatLite::StringSize says, for each member
\* that is not empty.
ByteSizeLong(p) ==
  MapThenSumSet(LAMBDA id : 1 + VarintSize(p[id]) + p[id], {id \in Ids : p[id] # 0})

\* The fields that _InternalSerialize writes, in the order of their numbers.
InternalSerialize(p) ==
  FlattenSeq([id \in Ids |-> IF p[id] = 0 THEN <<>>
                             ELSE <<[number |-> id, length |-> p[id]]>>])

\* WriteStringMaybeAliased: the tag with wire type 2, the length, the bytes.
Written(fields) ==
  FoldLeft(LAMBDA n, f : n + VarintSize(8 * f.number + 2) + VarintSize(f.length) + f.length,
           0, fields)

\* The client's parser, with the numbers of the table _table_: the last field of
\* a number counts, and a member without a field is empty.
Parse(fields) ==
  FoldLeft(LAMBDA p, f : Set(p, f.number, f.length), NewPerson, fields)
=============================================================================
