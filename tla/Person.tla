------------------------------- MODULE Person -------------------------------
(***************************************************************************)
(* The message class of src/include/Person.hpp: its setters and what its   *)
(* three ways to write it put on the wire.  Every member is a string here, *)
(* set by the setter of its own; the class has none for the other kinds.   *)
(* Of a string only the length is kept: the class holds a pointer that the *)
(* caller may have to keep alive, and reads the bytes when it writes.      *)
(***************************************************************************)
EXTENDS FiniteSetsExt, Naturals, SequencesExt

CONSTANT N  \* members of the message; 11 in the program

ASSUME NAssumption == N \in 1..32   \* getMask: the bitmap has 32 bits

Ids == 1..N

\* bitmap_ as the set of ids that are present, and len_ of each value.
Person == [bitmap : SUBSET Ids, len : [Ids -> Nat]]

\* The constructor, and set_field1 ... set_field11.
NewPerson == [bitmap |-> {}, len |-> [id \in Ids |-> 0]]

\* Mutant of SetField: getMask counts from 0.
SetFieldFromZero(p, id, n) == [p EXCEPT !.bitmap = @ \cup {id - 1}, !.len[id] = n]

SetField(p, id, n) == [p EXCEPT !.bitmap = @ \cup {id}, !.len[id] = n]

-----------------------------------------------------------------------------
(* What is written: parts, each of them bytes of one member or four bytes of *)
(* the object itself.                                                       *)

Part == [what : {"bitmap", "len", "bytes"}, id : 0..N]

Bitmap    == [what |-> "bitmap", id |-> 0]
Length(i) == [what |-> "len", id |-> i]
Bytes(i)  == [what |-> "bytes", id |-> i]

Size(p, part) == IF part.what = "bytes" THEN p.len[part.id] ELSE 4

\* The loop over values_, alike in serializeAndWriteCOPY, SG and ZC.  SG, which
\* nothing calls, then asserts that it comes to BUFFER_SIZE bytes.
Parts(p) ==
  <<Bitmap>> \o
  FlattenSeq([id \in Ids |-> IF id \in p.bitmap THEN <<Length(id), Bytes(id)>> ELSE <<>>])

\* Header and bytes of each member that is present.
GetIOVecLen(p) == 2 * Cardinality(p.bitmap)

\* Mutant of GetBufLen: the length of a value takes no room.
GetBufLenBytes(p) == MapThenSumSet(LAMBDA id : p.len[id], p.bitmap)

GetBufLen(p) == MapThenSumSet(LAMBDA id : 4 + p.len[id], p.bitmap)

\* COPY allocates this much and writes all of it ...
BufSize(p) == 4 + GetBufLen(p)
Offset(p)  == FoldLeft(LAMBDA n, part : n + Size(p, part), 0, Parts(p))

\* ... SG and ZC have an array of this many entries and send all of it.
IOVLen(p) == 1 + GetIOVecLen(p)

-----------------------------------------------------------------------------
(* The reader of the wire format: "<len, bytes...>" for every bit that is   *)
(* set, from the lowest on.  It takes as many bytes as a length says, so a  *)
(* length must be in front of its own bytes.                                *)

Readable(p, parts) ==
  LET Rank(id) == Cardinality({i \in p.bitmap : i <= id}) IN
  /\ Len(parts) = 1 + 2 * Cardinality(p.bitmap)
  /\ parts[1] = Bitmap
  /\ \A id \in p.bitmap :
       parts[2 * Rank(id)] = Length(id) /\ parts[2 * Rank(id) + 1] = Bytes(id)
=============================================================================
