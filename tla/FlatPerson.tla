----------------------------- MODULE FlatPerson -----------------------------
(***************************************************************************)
(* The table Person that flatc generated (src/include/final_generated.h),  *)
(* as far as FlatBuffers::serialize uses it: PersonBuilder, CreatePerson   *)
(* and the accessors a client reads with.  Strings are in the buffer when  *)
(* the table is made, and the table has the offset of each, or nothing;    *)
(* the accessors find it through the vtable.                               *)
(***************************************************************************)
EXTENDS Naturals, SequencesExt

CONSTANT N  \* members of the table; 11 in the program

Ids == 1..N

\* VT_A = 4, VT_B = 6, ...: where the vtable has the member.
VT(id) == 2 * id + 2

VTable == {VT(id) : id \in Ids}
StartTable == [vt \in VTable |-> 0]

\* FlatBufferBuilder::AddOffset: a null offset leaves the member out.
AddOffset(table, vt, offset) ==
  IF offset = 0 THEN table ELSE [table EXCEPT ![vt] = offset]

\* CreatePerson adds the last member first.
CreatePerson(offsets) ==
  FoldRight(LAMBDA id, table : AddOffset(table, VT(id), offsets[id]),
            [id \in Ids |-> id], StartTable)

\* Mutant of Get: the accessors have the place of the first member.
GetFirst(table, id) == table[VT(1)]

\* a(), b(), d(), ...: the offset of the string, 0 for a null pointer.
Get(table, id) == table[VT(id)]
=============================================================================
