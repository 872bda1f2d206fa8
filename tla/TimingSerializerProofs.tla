----------------------- MODULE TimingSerializerProofs -----------------------
(* Proofs about module TimingSerializer, for any number of connections,      *)
(* replies, starts and deaths: the types, with the message that MuSer makes  *)
(* of a record; the Logger, whose steps the process takes, so what is proved *)
(* of any use of it holds here; the rows of the CSV file; and the two files  *)
(* together.                                                                 *)
EXTENDS TimingSerializer, SequenceLemmas

LP == INSTANCE LoggerProofs WITH Thread <- Conn, Text <- 1..MaxReplies,
                                 File <- {LogName}

-----------------------------------------------------------------------------
(* The messages: each serializer gives every member its own argument.       *)

LEMMA IdsAre == N \in Nat /\ N # 0 /\ Ids = 1..N /\ PB!Ids = 1..N /\ FB!Ids = 1..N /\ IsFiniteSet(Ids)
<1>1. N \in Nat /\ N # 0 /\ Ids = 1..N /\ PB!Ids = 1..N /\ FB!Ids = 1..N
  BY NAssumption DEF Ids, PB!Ids, FB!Ids
<1>2. IsFiniteSet(1..N)
  BY <1>1, FS_Interval
<1>3. QED
  BY <1>1, <1>2

LEMMA EachIs == DOMAIN Each = Ids /\ \A id \in Ids : Each[id] = id
BY DEF Each

LEMMA LastId ==
  ASSUME NEW s \in SUBSET Ids, s # {}
  PROVE  Max(s) \in s /\ Max(s) \in Ids /\ Each[Max(s)] = Max(s)
<1>1. Max(s) \in s
  BY IdsAre, GreatestOf
<1>2. QED
  BY <1>1, EachIs

(* What the fold over the setters is: f is a function on sets of members,    *)
(* and f[s] is the message after the setters of s, from the lowest on.       *)
SetAll(f, args) ==
  f = [s \in SUBSET (DOMAIN Each) |->
         IF s = {} THEN NewPerson
         ELSE SetField(f[s \ {Max(s)}], Each[Max(s)], args[Each[Max(s)]])]

LEMMA MessageUnfolded ==
  ASSUME NEW args
  PROVE  MuSerMessage(args) = (CHOOSE f : SetAll(f, args))[DOMAIN Each]
BY DEF MuSerMessage, FoldLeft, MapThenFoldSet, SetAll

LEMMA SetAllAt ==
  ASSUME NEW f, NEW args, SetAll(f, args)
  PROVE  /\ f[{}] = NewPerson
         /\ \A s \in SUBSET Ids : s # {} =>
              f[s] = SetField(f[s \ {Max(s)}], Max(s), args[Max(s)])
<1>1. f = [s \in SUBSET Ids |->
             IF s = {} THEN NewPerson
             ELSE SetField(f[s \ {Max(s)}], Each[Max(s)], args[Each[Max(s)]])]
  BY EachIs DEF SetAll
<1>2. f[{}] = NewPerson
  BY <1>1
<1>3. ASSUME NEW s \in SUBSET Ids, s # {}
      PROVE  f[s] = SetField(f[s \ {Max(s)}], Max(s), args[Max(s)])
  <2>1. f[s] = SetField(f[s \ {Max(s)}], Each[Max(s)], args[Each[Max(s)]])
    BY <1>1, <1>3
  <2>2. Each[Max(s)] = Max(s)
    BY <1>3, LastId
  <2>3. QED
    BY <2>1, <2>2
<1>4. QED
  BY <1>2, <1>3

\* A message with the members of s.
Filled(args, s) == [bitmap |-> s, len |-> [id \in Ids |-> IF id \in s THEN args[id] ELSE 0]]

\* A setter sets the bit and the length of one member.
LEMMA SetFieldIs ==
  ASSUME NEW p \in Person, NEW id \in Ids, NEW n \in Nat
  PROVE  SetField(p, id, n) = [bitmap |-> p.bitmap \cup {id}, len |-> [p.len EXCEPT ![id] = n]]
<1> DEFINE q == [p EXCEPT !.bitmap = p.bitmap \cup {id}]
<1>1. q = [bitmap |-> p.bitmap \cup {id}, len |-> p.len]
  BY DEF Person
<1>2. SetField(p, id, n) = [q EXCEPT !.len = [q.len EXCEPT ![id] = n]]
  BY DEF SetField
<1> HIDE DEF q
<1>3. QED
  BY <1>1, <1>2

LEMMA FillOne ==
  ASSUME NEW args \in [Ids -> Nat], NEW s \in SUBSET Ids, NEW m \in s
  PROVE  SetField(Filled(args, s \ {m}), m, args[m]) = Filled(args, s)
<1> DEFINE p == Filled(args, s \ {m})
<1>1. p \in Person /\ m \in Ids /\ args[m] \in Nat
  BY DEF Filled, Person
<1>2. p.bitmap \cup {m} = s
  BY DEF Filled
<1>3. [p.len EXCEPT ![m] = args[m]] = [id \in Ids |-> IF id \in s THEN args[id] ELSE 0]
  BY DEF Filled
<1> HIDE DEF p
<1>4. SetField(p, m, args[m]) = [bitmap |-> p.bitmap \cup {m}, len |-> [p.len EXCEPT ![m] = args[m]]]
  BY <1>1, SetFieldIs
<1>5. SetField(p, m, args[m]) = Filled(args, s)
  BY <1>2, <1>3, <1>4 DEF Filled
<1>6. QED
  BY <1>5 DEF p

(* The setters of MuSer.                                                    *)
LEMMA MuSerFills ==
  ASSUME NEW args \in [Ids -> Nat]
  PROVE  MuSerMessage(args) = [bitmap |-> Ids, len |-> args]
<1> DEFINE g == [s \in SUBSET Ids |-> Filled(args, s)]
<1>1. g[{}] = NewPerson
  BY DEF Filled, NewPerson
<1>2. ASSUME NEW s \in SUBSET Ids, s # {}
      PROVE  Max(s) \in s /\ g[s] = SetField(g[s \ {Max(s)}], Max(s), args[Max(s)])
  BY <1>2, LastId, FillOne
<1>3. SetAll(g, args)
  <2>1. g = [s \in SUBSET (DOMAIN Each) |-> g[s]]
    BY EachIs
  <2>2. ASSUME NEW s \in SUBSET (DOMAIN Each), s # {}
        PROVE  g[s] = SetField(g[s \ {Max(s)}], Each[Max(s)], args[Each[Max(s)]])
    <3>1. s \in SUBSET Ids
      BY EachIs
    <3> HIDE DEF g
    <3>2. QED
      BY <1>2, <2>2, <3>1, LastId
  <2> HIDE DEF g
  <2>3. QED
    BY <1>1, <2>1, <2>2 DEF SetAll
<1> HIDE DEF g
<1>4. PICK f : f = (CHOOSE h : SetAll(h, args)) /\ SetAll(f, args)
  BY <1>3
<1>5. ASSUME NEW s \in SUBSET Ids, s # {}
      PROVE  \E x \in s : f[s \ {x}] = g[s \ {x}] => f[s] = g[s]
  <2>1. f[s] = SetField(f[s \ {Max(s)}], Max(s), args[Max(s)])
    BY <1>4, <1>5, SetAllAt
  <2>2. QED
    BY <1>2, <1>5, <2>1
<1>6. \A s \in SUBSET Ids : f[s] = g[s]
  <2>1. f[{}] = g[{}]
    BY <1>1, <1>4, SetAllAt
  <2>2. IsFiniteSet(Ids)
    BY IdsAre
  <2>3. Steps(f, g, Ids)
    BY <1>5 DEF Steps
  <2>4. QED
    BY <2>1, <2>2, <2>3, SameFold
<1>7. MuSerMessage(args) = g[Ids]
  BY <1>4, <1>6, EachIs, MessageUnfolded
<1>8. QED
  BY <1>7 DEF g, Filled

(* The setters of Protobuf.                                                 *)
SetEach(f, args) ==
  f = [s \in SUBSET (DOMAIN Each) |->
         IF s = {} THEN PB!NewPerson
         ELSE PB!Set(f[s \ {Max(s)}], Each[Max(s)], args[Each[Max(s)]])]

LEMMA ProtobufUnfolded ==
  ASSUME NEW args
  PROVE  ProtobufMessage(args) = (CHOOSE f : SetEach(f, args))[DOMAIN Each]
BY DEF ProtobufMessage, FoldLeft, MapThenFoldSet, SetEach

\* The lengths of the members of s.
Some(args, s) == [id \in Ids |-> IF id \in s THEN args[id] ELSE 0]

LEMMA SomeMore ==
  ASSUME NEW args \in [Ids -> Nat], NEW s \in SUBSET Ids, NEW m \in s
  PROVE  PB!Set(Some(args, s \ {m}), m, args[m]) = Some(args, s)
<1> DEFINE p == Some(args, s \ {m})
<1>1. [p EXCEPT ![m] = args[m]] = Some(args, s)
  BY DEF Some
<1>2. QED
  BY <1>1 DEF PB!Set

LEMMA ProtobufFills ==
  ASSUME NEW args \in [Ids -> Nat]
  PROVE  ProtobufMessage(args) = args
<1> DEFINE g == [s \in SUBSET Ids |-> Some(args, s)]
<1>1. g[{}] = PB!NewPerson
  BY IdsAre DEF Some, PB!NewPerson
<1>2. ASSUME NEW s \in SUBSET Ids, s # {}
      PROVE  /\ Max(s) \in s
             /\ g[s] = PB!Set(g[s \ {Max(s)}], Max(s), args[Max(s)])
  BY <1>2, LastId, SomeMore
<1>3. SetEach(g, args)
  <2>1. g = [s \in SUBSET (DOMAIN Each) |-> g[s]]
    BY EachIs
  <2>2. ASSUME NEW s \in SUBSET (DOMAIN Each), s # {}
        PROVE  g[s] = PB!Set(g[s \ {Max(s)}], Each[Max(s)], args[Each[Max(s)]])
    <3>1. s \in SUBSET Ids
      BY EachIs
    <3> HIDE DEF g
    <3>2. QED
      BY <1>2, <2>2, <3>1, LastId
  <2> HIDE DEF g
  <2>3. QED
    BY <1>1, <2>1, <2>2 DEF SetEach
<1> HIDE DEF g
<1>4. PICK f : f = (CHOOSE h : SetEach(h, args)) /\ SetEach(f, args)
  BY <1>3
<1>5. f = [s \in SUBSET Ids |->
             IF s = {} THEN PB!NewPerson
             ELSE PB!Set(f[s \ {Max(s)}], Each[Max(s)], args[Each[Max(s)]])]
  BY <1>4, EachIs DEF SetEach
<1>6. f[{}] = g[{}]
  BY <1>1, <1>5
<1>7. ASSUME NEW s \in SUBSET Ids, s # {}
      PROVE  \E x \in s : f[s \ {x}] = g[s \ {x}] => f[s] = g[s]
  <2>1. f[s] = PB!Set(f[s \ {Max(s)}], Each[Max(s)], args[Each[Max(s)]])
    BY <1>5, <1>7
  <2>2. Each[Max(s)] = Max(s)
    BY <1>7, LastId
  <2>3. QED
    BY <1>2, <1>7, <2>1, <2>2
<1>8. \A s \in SUBSET Ids : f[s] = g[s]
  <2>1. Steps(f, g, Ids) /\ IsFiniteSet(Ids)
    BY <1>7, IdsAre DEF Steps
  <2>2. QED
    BY <1>6, <2>1, SameFold
<1>9. ProtobufMessage(args) = g[Ids]
  BY <1>4, <1>8, EachIs, ProtobufUnfolded
<1>10. g[Ids] = args
  BY DEF g, Some
<1>11. QED
  BY <1>9, <1>10

(* The table of FlatBuffers: the members of s have their places.            *)
AddAll(f) ==
  f = [s \in SUBSET (DOMAIN [id \in FB!Ids |-> id]) |->
         IF s = {} THEN FB!StartTable
         ELSE FB!AddOffset(f[s \ {FB!Min(s)}], FB!VT([id \in FB!Ids |-> id][FB!Min(s)]),
                           Each[[id \in FB!Ids |-> id][FB!Min(s)]])]

LEMMA TableUnfolded ==
  FB!CreatePerson(Each) = (CHOOSE f : AddAll(f))[DOMAIN [id \in FB!Ids |-> id]]
BY DEF FB!CreatePerson, FB!FoldRight, FB!MapThenFoldSet, AddAll

Placed(s) ==
  [vt \in FB!VTable |-> IF \E id \in s : vt = FB!VT(id) THEN CHOOSE id \in s : vt = FB!VT(id) ELSE 0]

LEMMA PlacedAt ==
  ASSUME NEW s \in SUBSET Ids, NEW id \in Ids
  PROVE  FB!VT(id) \in FB!VTable /\ Placed(s)[FB!VT(id)] = IF id \in s THEN id ELSE 0
<1>1. FB!VT(id) \in FB!VTable /\ id \in Nat
  BY IdsAre DEF FB!VTable
<1>2. \A i \in s : FB!VT(id) = FB!VT(i) <=> i = id
  BY IdsAre DEF FB!VT
<1>3. QED
  BY <1>1, <1>2 DEF Placed

LEMMA PlaceOne ==
  ASSUME NEW s \in SUBSET Ids, NEW m \in s
  PROVE  FB!AddOffset(Placed(s \ {m}), FB!VT(m), m) = Placed(s)
<1> DEFINE r == s \ {m}
<1>1. m # 0 /\ m \in Ids /\ r \in SUBSET Ids
  BY IdsAre
<1>2. FB!AddOffset(Placed(r), FB!VT(m), m) = [Placed(r) EXCEPT ![FB!VT(m)] = m]
  BY <1>1 DEF FB!AddOffset
<1>3. ASSUME NEW vt \in FB!VTable
      PROVE  [Placed(r) EXCEPT ![FB!VT(m)] = m][vt] = Placed(s)[vt]
  <2>1. PICK id \in Ids : vt = FB!VT(id)
    BY IdsAre DEF FB!VTable
  <2>2. /\ Placed(r)[vt] = IF id \in r THEN id ELSE 0
        /\ Placed(s)[vt] = IF id \in s THEN id ELSE 0
    BY <1>1, <2>1, PlacedAt
  <2>3. vt = FB!VT(m) <=> id = m
    BY <1>1, <2>1, IdsAre DEF FB!VT
  <2>4. vt \in DOMAIN Placed(r)
    BY DEF Placed
  <2> HIDE DEF r
  <2>5. [Placed(r) EXCEPT ![FB!VT(m)] = m][vt] = IF vt = FB!VT(m) THEN m ELSE Placed(r)[vt]
    BY <2>4
  <2>6. id # m => (id \in r <=> id \in s)
    BY DEF r
  <2>7. QED
    BY <2>2, <2>3, <2>5, <2>6
<1>4. DOMAIN Placed(r) = FB!VTable
  BY DEF Placed
<1>5. DOMAIN [Placed(r) EXCEPT ![FB!VT(m)] = m] = FB!VTable
  BY <1>4
<1>6. [Placed(r) EXCEPT ![FB!VT(m)] = m] = [vt \in FB!VTable |-> [Placed(r) EXCEPT ![FB!VT(m)] = m][vt]]
  BY <1>4
<1>7. Placed(s) = [vt \in FB!VTable |-> Placed(s)[vt]]
  BY DEF Placed
<1> HIDE DEF r
<1>8. [Placed(r) EXCEPT ![FB!VT(m)] = m] = Placed(s)
  BY <1>3, <1>6, <1>7
<1>9. QED
  BY <1>2, <1>8 DEF r

LEMMA FirstId ==
  ASSUME NEW s \in SUBSET Ids, s # {}
  PROVE  FB!Min(s) \in s /\ FB!Min(s) \in Ids
<1>1. s \in SUBSET Nat
  BY IdsAre
<1>2. PICK t \in s : \A u \in s : t <= u
  BY <1>1, LeastOf
<1>3. QED
  BY <1>2 DEF FB!Min

LEMMA FlatPlaces ==
  ASSUME NEW id \in Ids
  PROVE  FB!Get(FB!CreatePerson(Each), id) = id
<1> DEFINE g == [s \in SUBSET Ids |-> Placed(s)]
           Same == [i \in FB!Ids |-> i]
<1>0. DOMAIN Same = Ids /\ \A i \in Ids : Same[i] = i /\ Each[i] = i
  BY IdsAre, EachIs
<1>1. g[{}] = FB!StartTable
  BY DEF Placed, FB!StartTable
<1>2. ASSUME NEW s \in SUBSET Ids, s # {}
      PROVE  FB!Min(s) \in s /\ g[s] = FB!AddOffset(g[s \ {FB!Min(s)}], FB!VT(FB!Min(s)), FB!Min(s))
  <2>1. FB!Min(s) \in s /\ s \ {FB!Min(s)} \in SUBSET Ids
    BY <1>2, FirstId
  <2>2. QED
    BY <2>1, PlaceOne
<1> HIDE DEF g
<1>3. AddAll(g)
  <2>1. g = [s \in SUBSET (DOMAIN Same) |-> g[s]]
    BY <1>0 DEF g
  <2>2. ASSUME NEW s \in SUBSET (DOMAIN Same), s # {}
        PROVE  g[s] = FB!AddOffset(g[s \ {FB!Min(s)}], FB!VT(Same[FB!Min(s)]), Each[Same[FB!Min(s)]])
    <3>1. s \in SUBSET Ids
      BY <1>0
    <3>2. Same[FB!Min(s)] = FB!Min(s) /\ Each[FB!Min(s)] = FB!Min(s)
      BY <1>0, <2>2, <3>1, FirstId
    <3> HIDE DEF Same
    <3>3. QED
      BY <1>2, <2>2, <3>1, <3>2
  <2>3. g = [s \in SUBSET (DOMAIN Same) |->
               IF s = {} THEN FB!StartTable
               ELSE FB!AddOffset(g[s \ {FB!Min(s)}], FB!VT(Same[FB!Min(s)]), Each[Same[FB!Min(s)]])]
    <3> HIDE DEF Same
    <3>1. QED
      BY <1>1, <2>1, <2>2
  <2>4. QED
    BY <2>3 DEF AddAll
<1>4. PICK f : f = (CHOOSE h : AddAll(h)) /\ AddAll(f)
  BY <1>3
<1>5. f = [s \in SUBSET Ids |->
             IF s = {} THEN FB!StartTable
             ELSE FB!AddOffset(f[s \ {FB!Min(s)}], FB!VT(Same[FB!Min(s)]), Each[Same[FB!Min(s)]])]
  BY <1>0, <1>4 DEF AddAll
<1>6. f[{}] = g[{}]
  BY <1>1, <1>5
<1>7. ASSUME NEW s \in SUBSET Ids, s # {}
      PROVE  \E x \in s : f[s \ {x}] = g[s \ {x}] => f[s] = g[s]
  <2>1. Same[FB!Min(s)] = FB!Min(s) /\ Each[FB!Min(s)] = FB!Min(s)
    BY <1>0, <1>7, FirstId
  <2> HIDE DEF Same
  <2>2. f[s] = FB!AddOffset(f[s \ {FB!Min(s)}], FB!VT(Same[FB!Min(s)]), Each[Same[FB!Min(s)]])
    BY <1>5, <1>7
  <2>3. QED
    BY <1>2, <1>7, <2>1, <2>2
<1>8. \A s \in SUBSET Ids : f[s] = g[s]
  <2>1. Steps(f, g, Ids) /\ IsFiniteSet(Ids)
    BY <1>7, IdsAre DEF Steps
  <2>2. QED
    BY <1>6, <2>1, SameFold
<1>9. FB!CreatePerson(Each) = Placed(Ids)
  <2>1. FB!CreatePerson(Each) = f[Ids]
    BY <1>0, <1>4, TableUnfolded
  <2>2. g[Ids] = Placed(Ids)
    BY DEF g
  <2>3. QED
    BY <1>8, <2>1, <2>2
<1>10. QED
  BY <1>9, PlacedAt DEF FB!Get

-----------------------------------------------------------------------------
(* What MuSer writes                                                        *)

Cells == [id \in Ids |-> <<Length(id), Bytes(id)>>]

LEMMA PartTypes ==
  ASSUME NEW id \in Ids
  PROVE  Length(id) \in Part /\ Bytes(id) \in Part /\ Bitmap \in Part
<1>1. id \in 0..N /\ 0 \in 0..N
  BY IdsAre
<1>2. QED
  BY <1>1 DEF Length, Bytes, Bitmap, Part

LEMMA CellsJoined ==
  ASSUME NEW k \in 0..N
  PROVE  /\ FlattenSeq(Upto(Cells, k)) \in Seq(Part)
         /\ Len(FlattenSeq(Upto(Cells, k))) = 2 * k
         /\ \A j \in 1..k : /\ FlattenSeq(Upto(Cells, k))[2 * j - 1] = Length(j)
                            /\ FlattenSeq(Upto(Cells, k))[2 * j] = Bytes(j)
<1> DEFINE q(i)    == FlattenSeq(Upto(Cells, i))
           Good(i) == Len(q(i)) = 2 * i /\ \A j \in 1..i : q(i)[2 * j - 1] = Length(j) /\ q(i)[2 * j] = Bytes(j)
           Bad     == {i \in 0..N : ~Good(i)}
<1>0. N \in Nat /\ Ids = 1..N
  BY IdsAre
<1>1. \A i \in Ids : Cells[i] = <<Length(i), Bytes(i)>> /\ Cells[i] \in Seq(Part)
  BY PartTypes DEF Cells
<1>2. /\ q(0) = <<>>
      /\ \A i \in 0..N : q(i) \in Seq(Part)
      /\ \A i \in 1..N : q(i) = q(i - 1) \o Cells[i]
  <2>1. Cells = [i \in 1..N |-> Cells[i]] /\ \A i \in 1..N : Cells[i] \in Seq(Part)
    BY <1>0, <1>1 DEF Cells
  <2>2. JoinedUpto(Cells, N, Part)
    BY <1>0, <2>1, FlattenUpto DEF Lists
  <2>3. QED
    BY <2>2 DEF JoinedUpto
<1> HIDE DEF q
<1>3. ASSUME Bad # {} PROVE FALSE
  <2>1. PICK i \in Bad : \A u \in Bad : i <= u
    <3>1. Bad \in SUBSET Nat
      BY <1>0
    <3> HIDE DEF Bad
    <3>2. QED
      BY <1>3, <3>1, LeastOf
  <2>2. i \in 0..N /\ ~Good(i)
    OBVIOUS
  <2>3. Good(0)
    BY <1>2
  <2>4. i \in 1..N /\ i - 1 \in 0..N /\ ~(i <= i - 1)
    BY <1>0, <2>2, <2>3
  <2>5. Good(i - 1)
    BY <2>1, <2>4
  <2> DEFINE r == q(i - 1)
  <2>6. /\ r \in Seq(Part) /\ Len(r) = 2 * (i - 1)
        /\ \A j \in 1..i - 1 : r[2 * j - 1] = Length(j) /\ r[2 * j] = Bytes(j)
    BY <1>2, <2>4, <2>5
  <2>7. q(i) = r \o <<Length(i), Bytes(i)>> /\ Length(i) \in Part /\ Bytes(i) \in Part
    BY <1>0, <1>1, <1>2, <2>4, PartTypes
  <2> HIDE DEF r
  <2> DEFINE t == <<Length(i), Bytes(i)>>
  <2>8. t \in Seq(Part) /\ Len(t) = 2 /\ t[1] = Length(i) /\ t[2] = Bytes(i)
    BY <2>7
  <2>9. /\ Len(q(i)) = 2 * (i - 1) + 2
        /\ \A j \in 1..2 * (i - 1) + 2 :
             q(i)[j] = IF j <= 2 * (i - 1) THEN r[j] ELSE t[j - 2 * (i - 1)]
    <3>1. q(i) = r \o t
      BY <2>7
    <3> HIDE DEF t
    <3>2. /\ Len(r \o t) = Len(r) + Len(t)
          /\ \A j \in 1..Len(r) + Len(t) :
               (r \o t)[j] = IF j <= Len(r) THEN r[j] ELSE t[j - Len(r)]
      BY <2>6, <2>8, ConcatProperties
    <3>3. QED
      BY <2>6, <2>8, <3>1, <3>2
  <2> HIDE DEF t
  <2>10. ASSUME NEW j \in 1..i
         PROVE  q(i)[2 * j - 1] = Length(j) /\ q(i)[2 * j] = Bytes(j)
    <3>1. CASE j = i
      <4>1. /\ 2 * j \in 1..2 * (i - 1) + 2 /\ 2 * j - 1 \in 1..2 * (i - 1) + 2
            /\ ~(2 * j <= 2 * (i - 1)) /\ ~(2 * j - 1 <= 2 * (i - 1))
            /\ 2 * j - 2 * (i - 1) = 2 /\ (2 * j - 1) - 2 * (i - 1) = 1
        BY <1>0, <2>4, <3>1
      <4>2. QED
        BY <2>8, <2>9, <3>1, <4>1
    <3>2. CASE j # i
      <4>1. /\ j \in 1..i - 1 /\ 2 * j <= 2 * (i - 1) /\ 2 * j - 1 <= 2 * (i - 1)
            /\ 2 * j \in 1..2 * (i - 1) + 2 /\ 2 * j - 1 \in 1..2 * (i - 1) + 2
        BY <2>4, <3>2
      <4>2. QED
        BY <2>6, <2>9, <4>1
    <3>3. QED
      BY <3>1, <3>2
  <2>11. Good(i)
    <3>1. Len(q(i)) = 2 * i
      BY <2>4, <2>9
    <3>2. QED
      BY <2>10, <3>1
  <2>12. QED
    BY <2>2, <2>11
<1>4. Good(k)
  BY <1>3
<1>5. QED
  BY <1>2, <1>4 DEF q

LEMMA PartsAre ==
  ASSUME NEW p, p.bitmap = Ids
  PROVE  /\ Parts(p) \in Seq(Part) /\ Len(Parts(p)) = 2 * N + 1
         /\ Parts(p)[1] = Bitmap
         /\ \A j \in Ids : Parts(p)[2 * j] = Length(j) /\ Parts(p)[2 * j + 1] = Bytes(j)
<1> DEFINE q == FlattenSeq(Upto(Cells, N))
<1>0. N \in Nat /\ Ids = 1..N /\ N \in 0..N
  BY IdsAre
<1>1. Upto(Cells, N) = Cells
  BY <1>0 DEF Upto, Cells
<1>2. Parts(p) = <<Bitmap>> \o q
  BY <1>1 DEF Parts, Cells
<1>3. /\ q \in Seq(Part) /\ Len(q) = 2 * N
      /\ \A j \in 1..N : q[2 * j - 1] = Length(j) /\ q[2 * j] = Bytes(j)
  BY <1>0, CellsJoined
<1> HIDE DEF q
<1>4. <<Bitmap>> \in Seq(Part) /\ Len(<<Bitmap>>) = 1
  <2>1. Bitmap \in Part
    BY <1>0, IdsAre, PartTypes
  <2>2. QED
    BY <2>1
<1>5. /\ Parts(p) \in Seq(Part) /\ Len(Parts(p)) = 1 + 2 * N
      /\ \A j \in 1..1 + 2 * N : Parts(p)[j] = IF j <= 1 THEN <<Bitmap>>[j] ELSE q[j - 1]
  BY <1>2, <1>3, <1>4, ConcatProperties
<1>6. Parts(p)[1] = Bitmap
  BY <1>0, <1>5
<1>7. ASSUME NEW j \in Ids
      PROVE  Parts(p)[2 * j] = Length(j) /\ Parts(p)[2 * j + 1] = Bytes(j)
  <2>1. /\ 2 * j \in 1..1 + 2 * N /\ ~(2 * j <= 1)
        /\ 2 * j + 1 \in 1..1 + 2 * N /\ ~(2 * j + 1 <= 1) /\ (2 * j + 1) - 1 = 2 * j
    BY <1>0
  <2>2. Parts(p)[2 * j] = q[2 * j - 1] /\ Parts(p)[2 * j + 1] = q[2 * j]
    BY <1>5, <2>1
  <2>3. QED
    BY <1>0, <1>3, <2>2
<1>8. Len(Parts(p)) = 2 * N + 1
  BY <1>0, <1>5
<1>9. QED
  BY <1>5, <1>6, <1>7, <1>8

\* Each length is in front of its own bytes.
LEMMA PartsReadable ==
  ASSUME NEW p, p.bitmap = Ids
  PROVE  Readable(p, Parts(p))
<1>0. N \in Nat /\ Ids = 1..N
  BY IdsAre
<1>1. ASSUME NEW id \in Ids
      PROVE  Cardinality({i \in p.bitmap : i <= id}) = id
  <2>1. {i \in p.bitmap : i <= id} = 1..id
    BY <1>0
  <2>2. Cardinality(1..id) = id
    BY <1>0, FS_Interval
  <2>3. QED
    BY <2>1, <2>2
<1>2. Cardinality(p.bitmap) = N
  BY <1>0, FS_Interval
<1>3. Len(Parts(p)) = 1 + 2 * Cardinality(p.bitmap) /\ Parts(p)[1] = Bitmap
  BY <1>0, <1>2, PartsAre
<1>4. ASSUME NEW id \in p.bitmap
      PROVE  /\ Parts(p)[2 * Cardinality({i \in p.bitmap : i <= id})] = Length(id)
             /\ Parts(p)[2 * Cardinality({i \in p.bitmap : i <= id}) + 1] = Bytes(id)
  <2>1. id \in Ids
    OBVIOUS
  <2>2. Parts(p)[2 * id] = Length(id) /\ Parts(p)[2 * id + 1] = Bytes(id)
    BY <2>1, PartsAre
  <2>3. QED
    BY <1>1, <2>1, <2>2
<1>5. QED
  BY <1>3, <1>4 DEF Readable

\* The loop that fills, over the parts, adds up their sizes; so does the one that
\* allocates, over the members.
OffsetAll(f, p) ==
  f = [s \in SUBSET (DOMAIN Parts(p)) |->
         IF s = {} THEN 0 ELSE f[s \ {Max(s)}] + Size(p, Parts(p)[Max(s)])]

LEMMA OffsetUnfolded ==
  ASSUME NEW p
  PROVE  Offset(p) = (CHOOSE f : OffsetAll(f, p))[DOMAIN Parts(p)]
BY DEF Offset, FoldLeft, MapThenFoldSet, OffsetAll

Sizes(p) == [i \in 1..2 * N + 1 |-> Size(p, Parts(p)[i])]

LEMMA OffsetIs ==
  ASSUME NEW p \in Person, p.bitmap = Ids
  PROVE  /\ \A i \in 1..2 * N + 1 : Sizes(p)[i] \in Nat
         /\ Offset(p) = Total(Sizes(p), 2 * N + 1)
<1> DEFINE n == 2 * N + 1
           D == 1..n
           w == Sizes(p)
           g == [s \in SUBSET D |-> TotalOf(w, s, n)]
<1>0. n \in Nat /\ DOMAIN Parts(p) = D
  BY PartsAre, IdsAre
<1>1. \A i \in D : w[i] \in Nat /\ w[i] = Size(p, Parts(p)[i])
  <2>1. ASSUME NEW i \in D PROVE Size(p, Parts(p)[i]) \in Nat
    <3>1. CASE i = 1
      BY <3>1, PartsAre DEF Size, Bitmap
    <3>2. ASSUME NEW j \in Ids, i = 2 * j \/ i = 2 * j + 1 PROVE Size(p, Parts(p)[i]) \in Nat
      <4>1. Parts(p)[i] \in {Length(j), Bytes(j)}
        BY <3>2, PartsAre
      <4>2. p.len[j] \in Nat
        BY DEF Person
      <4>3. Size(p, Length(j)) = 4 /\ Size(p, Bytes(j)) = p.len[j]
        BY DEF Size, Length, Bytes
      <4>4. QED
        BY <4>1, <4>2, <4>3
    <3>3. i = 1 \/ \E j \in Ids : i = 2 * j \/ i = 2 * j + 1
      <4>1. N \in Nat /\ Ids = 1..N /\ i \in Nat
        BY IdsAre
      <4>3. PICK j \in Nat : i = 2 * j \/ i = 2 * j + 1
        BY <4>1, Halves
      <4>4. i = 1 \/ j \in 1..N
        BY <4>1, <4>3
      <4>5. QED
        BY <4>1, <4>3, <4>4
    <3>4. QED
      BY <3>1, <3>2, <3>3
  <2>2. QED
    BY <2>1 DEF Sizes
<1>2. \A s \in SUBSET D : s # {} => Max(s) \in s
  BY <1>0, GreatestOf
<1> HIDE DEF w, D, n
<1>3. /\ \A s : TotalOf(w, s, n) \in Nat
      /\ TotalOf(w, {}, n) = 0
      /\ TotalOf(w, D, n) = Total(w, n)
      /\ \A s : \A x \in s : x \in D => TotalOf(w, s, n) = w[x] + TotalOf(w, s \ {x}, n)
  BY <1>0, <1>1, TotalOfIs DEF D
<1>4. OffsetAll(g, p)
  <2>1. ASSUME NEW s \in SUBSET D, s # {}
        PROVE  g[s] = g[s \ {Max(s)}] + Size(p, Parts(p)[Max(s)])
    <3>1. Max(s) \in s /\ Max(s) \in D /\ s \ {Max(s)} \in SUBSET D
      BY <1>2, <2>1
    <3>2. TotalOf(w, s, n) = w[Max(s)] + TotalOf(w, s \ {Max(s)}, n)
      BY <1>3, <3>1
    <3>3. w[Max(s)] \in Nat /\ TotalOf(w, s \ {Max(s)}, n) \in Nat
      BY <1>1, <1>3, <3>1
    <3>4. QED
      BY <1>1, <3>1, <3>2, <3>3
  <2>2. g[{}] = 0 /\ g = [s \in SUBSET D |-> g[s]]
    BY <1>3
  <2> HIDE DEF g
  <2>3. QED
    BY <1>0, <2>1, <2>2 DEF OffsetAll
<1>5. PICK f : f = (CHOOSE h : OffsetAll(h, p)) /\ OffsetAll(f, p)
  BY <1>4
<1>6. Adds(f, w, D)
  <2>1. f = [s \in SUBSET D |-> IF s = {} THEN 0 ELSE f[s \ {Max(s)}] + Size(p, Parts(p)[Max(s)])]
    BY <1>0, <1>5 DEF OffsetAll
  <2>2. f[{}] = 0
    BY <2>1
  <2>3. ASSUME NEW s \in SUBSET D, s # {}
        PROVE  f[s \ {Max(s)}] \in Nat => f[s] = w[Max(s)] + f[s \ {Max(s)}]
    <3>1. f[s] = f[s \ {Max(s)}] + Size(p, Parts(p)[Max(s)])
      BY <2>1, <2>3
    <3>2. Max(s) \in D
      BY <1>2, <2>3
    <3>3. QED
      BY <1>1, <3>1, <3>2
  <2>4. QED
    BY <1>2, <2>2, <2>3 DEF Adds
<1>7. f[D] = TotalOf(w, D, n)
  <2>1. D \in SUBSET (1..n)
    BY DEF D
  <2>2. QED
    BY <1>0, <1>1, <1>6, <2>1, SumOver DEF D
<1>8. Offset(p) = Total(w, n)
  BY <1>0, <1>3, <1>5, <1>7, OffsetUnfolded
<1>9. QED
  BY <1>1, <1>8 DEF w, n, D

BufAll(f, p) ==
  f = [s \in SUBSET p.bitmap |->
         IF s = {} THEN 0
         ELSE LET id == CHOOSE x \in s : TRUE IN (4 + p.len[id]) + f[s \ {id}]]

LEMMA BufUnfolded ==
  ASSUME NEW p
  PROVE  GetBufLen(p) = (CHOOSE f : BufAll(f, p))[p.bitmap]
BY DEF GetBufLen, MapThenSumSet, MapThenFoldSet, BufAll

Taken(p) == [id \in Ids |-> 4 + p.len[id]]

LEMMA BufLenIs ==
  ASSUME NEW p \in Person, p.bitmap = Ids
  PROVE  /\ \A id \in 1..N : Taken(p)[id] \in Nat
         /\ GetBufLen(p) = Total(Taken(p), N)
<1> DEFINE w == Taken(p)
           g == [s \in SUBSET Ids |-> TotalOf(w, s, N)]
           Pick(s) == CHOOSE x \in s : TRUE
<1>0. N \in Nat /\ Ids = 1..N
  BY IdsAre
<1>1. \A id \in Ids : w[id] \in Nat /\ w[id] = 4 + p.len[id]
  BY DEF Taken, Person
<1> HIDE DEF w
<1>2. /\ \A s : TotalOf(w, s, N) \in Nat
      /\ TotalOf(w, {}, N) = 0
      /\ TotalOf(w, Ids, N) = Total(w, N)
      /\ \A s : \A x \in s : x \in Ids => TotalOf(w, s, N) = w[x] + TotalOf(w, s \ {x}, N)
  <2>1. \A i \in 1..N : w[i] \in Nat
    BY <1>0, <1>1
  <2>2. /\ \A s : TotalOf(w, s, N) \in Nat
        /\ TotalOf(w, {}, N) = 0
        /\ TotalOf(w, 1..N, N) = Total(w, N)
        /\ \A s : \A x \in s : x \in 1..N => TotalOf(w, s, N) = w[x] + TotalOf(w, s \ {x}, N)
    BY <1>0, <2>1, TotalOfIs
  <2>3. QED
    BY <1>0, <2>2
<1>3. \A s \in SUBSET Ids : s # {} => Pick(s) \in s
  OBVIOUS
<1> HIDE DEF Pick
<1>4. BufAll(g, p)
  <2>1. ASSUME NEW s \in SUBSET Ids, s # {}
        PROVE  g[s] = (4 + p.len[Pick(s)]) + g[s \ {Pick(s)}]
    <3>1. Pick(s) \in s /\ Pick(s) \in Ids /\ s \ {Pick(s)} \in SUBSET Ids
      BY <1>3, <2>1
    <3>2. QED
      BY <1>1, <1>2, <3>1
  <2>2. g[{}] = 0 /\ g = [s \in SUBSET Ids |-> g[s]]
    BY <1>2
  <2> HIDE DEF g
  <2>3. QED
    BY <2>1, <2>2 DEF BufAll, Pick
<1>5. PICK f : f = (CHOOSE h : BufAll(h, p)) /\ BufAll(f, p)
  BY <1>4
<1>6. Adds(f, w, Ids)
  <2>1. f = [s \in SUBSET Ids |-> IF s = {} THEN 0 ELSE (4 + p.len[Pick(s)]) + f[s \ {Pick(s)}]]
    BY <1>5 DEF BufAll, Pick
  <2>2. f[{}] = 0
    BY <2>1
  <2>3. ASSUME NEW s \in SUBSET Ids, s # {}
        PROVE  f[s \ {Pick(s)}] \in Nat => f[s] = w[Pick(s)] + f[s \ {Pick(s)}]
    <3>1. Pick(s) \in Ids
      BY <1>3, <2>3
    <3>2. QED
      BY <1>1, <2>1, <2>3, <3>1
  <2>4. QED
    BY <1>3, <2>2, <2>3 DEF Adds
<1>7. f[Ids] = TotalOf(w, Ids, N)
  BY <1>0, <1>1, <1>6, SumOver
<1>8. GetBufLen(p) = Total(w, N)
  BY <1>2, <1>5, <1>7, BufUnfolded
<1>9. QED
  BY <1>0, <1>1, <1>8 DEF w

\* COPY fills the buffer it allocates, SG and ZC their array.
LEMMA MuSerFits ==
  ASSUME NEW p \in Person, p.bitmap = Ids
  PROVE  Offset(p) = BufSize(p) /\ Len(Parts(p)) = IOVLen(p)
<1> DEFINE w == Sizes(p)
           v == Taken(p)
           Good(k) == Total(w, 2 * k + 1) = 4 + Total(v, k)
           Bad     == {k \in 0..N : ~Good(k)}
<1>0. N \in Nat /\ Ids = 1..N /\ 2 * N + 1 \in Nat
  BY IdsAre
<1>1. /\ w[1] = 4
      /\ \A k \in 1..N : w[2 * k] = 4 /\ w[2 * k + 1] = p.len[k] /\ v[k] = 4 + p.len[k]
      /\ \A k \in 1..N : p.len[k] \in Nat
  <2>1. w[1] = 4
    <3>1. 1 \in 1..2 * N + 1
      BY <1>0
    <3>2. QED
      BY <3>1, PartsAre DEF Sizes, Size, Bitmap
  <2>2. ASSUME NEW k \in 1..N
        PROVE  w[2 * k] = 4 /\ w[2 * k + 1] = p.len[k]
    <3>1. 2 * k \in 1..2 * N + 1 /\ 2 * k + 1 \in 1..2 * N + 1
      BY <1>0
    <3>2. w[2 * k] = Size(p, Length(k)) /\ w[2 * k + 1] = Size(p, Bytes(k))
      BY <1>0, <3>1, PartsAre DEF Sizes
    <3>3. QED
      BY <3>2 DEF Size, Length, Bytes
  <2>3. QED
    BY <1>0, <2>1, <2>2 DEF Taken, Person
<1>2. /\ \A i \in 1..2 * N + 1 : w[i] \in Nat
      /\ \A k \in 1..N : v[k] \in Nat
      /\ Offset(p) = Total(w, 2 * N + 1) /\ GetBufLen(p) = Total(v, N)
  BY OffsetIs, BufLenIs
<1> HIDE DEF w, v
<1>3. /\ Total(w, 0) = 0
      /\ \A i \in 1..2 * N + 1 : Total(w, i) = Total(w, i - 1) + w[i]
  BY <1>0, <1>2, TotalIs
<1>4. /\ Total(v, 0) = 0
      /\ \A k \in 1..N : Total(v, k) = Total(v, k - 1) + v[k]
  BY <1>0, <1>2, TotalIs
<1>5. \A k \in 0..N : Total(v, k) \in Nat
  <2> TAKE k \in 0..N
  <2>1. k \in Nat /\ \A i \in 1..k : v[i] \in Nat
    BY <1>0, <1>2
  <2>2. QED
    BY <2>1, TotalIs
<1>6. ASSUME Bad # {} PROVE FALSE
  <2>1. PICK k \in Bad : \A u \in Bad : k <= u
    <3>1. Bad \in SUBSET Nat
      BY <1>0
    <3> HIDE DEF Bad
    <3>2. QED
      BY <1>6, <3>1, LeastOf
  <2>2. k \in 0..N /\ ~Good(k)
    OBVIOUS
  <2>3. Good(0)
    <3>1. 1 \in 1..2 * N + 1 /\ 2 * 0 + 1 = 1 /\ 1 - 1 = 0
      BY <1>0
    <3>2. Total(w, 1) = Total(w, 0) + 4
      BY <1>1, <1>3, <3>1
    <3>3. QED
      BY <1>3, <1>4, <3>1, <3>2
  <2>4. k \in 1..N /\ k - 1 \in 0..N /\ ~(k <= k - 1)
    BY <1>0, <2>2, <2>3
  <2>5. Good(k - 1)
    BY <2>1, <2>4
  <2>6. /\ 2 * k \in 1..2 * N + 1 /\ 2 * k + 1 \in 1..2 * N + 1
        /\ (2 * k + 1) - 1 = 2 * k /\ 2 * k - 1 = 2 * (k - 1) + 1
    BY <1>0, <2>4
  <2>7. Total(w, 2 * k + 1) = Total(w, 2 * k) + p.len[k] /\ Total(w, 2 * k) = Total(w, 2 * (k - 1) + 1) + 4
    BY <1>1, <1>3, <2>4, <2>6
  <2>8. Total(v, k) = Total(v, k - 1) + (4 + p.len[k])
    BY <1>1, <1>4, <2>4
  <2>9. Total(w, 2 * (k - 1) + 1) = 4 + Total(v, k - 1)
    BY <2>5
  <2>10. Total(v, k - 1) \in Nat /\ p.len[k] \in Nat
    BY <1>1, <1>5, <2>4
  <2>11. Good(k)
    BY <2>7, <2>8, <2>9, <2>10
  <2>12. QED
    BY <2>2, <2>11
<1>7. Good(N)
  <2>1. N \in 0..N
    BY <1>0
  <2>2. QED
    BY <1>6, <2>1
<1>8. Offset(p) = BufSize(p)
  BY <1>2, <1>7 DEF BufSize
<1>9. Len(Parts(p)) = IOVLen(p)
  <2>1. Cardinality(p.bitmap) = N
    BY <1>0, FS_Interval
  <2>2. QED
    BY <1>0, <2>1, PartsAre DEF IOVLen, GetIOVecLen
<1>10. QED
  BY <1>8, <1>9

-----------------------------------------------------------------------------
(* What Protobuf writes                                                     *)

LEMMA PBCardinality ==
  ASSUME NEW S
  PROVE  PB!Cardinality(S) = Cardinality(S)
BY DEF PB!Cardinality, Cardinality

LEMMA VarintType ==
  ASSUME NEW n \in Nat
  PROVE  PB!VarintSize(n) \in Nat
<1> DEFINE Set(a, b, c, d) == {a, b, c, d}
           Powers == {128, 16384, 2097152, 268435456}
           S      == {power \in Powers : n >= power}
<1>1. \A a, b, c, d : IsFiniteSet(Set(a, b, c, d))
  <2> TAKE a, b, c, d
  <2>1. IsFiniteSet({a}) /\ IsFiniteSet({b}) /\ IsFiniteSet({c}) /\ IsFiniteSet({d})
    BY FS_Singleton
  <2>2. IsFiniteSet({a} \cup {b}) /\ IsFiniteSet({c} \cup {d})
    BY <2>1, FS_Union
  <2>3. IsFiniteSet(({a} \cup {b}) \cup ({c} \cup {d}))
    BY <2>2, FS_Union
  <2>4. {a, b, c, d} = ({a} \cup {b}) \cup ({c} \cup {d})
    OBVIOUS
  <2>5. QED
    BY <2>3, <2>4
<1>2. PB!VarintSize(n) = 1 + PB!Cardinality(S)
  BY SMT DEF PB!VarintSize
<1>3. IsFiniteSet(Powers)
  <2>1. Powers = Set(128, 16384, 2097152, 268435456)
    BY SMT
  <2> HIDE DEF Set, Powers
  <2>2. QED
    BY <1>1, <2>1, SMT
<1> HIDE DEF Powers
<1>4. Cardinality(S) \in Nat
  BY <1>3, FS_Subset, FS_CardinalityType
<1>5. QED
  BY <1>2, <1>4, PBCardinality

\* A tag has one byte.
LEMMA TagSize ==
  ASSUME NEW id \in Ids
  PROVE  PB!VarintSize(8 * id + 2) = 1
<1> DEFINE S == {power \in {128, 16384, 2097152, 268435456} : 8 * id + 2 >= power}
<1>1. 8 * id + 2 \in Nat /\ 8 * id + 2 < 128
  BY IdsAre, TagAssumption
<1>2. S = {}
  BY <1>1, SMT
<1>3. PB!VarintSize(8 * id + 2) = 1 + PB!Cardinality(S)
  BY SMT DEF PB!VarintSize
<1> HIDE DEF S
<1>4. Cardinality(S) = 0
  BY <1>2, FS_EmptySet
<1>5. QED
  BY <1>3, <1>4, PBCardinality

Field    == [number : Ids, length : Nat]
Cost(x)  == PB!VarintSize(8 * x.number + 2) + PB!VarintSize(x.length) + x.length
Costs(q) == [i \in 1..Len(q) |-> Cost(q[i])]
Price(p) == [id \in Ids |-> 1 + PB!VarintSize(p[id]) + p[id]]

LEMMA CostType ==
  ASSUME NEW x \in Field
  PROVE  Cost(x) \in Nat
<1>1. x.number \in Ids /\ x.length \in Nat
  BY DEF Field
<1>2. PB!VarintSize(8 * x.number + 2) = 1 /\ PB!VarintSize(x.length) \in Nat
  BY <1>1, TagSize, VarintType
<1>3. QED
  BY <1>1, <1>2 DEF Cost

LEMMA PriceType ==
  ASSUME NEW p \in [Ids -> Nat], NEW id \in Ids
  PROVE  /\ Price(p)[id] \in Nat
         /\ Cost([number |-> id, length |-> p[id]]) = Price(p)[id]
<1>1. p[id] \in Nat
  OBVIOUS
<1>2. PB!VarintSize(p[id]) \in Nat /\ PB!VarintSize(8 * id + 2) = 1
  BY <1>1, VarintType, TagSize
<1>3. QED
  BY <1>1, <1>2 DEF Price, Cost

\* One more field adds what it costs.
LEMMA CostsMore ==
  ASSUME NEW q \in Seq(Field), NEW x \in Field
  PROVE  /\ q \o <<x>> \in Seq(Field) /\ Len(q \o <<x>>) = Len(q) + 1
         /\ \A j \in 1..Len(q) : (q \o <<x>>)[j] = q[j]
         /\ (q \o <<x>>)[Len(q) + 1] = x
         /\ Total(Costs(q \o <<x>>), Len(q) + 1) = Total(Costs(q), Len(q)) + Cost(x)
<1> DEFINE r == q \o <<x>>
           m == Len(q)
<1>1. /\ r \in Seq(Field) /\ Len(r) = m + 1 /\ m \in Nat
      /\ \A j \in 1..m : r[j] = q[j]
      /\ r[m + 1] = x
  OBVIOUS
<1> HIDE DEF r
<1>2. \A j \in 1..m + 1 : r[j] \in Field
  BY <1>1
<1>3. \A j \in 1..m + 1 : Costs(r)[j] = Cost(r[j]) /\ Costs(r)[j] \in Nat
  BY <1>1, <1>2, CostType DEF Costs
<1>4. \A j \in 1..m : Costs(q)[j] = Cost(q[j])
  BY DEF Costs
<1>5. Total(Costs(r), m + 1) = Total(Costs(r), m) + Costs(r)[m + 1]
  <2> DEFINE w == Costs(r)
             n == m + 1
  <2>1. n \in Nat /\ n \in 1..n /\ n - 1 = m /\ \A j \in 1..n : w[j] \in Nat
    BY <1>1, <1>3
  <2> HIDE DEF w, n
  <2>2. Total(w, n) = Total(w, n - 1) + w[n]
    BY <2>1, TotalIs
  <2>3. QED
    BY <2>1, <2>2 DEF w, n
<1>6. Total(Costs(r), m) = Total(Costs(q), m)
  <2>1. \A j \in 1..m : Costs(r)[j] \in Nat /\ Costs(r)[j] = Costs(q)[j]
    BY <1>1, <1>3, <1>4
  <2>2. QED
    BY <1>1, <2>1, TotalAgrees
<1>7. Costs(r)[m + 1] = Cost(x)
  BY <1>1, <1>3
<1>8. QED
  BY <1>1, <1>5, <1>6, <1>7 DEF r

FieldCells(p) ==
  [id \in Ids |-> IF p[id] = 0 THEN <<>> ELSE <<[number |-> id, length |-> p[id]]>>]

\* The fields are those of the members that are not empty, and cost what these do.
LEMMA FieldsAre ==
  ASSUME NEW p \in [Ids -> Nat]
  PROVE  LET q == PB!InternalSerialize(p) IN
         /\ q \in Seq(Field)
         /\ \A j \in 1..Len(q) : q[j].length = p[q[j].number]
         /\ \A id \in Ids : p[id] # 0 => \E j \in 1..Len(q) : q[j].number = id
         /\ Total(Costs(q), Len(q)) = TotalOf(Price(p), {id \in Ids : p[id] # 0}, N)
<1> DEFINE c    == FieldCells(p)
           S    == {id \in Ids : p[id] # 0}
           v    == Only(Price(p), S, N)
           q(i) == FlattenSeq(Upto(c, i))
           Good(i) == /\ \A j \in 1..Len(q(i)) : q(i)[j].length = p[q(i)[j].number]
                      /\ \A id \in 1..i : p[id] # 0 => \E j \in 1..Len(q(i)) : q(i)[j].number = id
                      /\ Total(Costs(q(i)), Len(q(i))) = Total(v, i)
           Bad == {i \in 0..N : ~Good(i)}
<1>0. N \in Nat /\ Ids = 1..N
  BY IdsAre
<1>1. \A id \in 1..N : v[id] \in Nat /\ v[id] = IF p[id] = 0 THEN 0 ELSE Price(p)[id]
  <2> TAKE id \in 1..N
  <2>1. id \in Ids /\ Price(p)[id] \in Nat
    BY <1>0, PriceType
  <2>2. id \in S <=> p[id] # 0
    BY <2>1
  <2> HIDE DEF S
  <2>3. v[id] = IF id \in S THEN Price(p)[id] ELSE 0
    BY DEF Only
  <2>4. QED
    BY <2>1, <2>2, <2>3
<1> HIDE DEF v
<1>2. Total(v, 0) = 0 /\ \A i \in 1..N : Total(v, i) = Total(v, i - 1) + v[i]
  BY <1>0, <1>1, TotalIs
<1>3. \A i \in 0..N : Total(v, i) \in Nat
  <2> TAKE i \in 0..N
  <2>1. i \in Nat /\ \A j \in 1..i : v[j] \in Nat
    BY <1>0, <1>1
  <2>2. QED
    BY <2>1, TotalIs
<1>4. \A id \in Ids : /\ [number |-> id, length |-> p[id]] \in Field
                      /\ c[id] = IF p[id] = 0 THEN <<>> ELSE <<[number |-> id, length |-> p[id]]>>
                      /\ c[id] \in Seq(Field)
  <2> TAKE id \in Ids
  <2>1. p[id] \in Nat /\ [number |-> id, length |-> p[id]] \in Field
    BY DEF Field
  <2>2. c[id] = IF p[id] = 0 THEN <<>> ELSE <<[number |-> id, length |-> p[id]]>>
    BY DEF FieldCells
  <2>3. QED
    BY <2>1, <2>2
<1>5. c = [id \in 1..N |-> c[id]]
  BY <1>0 DEF FieldCells
<1> HIDE DEF c
<1>6. /\ Upto(c, N) = c
      /\ q(0) = <<>>
      /\ \A i \in 0..N : q(i) \in Seq(Field)
      /\ \A i \in 1..N : q(i) = q(i - 1) \o c[i]
  <2>1. \A i \in 1..N : c[i] \in Seq(Field)
    BY <1>0, <1>4
  <2>2. JoinedUpto(c, N, Field)
    BY <1>0, <1>5, <2>1, FlattenUpto DEF Lists
  <2>3. QED
    BY <2>2 DEF JoinedUpto
<1> HIDE DEF q
<1>7. ASSUME Bad # {} PROVE FALSE
  <2>1. PICK i \in Bad : \A u \in Bad : i <= u
    <3>1. Bad \in SUBSET Nat
      BY <1>0
    <3> HIDE DEF Bad
    <3>2. QED
      BY <1>7, <3>1, LeastOf
  <2>2. i \in 0..N /\ ~Good(i)
    OBVIOUS
  <2>3. Good(0)
    <3>1. q(0) = <<>> /\ Len(q(0)) = 0
      BY <1>6
    <3>2. Total(Costs(q(0)), 0) = 0
      <4>1. \A j \in 1..0 : Costs(q(0))[j] \in Nat
        OBVIOUS
      <4>2. QED
        BY <4>1, TotalIs
    <3>3. QED
      BY <1>2, <3>1, <3>2
  <2>4. i \in 1..N /\ i - 1 \in 0..N /\ ~(i <= i - 1) /\ i \in Ids
    BY <1>0, <2>2, <2>3
  <2>5. Good(i - 1)
    BY <2>1, <2>4
  <2> DEFINE r == q(i - 1)
             x == [number |-> i, length |-> p[i]]
  <2>6. /\ r \in Seq(Field)
        /\ \A j \in 1..Len(r) : r[j].length = p[r[j].number]
        /\ \A id \in 1..i - 1 : p[id] # 0 => \E j \in 1..Len(r) : r[j].number = id
        /\ Total(Costs(r), Len(r)) = Total(v, i - 1)
    BY <1>6, <2>4, <2>5
  <2>7. q(i) = r \o c[i] /\ x \in Field /\ x.number = i /\ x.length = p[i]
    BY <1>4, <1>6, <2>4
  <2> HIDE DEF r
  <2>8. CASE p[i] = 0
    <3>1. q(i) = r
      <4>1. c[i] = <<>>
        BY <1>4, <2>4, <2>8
      <4>2. QED
        BY <2>6, <2>7, <4>1
    <3>2. Total(v, i) = Total(v, i - 1)
      BY <1>1, <1>2, <1>3, <2>4, <2>8
    <3>3. \A id \in 1..i : p[id] # 0 => id \in 1..i - 1
      BY <2>4, <2>8
    <3>4. Good(i)
      BY <2>6, <3>1, <3>2, <3>3
    <3>5. QED
      BY <2>2, <3>4
  <2>9. CASE p[i] # 0
    <3>1. q(i) = r \o <<x>>
      BY <1>4, <2>4, <2>7, <2>9
    <3>2. Cost(x) = Price(p)[i]
      BY <2>4, PriceType
    <3> HIDE DEF x
    <3>3. /\ q(i) \in Seq(Field) /\ Len(q(i)) = Len(r) + 1
          /\ \A j \in 1..Len(r) : q(i)[j] = r[j]
          /\ q(i)[Len(r) + 1] = x
          /\ Total(Costs(q(i)), Len(r) + 1) = Total(Costs(r), Len(r)) + Cost(x)
      BY <2>6, <2>7, <3>1, CostsMore
    <3>4. Len(r) \in Nat
      BY <2>6
    <3>5. ASSUME NEW j \in 1..Len(q(i)) PROVE q(i)[j].length = p[q(i)[j].number]
      <4>1. CASE j = Len(r) + 1
        BY <2>7, <3>3, <4>1
      <4>2. CASE j # Len(r) + 1
        <5>1. j \in 1..Len(r)
          BY <3>3, <3>4, <4>2
        <5>2. QED
          BY <2>6, <3>3, <5>1
      <4>3. QED
        BY <4>1, <4>2
    <3>6. ASSUME NEW id \in 1..i, p[id] # 0 PROVE \E j \in 1..Len(q(i)) : q(i)[j].number = id
      <4>1. CASE id = i
        <5>1. Len(r) + 1 \in 1..Len(q(i))
          BY <3>3, <3>4
        <5>2. QED
          BY <2>7, <3>3, <4>1, <5>1
      <4>2. CASE id # i
        <5>1. id \in 1..i - 1
          BY <2>4, <4>2
        <5>2. PICK j \in 1..Len(r) : r[j].number = id
          BY <2>6, <3>6, <5>1
        <5>3. j \in 1..Len(q(i))
          BY <3>3, <3>4
        <5>4. QED
          BY <3>3, <5>2, <5>3
      <4>3. QED
        BY <4>1, <4>2
    <3>7. Total(Costs(q(i)), Len(q(i))) = Total(v, i)
      <4>1. Total(v, i) = Total(v, i - 1) + Price(p)[i]
        BY <1>1, <1>2, <2>4, <2>9
      <4>2. QED
        BY <2>6, <3>2, <3>3, <4>1
    <3>8. Good(i)
      BY <3>5, <3>6, <3>7
    <3>9. QED
      BY <2>2, <3>8
  <2>10. QED
    BY <2>8, <2>9
<1>8. Good(N) /\ q(N) \in Seq(Field)
  <2>1. N \in 0..N
    BY <1>0
  <2>2. QED
    BY <1>6, <1>7, <2>1
<1>9. PB!InternalSerialize(p) = q(N)
  <2>1. PB!InternalSerialize(p) = FlattenSeq(c)
    BY IdsAre DEF PB!InternalSerialize, PB!FlattenSeq, FlattenSeq, c, FieldCells
  <2>2. QED
    BY <1>6, <2>1 DEF q
<1>10. Total(v, N) = TotalOf(Price(p), S, N)
  BY DEF v, TotalOf
<1>11. QED
  BY <1>0, <1>8, <1>9, <1>10

SizeAll(f, p) ==
  f = [s \in SUBSET {id \in PB!Ids : p[id] # 0} |->
         IF s = {} THEN 0
         ELSE LET id == CHOOSE x \in s : TRUE
              IN  (1 + PB!VarintSize(p[id]) + p[id]) + f[s \ {id}]]

LEMMA SizeUnfolded ==
  ASSUME NEW p
  PROVE  PB!ByteSizeLong(p) = (CHOOSE f : SizeAll(f, p))[{id \in PB!Ids : p[id] # 0}]
BY DEF PB!ByteSizeLong, PB!MapThenSumSet, PB!MapThenFoldSet, SizeAll

\* ByteSizeLong adds up the price of the members that are not empty.
LEMMA ByteSizeIs ==
  ASSUME NEW p \in [Ids -> Nat]
  PROVE  PB!ByteSizeLong(p) = TotalOf(Price(p), {id \in Ids : p[id] # 0}, N)
<1> DEFINE D == {id \in Ids : p[id] # 0}
           w == Price(p)
           g == [s \in SUBSET D |-> TotalOf(w, s, N)]
           Pick(s) == CHOOSE x \in s : TRUE
<1>0. N \in Nat /\ Ids = 1..N /\ PB!Ids = Ids /\ D \in SUBSET (1..N)
  BY IdsAre
<1>1. \A id \in Ids : w[id] \in Nat /\ w[id] = 1 + PB!VarintSize(p[id]) + p[id]
  <2>1. \A id \in Ids : w[id] = 1 + PB!VarintSize(p[id]) + p[id]
    BY DEF Price
  <2>2. QED
    BY <2>1, PriceType
<1>2. D = {id \in PB!Ids : p[id] # 0}
  BY <1>0
<1> HIDE DEF w, D
<1>3. /\ \A s : TotalOf(w, s, N) \in Nat
      /\ TotalOf(w, {}, N) = 0
      /\ \A s : \A x \in s : x \in 1..N => TotalOf(w, s, N) = w[x] + TotalOf(w, s \ {x}, N)
  <2>1. \A i \in 1..N : w[i] \in Nat
    BY <1>0, <1>1
  <2>2. QED
    BY <1>0, <2>1, TotalOfIs
<1>4. \A s \in SUBSET D : s # {} => Pick(s) \in s
  OBVIOUS
<1> HIDE DEF Pick
<1>5. SizeAll(g, p)
  <2>1. ASSUME NEW s \in SUBSET D, s # {}
        PROVE  g[s] = (1 + PB!VarintSize(p[Pick(s)]) + p[Pick(s)]) + g[s \ {Pick(s)}]
    <3>1. Pick(s) \in s /\ Pick(s) \in 1..N /\ s \ {Pick(s)} \in SUBSET D
      BY <1>0, <1>4, <2>1
    <3>2. w[Pick(s)] = 1 + PB!VarintSize(p[Pick(s)]) + p[Pick(s)]
      BY <1>0, <1>1, <3>1
    <3>3. QED
      BY <1>3, <3>1, <3>2
  <2>2. g[{}] = 0 /\ g = [s \in SUBSET D |-> g[s]]
    BY <1>3
  <2> HIDE DEF g
  <2>3. g = [s \in SUBSET D |->
               IF s = {} THEN 0 ELSE (1 + PB!VarintSize(p[Pick(s)]) + p[Pick(s)]) + g[s \ {Pick(s)}]]
    BY <2>1, <2>2
  <2>4. QED
    BY <1>2, <2>3 DEF SizeAll, Pick
<1>6. PICK f : f = (CHOOSE h : SizeAll(h, p)) /\ SizeAll(f, p)
  BY <1>5
<1>7. Adds(f, w, D)
  <2>1. f = [s \in SUBSET D |->
               IF s = {} THEN 0 ELSE (1 + PB!VarintSize(p[Pick(s)]) + p[Pick(s)]) + f[s \ {Pick(s)}]]
    BY <1>2, <1>6 DEF SizeAll, Pick
  <2>2. f[{}] = 0
    BY <2>1
  <2>3. ASSUME NEW s \in SUBSET D, s # {}
        PROVE  f[s] = w[Pick(s)] + f[s \ {Pick(s)}]
    <3>1. Pick(s) \in Ids
      BY <1>0, <1>4, <2>3
    <3>2. f[s] = (1 + PB!VarintSize(p[Pick(s)]) + p[Pick(s)]) + f[s \ {Pick(s)}]
      BY <2>1, <2>3
    <3>3. QED
      BY <1>1, <3>1, <3>2
  <2>4. QED
    BY <1>4, <2>2, <2>3 DEF Adds
<1>8. f[D] = TotalOf(w, D, N)
  <2>1. \A i \in 1..N : w[i] \in Nat
    BY <1>0, <1>1
  <2>2. QED
    BY <1>0, <1>7, <2>1, SumOver
<1>9. PB!ByteSizeLong(p) = TotalOf(w, D, N)
  BY <1>2, <1>6, <1>8, SizeUnfolded
<1>10. QED
  BY <1>9 DEF w, D

WriteAll(f, q) ==
  f = [s \in SUBSET (DOMAIN q) |->
         IF s = {} THEN 0
         ELSE f[s \ {PB!Max(s)}] + PB!VarintSize(8 * q[PB!Max(s)].number + 2)
                + PB!VarintSize(q[PB!Max(s)].length) + q[PB!Max(s)].length]

LEMMA WrittenUnfolded ==
  ASSUME NEW q
  PROVE  PB!Written(q) = (CHOOSE f : WriteAll(f, q))[DOMAIN q]
BY DEF PB!Written, PB!FoldLeft, PB!MapThenFoldSet, WriteAll

LEMMA LastField ==
  ASSUME NEW q \in Seq(Field), NEW s \in SUBSET (1..Len(q)), s # {}
  PROVE  /\ PB!Max(s) \in s /\ PB!Max(s) \in 1..Len(q) /\ q[PB!Max(s)] \in Field
         /\ s \ {PB!Max(s)} \in SUBSET (1..Len(q))
<1>1. PB!Max(s) = Max(s)
  BY DEF PB!Max, Max
<1>2. Len(q) \in Nat
  OBVIOUS
<1>3. Max(s) \in s
  BY <1>2, GreatestOf
<1>4. Max(s) \in 1..Len(q)
  BY <1>3
<1>5. q[Max(s)] \in Field
  BY <1>4
<1>6. QED
  BY <1>1, <1>3, <1>4, <1>5

\* What is written is what the fields cost.
LEMMA WrittenIs ==
  ASSUME NEW q \in Seq(Field)
  PROVE  PB!Written(q) = Total(Costs(q), Len(q))
<1> DEFINE n == Len(q)
           D == 1..n
           w == Costs(q)
           g == [s \in SUBSET D |-> TotalOf(w, s, n)]
<1>0. n \in Nat /\ DOMAIN q = D
  OBVIOUS
<1>1. \A i \in D : w[i] \in Nat /\ w[i] = Cost(q[i])
  <2>1. \A i \in D : q[i] \in Field
    OBVIOUS
  <2>2. QED
    BY <2>1, CostType DEF Costs
<1>2. ASSUME NEW s \in SUBSET D, s # {}
      PROVE  PB!Max(s) \in s /\ PB!Max(s) \in D /\ q[PB!Max(s)] \in Field /\ s \ {PB!Max(s)} \in SUBSET D
  BY <1>2, LastField
<1> HIDE DEF w, D, n
<1>3. /\ \A s : TotalOf(w, s, n) \in Nat
      /\ TotalOf(w, {}, n) = 0
      /\ TotalOf(w, D, n) = Total(w, n)
      /\ \A s : \A x \in s : x \in D => TotalOf(w, s, n) = w[x] + TotalOf(w, s \ {x}, n)
  BY <1>0, <1>1, TotalOfIs DEF D
<1>4. \A x \in Field : \A m \in Nat :
        m + PB!VarintSize(8 * x.number + 2) + PB!VarintSize(x.length) + x.length = Cost(x) + m
  <2> TAKE x \in Field
  <2> TAKE m \in Nat
  <2>1. x.number \in Ids /\ x.length \in Nat
    BY DEF Field
  <2>2. PB!VarintSize(8 * x.number + 2) = 1 /\ PB!VarintSize(x.length) \in Nat
    BY <2>1, TagSize, VarintType
  <2>3. \A a, b \in Nat : m + 1 + a + b = (1 + a + b) + m
    OBVIOUS
  <2>4. m + 1 + PB!VarintSize(x.length) + x.length = (1 + PB!VarintSize(x.length) + x.length) + m
    BY <2>1, <2>2, <2>3
  <2>5. QED
    BY <2>2, <2>4 DEF Cost
<1>5. WriteAll(g, q)
  <2>1. ASSUME NEW s \in SUBSET D, s # {}
        PROVE  g[s] = g[s \ {PB!Max(s)}] + PB!VarintSize(8 * q[PB!Max(s)].number + 2)
                        + PB!VarintSize(q[PB!Max(s)].length) + q[PB!Max(s)].length
    <3>1. PB!Max(s) \in s /\ PB!Max(s) \in D /\ q[PB!Max(s)] \in Field /\ s \ {PB!Max(s)} \in SUBSET D
      BY <1>2, <2>1
    <3>2. g[s] = Cost(q[PB!Max(s)]) + g[s \ {PB!Max(s)}] /\ g[s \ {PB!Max(s)}] \in Nat
      BY <1>1, <1>3, <3>1
    <3> HIDE DEF g
    <3>3. QED
      BY <1>4, <3>1, <3>2
  <2>2. g[{}] = 0 /\ g = [s \in SUBSET D |-> g[s]]
    BY <1>3
  <2> HIDE DEF g
  <2>3. QED
    BY <1>0, <2>1, <2>2 DEF WriteAll
<1>6. PICK f : f = (CHOOSE h : WriteAll(h, q)) /\ WriteAll(f, q)
  BY <1>5
<1>7. Adds(f, w, D)
  <2>1. f = [s \in SUBSET D |->
               IF s = {} THEN 0
               ELSE f[s \ {PB!Max(s)}] + PB!VarintSize(8 * q[PB!Max(s)].number + 2)
                      + PB!VarintSize(q[PB!Max(s)].length) + q[PB!Max(s)].length]
    BY <1>0, <1>6 DEF WriteAll
  <2>2. f[{}] = 0
    BY <2>1
  <2>3. ASSUME NEW s \in SUBSET D, s # {}, f[s \ {PB!Max(s)}] \in Nat
        PROVE  f[s] = w[PB!Max(s)] + f[s \ {PB!Max(s)}]
    <3>1. PB!Max(s) \in D /\ q[PB!Max(s)] \in Field
      BY <1>2, <2>3
    <3>2. f[s] = f[s \ {PB!Max(s)}] + PB!VarintSize(8 * q[PB!Max(s)].number + 2)
                   + PB!VarintSize(q[PB!Max(s)].length) + q[PB!Max(s)].length
      BY <2>1, <2>3
    <3>3. f[s] = Cost(q[PB!Max(s)]) + f[s \ {PB!Max(s)}]
      BY <1>4, <2>3, <3>1, <3>2
    <3>4. QED
      BY <1>1, <3>1, <3>3
  <2>4. QED
    BY <1>2, <2>2, <2>3 DEF Adds
<1>8. f[D] = TotalOf(w, D, n)
  <2>1. D \in SUBSET (1..n)
    BY DEF D
  <2>2. QED
    BY <1>0, <1>1, <1>7, <2>1, SumOver DEF D
<1>9. PB!Written(q) = Total(w, n)
  BY <1>0, <1>3, <1>6, <1>8, WrittenUnfolded
<1>10. QED
  BY <1>9 DEF w, n

ParseAll(f, q) ==
  f = [s \in SUBSET (DOMAIN q) |->
         IF s = {} THEN PB!NewPerson
         ELSE PB!Set(f[s \ {PB!Max(s)}], q[PB!Max(s)].number, q[PB!Max(s)].length)]

LEMMA ParseUnfolded ==
  ASSUME NEW q
  PROVE  PB!Parse(q) = (CHOOSE f : ParseAll(f, q))[DOMAIN q]
BY DEF PB!Parse, PB!FoldLeft, PB!MapThenFoldSet, ParseAll

\* The client's parser finds every member.
LEMMA ParseIs ==
  ASSUME NEW p \in [Ids -> Nat], NEW q \in Seq(Field),
         \A j \in 1..Len(q) : q[j].length = p[q[j].number],
         \A id \in Ids : p[id] # 0 => \E j \in 1..Len(q) : q[j].number = id
  PROVE  PB!Parse(q) = p
<1> DEFINE D       == 1..Len(q)
           Told(s) == {q[i].number : i \in s}
           g       == [s \in SUBSET D |-> Some(p, Told(s))]
<1>0. DOMAIN q = D /\ IsFiniteSet(D)
  <2>1. Len(q) \in Nat /\ DOMAIN q = D
    OBVIOUS
  <2>2. QED
    BY <2>1, FS_Interval
<1>1. g[{}] = PB!NewPerson
  BY IdsAre DEF Some, PB!NewPerson
<1>2. ASSUME NEW s \in SUBSET D, NEW m \in s
      PROVE  g[s] = PB!Set(g[s \ {m}], q[m].number, q[m].length)
  <2> DEFINE r == s \ {m}
  <2>1. q[m].number \in Ids /\ q[m].length = p[q[m].number] /\ r \in SUBSET D
    <3>1. m \in D /\ q[m] \in Field /\ r \in SUBSET D
      OBVIOUS
    <3>2. QED
      BY <3>1 DEF Field
  <2>2. \A id \in Ids : id \in Told(s) <=> id = q[m].number \/ id \in Told(r)
    OBVIOUS
  <2> HIDE DEF r, Told
  <2>3. Some(p, Told(s)) = [Some(p, Told(r)) EXCEPT ![q[m].number] = p[q[m].number]]
    BY <2>1, <2>2 DEF Some
  <2>4. QED
    BY <2>1, <2>3 DEF PB!Set, r
<1>3. ASSUME NEW s \in SUBSET D, s # {}
      PROVE  PB!Max(s) \in s
  BY <1>3, LastField
<1> HIDE DEF g, D
<1>4. ParseAll(g, q)
  <2>1. g = [s \in SUBSET D |-> g[s]]
    BY DEF g
  <2>2. QED
    BY <1>0, <1>1, <1>2, <1>3, <2>1 DEF ParseAll
<1>5. PICK f : f = (CHOOSE h : ParseAll(h, q)) /\ ParseAll(f, q)
  BY <1>4
<1>6. f = [s \in SUBSET D |->
             IF s = {} THEN PB!NewPerson
             ELSE PB!Set(f[s \ {PB!Max(s)}], q[PB!Max(s)].number, q[PB!Max(s)].length)]
  BY <1>0, <1>5 DEF ParseAll
<1>7. f[{}] = g[{}]
  BY <1>1, <1>6
<1>8. ASSUME NEW s \in SUBSET D, s # {}
      PROVE  \E x \in s : f[s \ {x}] = g[s \ {x}] => f[s] = g[s]
  <2>1. f[s] = PB!Set(f[s \ {PB!Max(s)}], q[PB!Max(s)].number, q[PB!Max(s)].length)
    BY <1>6, <1>8
  <2>2. PB!Max(s) \in s
    BY <1>3, <1>8
  <2>3. g[s] = PB!Set(g[s \ {PB!Max(s)}], q[PB!Max(s)].number, q[PB!Max(s)].length)
    BY <1>2, <2>2
  <2>4. f[s \ {PB!Max(s)}] = g[s \ {PB!Max(s)}] => f[s] = g[s]
    BY <2>1, <2>3
  <2>5. QED
    BY <2>2, <2>4
<1>9. f[D] = g[D]
  <2>1. Steps(f, g, D)
    BY <1>8 DEF Steps
  <2>2. QED
    BY <1>0, <1>7, <2>1, SameFold
<1>10. PB!Parse(q) = g[D]
  BY <1>0, <1>5, <1>9, ParseUnfolded
<1>11. g[D] = p
  <2>1. \A id \in Ids : id \notin Told(D) => p[id] = 0
    BY DEF D
  <2> HIDE DEF Told
  <2>2. g[D] = Some(p, Told(D))
    BY DEF g
  <2>3. QED
    BY <2>1, <2>2 DEF Some
<1>12. QED
  BY <1>10, <1>11

\* The size that is announced is the size, and a client reads the message.
LEMMA ProtobufFits ==
  ASSUME NEW p \in [Ids -> Nat]
  PROVE  /\ PB!Written(PB!InternalSerialize(p)) = PB!ByteSizeLong(p)
         /\ PB!Parse(PB!InternalSerialize(p)) = p
<1> DEFINE q == PB!InternalSerialize(p)
<1>1. /\ q \in Seq(Field)
      /\ \A j \in 1..Len(q) : q[j].length = p[q[j].number]
      /\ \A id \in Ids : p[id] # 0 => \E j \in 1..Len(q) : q[j].number = id
      /\ Total(Costs(q), Len(q)) = TotalOf(Price(p), {id \in Ids : p[id] # 0}, N)
  BY FieldsAre
<1> HIDE DEF q
<1>2. PB!Written(q) = PB!ByteSizeLong(p)
  BY <1>1, WrittenIs, ByteSizeIs
<1>3. PB!Parse(q) = p
  BY <1>1, ParseIs
<1>4. QED
  BY <1>2, <1>3 DEF q

-----------------------------------------------------------------------------
(* The message that is made of a record                                     *)

\* No field, or each that the message has a place for.
Full(fields) == DOMAIN fields = {} \/ fields \in [Names -> Lens]

LEMMA ArgsType ==
  ASSUME NEW k, NEW fields, Full(fields)
  PROVE  /\ Args(k, fields) \in [Ids -> Nat]
         /\ \A id \in Names :
              Args(k, fields)[id] = IF DOMAIN fields = {} THEN 0 ELSE fields[id]
         /\ Args(k, fields)[N] \in {KeyLen - 1, KeyLen}
<1> DEFINE key == IF k = "PROTOBUF" /\ DOMAIN fields # {} THEN KeyLen - 1 ELSE KeyLen
<1>1. KeyLen \in Nat /\ key \in Nat /\ key \in {KeyLen - 1, KeyLen} /\ Lens \subseteq Nat
  BY SerializersAssumption
<1>3. \A id \in Names : id \in Ids /\ id # N
  BY NAssumption DEF Ids, Names
<1>4. ASSUME NEW id \in Ids, id # N, DOMAIN fields # {}
      PROVE  fields[id] \in Nat
  <2>1. id \in Names
    BY <1>4, NAssumption DEF Ids, Names
  <2>2. QED
    BY <1>1, <1>4, <2>1 DEF Full
<1>5. Args(k, fields) = [id \in Ids |-> IF id = N THEN key
                                       ELSE IF DOMAIN fields = {} THEN 0 ELSE fields[id]]
  BY DEF Args
<1> HIDE DEF key
<1>6. \A id \in Ids : (IF id = N THEN key
                       ELSE IF DOMAIN fields = {} THEN 0 ELSE fields[id]) \in Nat
  <2> SUFFICES ASSUME NEW id \in Ids
               PROVE  (IF id = N THEN key
                       ELSE IF DOMAIN fields = {} THEN 0 ELSE fields[id]) \in Nat
    OBVIOUS
  <2>1. id # N /\ DOMAIN fields # {} => fields[id] \in Nat
    BY <1>4
  <2>2. QED
    BY <1>1, <2>1
<1>7. Args(k, fields) \in [Ids -> Nat]
  BY <1>5, <1>6
<1>8. ASSUME NEW id \in Names
      PROVE  Args(k, fields)[id] = IF DOMAIN fields = {} THEN 0 ELSE fields[id]
  BY <1>3, <1>5
<1>9. Args(k, fields)[N] = key
  BY <1>5, IdsAre
<1>10. QED
  BY <1>1, <1>7, <1>8, <1>9

LEMMA MuSerType ==
  ASSUME NEW fields, Full(fields)
  PROVE  Message("MuSer", Args("MuSer", fields)) \in Person
<1>1. MuSerMessage(Args("MuSer", fields)) \in Person
  BY ArgsType, MuSerFills DEF Person
<1>2. QED
  BY <1>1 DEF Message

\* What a class counts before it writes is what it writes.
Fits(k, p) ==
  CASE k = "MuSer"       -> Offset(p) = BufSize(p) /\ Len(Parts(p)) = IOVLen(p)
    [] k = "PROTOBUF"    -> PB!Written(PB!InternalSerialize(p)) = PB!ByteSizeLong(p)
    [] k = "FlatBuffers" -> TRUE

LEMMA MessageFits ==
  ASSUME NEW k \in Kinds, NEW fields, Full(fields)
  PROVE  Fits(k, Message(k, Args(k, fields)))
<1> DEFINE args == Args(k, fields)
<1>1. args \in [Ids -> Nat]
  BY ArgsType
<1> HIDE DEF args
<1>2. CASE k = "MuSer"
  <2>1. MuSerMessage(args) \in Person /\ MuSerMessage(args).bitmap = Ids
    BY <1>1, MuSerFills DEF Person
  <2>2. Message(k, args) = MuSerMessage(args)
    BY <1>2 DEF Message
  <2>3. QED
    BY <1>2, <2>1, <2>2, MuSerFits DEF Fits, args
<1>3. CASE k = "PROTOBUF"
  <2>1. Message(k, args) = args
    BY <1>1, <1>3, ProtobufFills DEF Message
  <2>2. QED
    BY <1>1, <1>3, <2>1, ProtobufFits DEF Fits, args
<1>4. CASE k = "FlatBuffers"
  BY <1>4 DEF Fits
<1>5. QED
  BY <1>2, <1>3, <1>4 DEF Kinds

\* A client finds each argument in its place.
LEMMA MessageReceived ==
  ASSUME NEW k \in Kinds, NEW args \in [Ids -> Nat]
  PROVE  /\ \A id \in Ids : Received(k, Message(k, args), id) = args[id]
         /\ k = "MuSer" => /\ Message(k, args).bitmap = Ids
                           /\ Readable(Message(k, args), Parts(Message(k, args)))
<1>1. CASE k = "MuSer"
  <2> DEFINE p == Message(k, args)
  <2>1. p = [bitmap |-> Ids, len |-> args]
    BY <1>1, MuSerFills DEF Message
  <2>2. p.bitmap = Ids /\ p.len = args
    BY <2>1
  <2> HIDE DEF p
  <2>3. Readable(p, Parts(p))
    BY <2>2, PartsReadable
  <2>4. \A id \in Ids : Received(k, p, id) = args[id]
    BY <1>1, <2>2 DEF Received
  <2>5. QED
    BY <2>2, <2>3, <2>4 DEF p
<1>2. CASE k = "PROTOBUF"
  <2>1. Message(k, args) = args
    BY <1>2, ProtobufFills DEF Message
  <2>2. QED
    BY <1>2, <2>1, ProtobufFits DEF Received
<1>3. CASE k = "FlatBuffers"
  <2>1. Message(k, args) = FlatMessage(args)
    BY <1>3 DEF Message
  <2>2. ASSUME NEW id \in Ids
        PROVE  Received(k, FlatMessage(args), id) = args[id]
    <3>1. FlatMessage(args).strings = args /\ FlatMessage(args).table = FB!CreatePerson(Each)
      BY DEF FlatMessage
    <3>2. FB!Get(FlatMessage(args).table, id) = id
      BY <3>1, FlatPlaces
    <3>3. QED
      BY <1>3, <3>1, <3>2 DEF Received
  <2>3. QED
    BY <1>3, <2>1, <2>2
<1>4. QED
  BY <1>1, <1>2, <1>3 DEF Kinds

LEMMA NoFields == <<>> \in Records /\ Full(<<>>)
<1>1. DOMAIN <<>> = {} /\ <<>> \in [1..0 -> Lens] /\ 0 \in 0..N - 1
  BY NAssumption
<1>2. QED
  BY <1>1 DEF Records, Full

\* One more string is read.
LEMMA ReadOne ==
  ASSUME NEW fields \in Records, NEW n \in Lens, Len(fields) + 1 \in Names
  PROVE  Append(fields, n) \in Records
<1>1. PICK l \in 0..N - 1 : fields \in [1..l -> Lens]
  BY DEF Records
<1>2. fields \in Seq(Lens) /\ Len(fields) = l /\ l \in Nat /\ N - 1 \in Nat
  BY <1>1, NAssumption
<1>3. l + 1 \in 0..N - 1
  BY <1>2 DEF Names
<1> DEFINE more == Append(fields, n)
<1>4. more \in Seq(Lens) /\ Len(more) = l + 1
  BY <1>2
<1> HIDE DEF more
<1>5. more \in [1..l + 1 -> Lens]
  BY <1>4
<1>6. QED
  BY <1>3, <1>5 DEF Records, more

\* The last one is read.
LEMMA ReadAll ==
  ASSUME NEW fields \in Records, Len(fields) + 1 \notin Names
  PROVE  fields \in [Names -> Lens]
<1>1. PICK l \in 0..N - 1 : fields \in [1..l -> Lens]
  BY DEF Records
<1>2. Len(fields) = l /\ l \in Nat /\ N - 1 \in Nat
  BY <1>1, NAssumption
<1>3. l = N - 1
  BY <1>1, <1>2 DEF Names
<1>4. QED
  BY <1>1, <1>3 DEF Names

-----------------------------------------------------------------------------
(* The process and its Logger *)

\* A thread outside its loop's read has the number of its reply.
Numbered ==
  /\ replies \in 0..MaxReplies
  /\ pc \in [Conn -> {"idle", "fill", "sent", "store", "move", "flush", "empty", "log"}]
  /\ reply \in [Conn -> 0..replies]
  /\ \A c \in Conn : pc[c] # "idle" => reply[c] \in 1..replies

LEMMA NumberedInit == Init => Numbered
  BY MaxRepliesAssumption DEF Init, Numbered

\* A step of a thread in serialize, which leaves the number of its reply.
LEMMA NumberedGoto ==
  ASSUME Numbered, NEW c \in Conn, NEW from, NEW to \in {"store", "move", "flush", "empty", "log"},
         from # "idle", Goto(c, from, to), UNCHANGED reply
  PROVE  Numbered'
  BY DEF Numbered, Goto

\* A step of a thread that fills its message.
Fills(c) ==
  \/ \E names \in SUBSET (Names \cup {Other}) : Call(c, names)
  \/ \E n \in Lens : ReadField(c, n)
  \/ Serialize(c)

\* It touches neither the stream nor the log; it begins with a number of its own, and
\* at most its own reply is not sent.
LEMMA FillStep ==
  ASSUME Numbered, NEW c \in Conn, Fills(c)
  PROVE  /\ UNCHANGED <<kind, main, starts, other, csv, row, slot, buffer, end, written,
                         alone, strayed>>
         /\ UNCHANGED logger
         /\ main = "up" /\ pc[c] \in {"idle", "fill"} /\ pc'[c] \in {"fill", "sent"}
         /\ pc' = [pc EXCEPT ![c] = pc'[c]]
         /\ \A d \in Conn \ {c} : pc'[d] = pc[d] /\ reply'[d] = reply[d]
         /\ pc[c] = "idle" => /\ replies < MaxReplies /\ replies' = replies + 1
                              /\ reply' = [reply EXCEPT ![c] = replies'] /\ failed' = failed
         /\ pc[c] = "fill" => /\ replies' = replies /\ reply' = reply
                              /\ failed' \in {failed, failed \cup {reply[c]}}
  <1> USE DEF Numbered
  <1>1. CASE \E names \in SUBSET (Names \cup {Other}) : Call(c, names)
    BY <1>1 DEF Call, process, stream, history
  <1>2. CASE \E n \in Lens : ReadField(c, n)
    BY <1>2 DEF ReadField, Goto, process, stream, history
  <1>3. CASE Serialize(c)
    BY <1>3 DEF Serialize, Goto, process, stream, history
  <1> QED BY <1>1, <1>2, <1>3 DEF Fills

LEMMA NumberedStep == Numbered /\ [Next]_vars => Numbered'
  <1> SUFFICES ASSUME Numbered, [Next]_vars PROVE Numbered'
    OBVIOUS
  <1>1. CASE Start \/ Die
    BY <1>1 DEF Start, Die, NoThreads, Numbered
  <1>2. CASE UNCHANGED <<pc, reply, replies>>
    BY <1>2 DEF Numbered
  <1>3. ASSUME OpenLog \/ SetLevel \/ Bind \/ BindFails \/ OtherStarts \/ OtherLogs \/ OtherEnds \/ LoggerStep
        PROVE  UNCHANGED <<pc, reply, replies>>
    BY <1>3 DEF OpenLog, SetLevel, Bind, BindFails, OtherStarts, OtherLogs, OtherEnds, LoggerStep, message
  <1>4. ASSUME NEW c \in Conn, Fills(c)
        PROVE  Numbered'
    <2>1. CASE pc[c] = "idle"
      <3>1. /\ replies < MaxReplies /\ replies' = replies + 1
            /\ reply' = [reply EXCEPT ![c] = replies'] /\ pc' = [pc EXCEPT ![c] = pc'[c]]
            /\ pc'[c] \in {"fill", "sent"}
        BY <1>4, <2>1, FillStep
      <3>2. /\ replies' \in 0..MaxReplies /\ replies' \in 1..replies'
            /\ \A r \in 0..replies : r \in 0..replies'
        BY <3>1, MaxRepliesAssumption DEF Numbered
      <3>3. reply' \in [Conn -> 0..replies']
        BY <3>1, <3>2 DEF Numbered
      <3>4. ASSUME NEW d \in Conn, pc'[d] # "idle"
            PROVE  reply'[d] \in 1..replies'
        BY <3>1, <3>2, <3>4, MaxRepliesAssumption DEF Numbered
      <3>5. pc' \in [Conn -> {"idle", "fill", "sent", "store", "move", "flush", "empty", "log"}]
        BY <3>1 DEF Numbered
      <3> QED BY <3>2, <3>3, <3>4, <3>5 DEF Numbered
    <2>2. CASE pc[c] = "fill"
      <3>1. /\ replies' = replies /\ reply' = reply /\ pc' = [pc EXCEPT ![c] = pc'[c]]
            /\ pc'[c] \in {"fill", "sent"}
        BY <1>4, <2>2, FillStep
      <3> QED BY <2>2, <3>1 DEF Numbered
    <2> QED BY <1>4, <2>1, <2>2, FillStep
  <1>5. ASSUME NEW c \in Conn, ReadFails(c)
        PROVE  Numbered'
    BY <1>5, <1>1 DEF ReadFails
  <1>6. ASSUME NEW c \in Conn, LogTiming(c) \/ Store(c) \/ Move(c) \/ Flush(c) \/ Empty(c)
        PROVE  Numbered'
    <2>1. CASE LogTiming(c)
      BY <2>1, NumberedGoto DEF LogTiming
    <2>2. CASE Store(c)
      BY <2>2, NumberedGoto DEF Store
    <2>3. CASE Move(c)
      BY <2>3, NumberedGoto DEF Move
    <2>4. CASE Flush(c)
      BY <2>4, NumberedGoto DEF Flush
    <2>5. CASE Empty(c)
      BY <2>5, NumberedGoto DEF Empty, stream
    <2> QED BY <1>6, <2>1, <2>2, <2>3, <2>4, <2>5
  <1>7. ASSUME NEW c \in Conn, LogSent(c)
        PROVE  Numbered'
    BY <1>7 DEF LogSent, Goto, Numbered
  <1>8. CASE UNCHANGED vars
    BY <1>8, <1>2 DEF vars, message
  <1> QED BY <1>1, <1>2, <1>3, <1>4, <1>5, <1>6, <1>7, <1>8 DEF Next, Fills

-----------------------------------------------------------------------------
\* Each step of the process is a step of its Logger, or leaves the Logger alone.
LEMMA LoggerSteps == Numbered /\ [Next]_vars => [L!Next]_L!vars
  <1> SUFFICES ASSUME Numbered, [Next]_vars PROVE [L!Next]_L!vars
    OBVIOUS
  <1>1. CASE Start \/ Die
    BY <1>1 DEF Start, Die, L!Next
  <1>2. CASE OpenLog
    BY <1>2 DEF OpenLog, L!Next
  <1>3. CASE SetLevel
    BY <1>3 DEF SetLevel, L!Next, L!DEBUG, L!Level
  <1>4. CASE LoggerStep
    BY <1>4 DEF LoggerStep, L!Next
  <1>5. CASE UNCHANGED logger
    BY <1>5 DEF logger, L!vars
  <1>6. ASSUME OtherStarts \/ OtherEnds \/ UNCHANGED vars
        PROVE  UNCHANGED logger
    BY <1>6 DEF OtherStarts, OtherEnds, vars, logger
  <1>7. ASSUME NEW c \in Conn,
               Fills(c) \/ LogTiming(c) \/ Store(c) \/ Move(c) \/ Flush(c) \/ Empty(c)
        PROVE  UNCHANGED logger
    BY <1>7, FillStep DEF LogTiming, Store, Move, Flush, Empty, logger
  <1>8. ASSUME NEW c \in Conn, ReadFails(c)
        PROVE  [L!Next]_L!vars
    BY <1>8, <1>1 DEF ReadFails
  <1>9. ASSUME NEW c \in Conn, LogSent(c)
        PROVE  L!Next
    <2>1. reply[c] \in 1..MaxReplies
      BY <1>9, MaxRepliesAssumption DEF LogSent, Goto, Numbered
    <2>2. L!INFO \in L!Level
      BY DEF L!INFO, L!Level
    <2>3. L!Log(c, L!INFO, reply[c])
      BY <1>9 DEF LogSent
    <2> QED BY <2>1, <2>2, <2>3 DEF L!Next
  <1>10. CASE Bind \/ BindFails \/ OtherLogs
    BY <1>10 DEF Bind, BindFails, OtherLogs, L!Next
  <1> QED BY <1>1, <1>2, <1>3, <1>4, <1>5, <1>6, <1>7, <1>8, <1>9, <1>10 DEF Next, Fills

\* The process uses its Logger as module Logger says: the log survives the process,
\* and mutex, level and open file start anew (Logger::getInstance, main).
THEOREM UsesLogger == Spec => L!Spec
  <1>1. Init => L!Init
    BY DEF Init
  <1> QED BY <1>1, NumberedInit, NumberedStep, LoggerSteps, PTL DEF Spec, L!Spec

\* What is proved of every Logger is true of this one.
LEMMA LoggerInv == Spec => []LP!LInv
  <1>1. L!Init => LP!Init
    BY DEF L!Init, LP!Init, L!INFO, LP!INFO, L!NoLine, LP!NoLine
  <1>2. [L!Next]_L!vars => [LP!Next]_LP!vars
    BY DEF L!Next, LP!Next, L!vars, LP!vars, L!Fresh, LP!Fresh, L!SetLogFile, LP!SetLogFile,
           L!SetLogLevel, LP!SetLogLevel, L!LogMain, LP!LogMain, L!Log, LP!Log, L!Suppressed, LP!Suppressed,
           L!Lock, LP!Lock, L!Write, LP!Write, L!Level, LP!Level, L!INFO, LP!INFO,
           L!NoLine, LP!NoLine
  <1> QED BY <1>1, <1>2, UsesLogger, LP!LogInvariant, PTL DEF L!Spec, LP!Spec

LEMMA LoggerTypes == Spec => []L!TypeOK
  <1>1. LP!LInv => L!TypeOK
    BY DEF LP!LInv, LP!TypeOK, L!TypeOK, LP!Level, L!Level, LP!Line, L!Line, LP!NoLine, L!NoLine
  <1> QED BY <1>1, LoggerInv, PTL

\* Over all starts and deaths of the process, the lines of its threads stand in
\* mustore.log in the order in which the threads read the clock (Logger::log), whatever
\* a second process writes between them.
THEOREM LogLinesInReadOrder == Spec => []LinesInReadOrder
  <1>1. LP!LInv => LinesInReadOrder
    BY DEF LP!LInv, LinesInReadOrder, L!LinesInReadOrder, LP!LinesInReadOrder
  <1> QED BY <1>1, LoggerInv, PTL

-----------------------------------------------------------------------------
(* The rows.  The inductive invariant has two layers.  The first is about    *)
(* one row: a thread that is alone in logTiming finds the buffer empty, or   *)
(* with the header of a new file, since the last thread that left emptied    *)
(* it.  The second is about the file, as long as no row went astray.         *)

Timing == {"store", "move", "flush", "empty"}

StreamTypes ==
  /\ kind \in Kinds
  /\ csv \in Seq(Cell) /\ buffer \in Seq(Cell) /\ end \in Nat
  /\ row \in [Conn -> Row \cup {Junk}]
  /\ slot \in [Conn -> Nat]
  /\ written \in [Conn -> Seq(Cell)]
  /\ alone \in [Conn -> BOOLEAN] /\ strayed \in BOOLEAN
  /\ failed \subseteq 1..replies

\* Threads run while main() is in its server only.
Quiet == main # "up" => \A c \in Conn : pc[c] = "idle"

\* What alone says of the present.
Lone ==
  \A c, d \in Conn : alone[c] /\ pc[c] \in Timing /\ pc[d] \in Timing => d = c

\* The buffer between two rows: empty, or with the header only.
Clean == end = 0 \/ (end = 1 /\ Len(buffer) >= 1 /\ buffer[1] = Header)

Left == (\A c \in Conn : pc[c] \notin Timing) => Clean

\* What a thread that is alone made of it, by its place.
Undisturbed(c) ==
  /\ pc[c] = "store" => Clean
  /\ pc[c] = "move" =>
       Clean /\ slot[c] = end + 1 /\ Len(buffer) >= end + 1 /\ buffer[end + 1] = row[c]
  /\ pc[c] = "flush" =>
       \/ end = 1 /\ Len(buffer) >= 1 /\ buffer[1] = row[c]
       \/ end = 2 /\ Len(buffer) >= 2 /\ buffer[1] = Header /\ buffer[2] = row[c]
  /\ pc[c] = "empty" => written[c] \in {<<row[c]>>, <<Header, row[c]>>}

RowInv ==
  /\ Numbered /\ StreamTypes /\ Quiet /\ Lone /\ Left
  /\ \A c \in Conn : alone[c] => Undisturbed(c)

\* A row tells its reply and what became of it; no two threads have one reply.
RowsTell ==
  /\ \A c \in Conn : pc[c] \in {"store", "move", "flush"} =>
       row[c] = [reply |-> reply[c], type |-> SerializerType,
                 size |-> DataSize(Result(kind, reply[c] \notin failed))]
  /\ \A c, d \in Conn : c # d /\ pc[c] # "idle" /\ pc[d] # "idle" => reply[c] # reply[d]

\* The buffer has the header as long as the file does not.
HeaderDue ==
  /\ main # "down" /\ (\A c \in Conn : pc[c] \notin {"flush", "empty"}) =>
       (csv = <<>> <=> end = 1)
  /\ \A c \in Conn : pc[c] = "flush" => (csv = <<>> <=> end = 2)
  /\ \A c \in Conn : pc[c] = "empty" => csv # <<>>

HasRow(rows, r) == \E j \in 2..Len(rows) : rows[j].reply = r

\* Of which replies the file has rows, and the log has lines.
Kept ==
  /\ \A r \in 1..MaxReplies : HasRow(csv, r) => r <= replies
  /\ \A c \in Conn : pc[c] \in {"fill", "sent", "store", "move", "flush"} => ~HasRow(csv, reply[c])
  /\ \A c \in Conn : pc[c] \in {"empty", "log"} => HasRow(csv, reply[c])
  /\ \A c \in Conn : at[c] # "out" => HasRow(csv, line[c].text)
  /\ \A i \in 1..Len(files[LogName]) : files[LogName][i] # MainLine =>
       HasRow(csv, files[LogName][i].text)

\* Two threads that were in logTiming at once are what strays.
Unstrayed == ~strayed => \A c \in Conn : pc[c] \in Timing => alone[c]

FileInv ==
  /\ RowsTell /\ Unstrayed
  /\ ~strayed => HeaderDue /\ Kept /\ FileIsHeaderAndRows

-----------------------------------------------------------------------------
(* The first layer: one row *)

LEMMA MaxOfTwo ==
  ASSUME NEW a \in Nat, NEW b \in Nat
  PROVE  Max({a, b}) \in Nat /\ Max({a, b}) >= a /\ Max({a, b}) >= b
<1> DEFINE m == IF a >= b THEN a ELSE b
<1>1. m \in {a, b} /\ \A y \in {a, b} : m >= y
  OBVIOUS
<1> HIDE DEF m
<1>2. Max({a, b}) \in {a, b} /\ \A y \in {a, b} : Max({a, b}) >= y
  BY <1>1 DEF Max
<1>3. QED
  BY <1>2

\* The store of a row reaches one cell, and makes the memory as long as it takes.
LEMMA StoreCell ==
  ASSUME RowInv, NEW c \in Conn, Store(c)
  PROVE  /\ buffer' \in Seq(Cell)
         /\ Len(buffer') >= end + 1
         /\ buffer'[end + 1] = row[c]
         /\ \A i \in 1..end : i <= Len(buffer) => buffer'[i] = buffer[i]
<1> DEFINE n == Max({Len(buffer), end + 1})
<1>1. Len(buffer) \in Nat /\ end \in Nat /\ end + 1 \in Nat /\ buffer \in Seq(Cell)
  BY DEF RowInv, StreamTypes
<1>2. n \in Nat /\ n >= Len(buffer) /\ n >= end + 1
  BY <1>1, MaxOfTwo
<1>3. buffer' = [i \in 1..n |-> IF i = end + 1 THEN row[c]
                                ELSE IF i <= Len(buffer) THEN buffer[i] ELSE Junk]
  BY DEF Store
<1> HIDE DEF n
<1>4. row[c] \in Cell /\ Junk \in Cell
  BY DEF RowInv, StreamTypes, Cell
<1>5. ASSUME NEW i \in 1..n
      PROVE  (IF i = end + 1 THEN row[c]
              ELSE IF i <= Len(buffer) THEN buffer[i] ELSE Junk) \in Cell
  <2>1. i <= Len(buffer) => buffer[i] \in Cell
    BY <1>1, <1>2
  <2>2. QED
    BY <1>4, <2>1
<1>6. buffer' \in [1..n -> Cell]
  BY <1>3, <1>5
<1>7. buffer' \in Seq(Cell) /\ Len(buffer') = n
  BY <1>2, <1>3, <1>6
<1>8. QED
  BY <1>1, <1>2, <1>3, <1>7

\* What a flush writes, whatever the buffer is.
LEMMA FlushWrites ==
  ASSUME RowInv, NEW c \in Conn, Flush(c)
  PROVE  /\ written'[c] = [i \in 1..end |-> IF i <= Len(buffer) THEN buffer[i] ELSE Junk]
         /\ written'[c] \in Seq(Cell)
         /\ written' \in [Conn -> Seq(Cell)]
         /\ csv' = csv \o written'[c]
         /\ \A d \in Conn \ {c} : written'[d] = written[d]
<1> DEFINE w == [i \in 1..end |-> IF i <= Len(buffer) THEN buffer[i] ELSE Junk]
<1>1. end \in Nat /\ buffer \in Seq(Cell) /\ Junk \in Cell
  BY DEF RowInv, StreamTypes, Cell
<1>2. ASSUME NEW i \in 1..end PROVE (IF i <= Len(buffer) THEN buffer[i] ELSE Junk) \in Cell
  BY <1>1
<1>3. w \in Seq(Cell)
  BY <1>1, <1>2
<1>4. written' = [written EXCEPT ![c] = w] /\ csv' = csv \o written'[c]
  BY DEF Flush
<1> HIDE DEF w
<1>5. written \in [Conn -> Seq(Cell)]
  BY DEF RowInv, StreamTypes
<1>6. written'[c] = w /\ written' \in [Conn -> Seq(Cell)]
  BY <1>3, <1>4, <1>5
<1>7. QED
  BY <1>3, <1>4, <1>5, <1>6 DEF w

\* What logTiming writes for c in its row.
RowOf(c) == [reply |-> reply[c], type |-> SerializerType,
             size |-> DataSize(Result(kind, reply[c] \notin failed))]

LEMMA RowOfType ==
  ASSUME RowInv, NEW c \in Conn, pc[c] # "idle"
  PROVE  RowOf(c) \in Row
<1>1. reply[c] \in 1..MaxReplies
  BY MaxRepliesAssumption DEF RowInv, Numbered
<1>2. SerializerType \in {"MuSer", ""}
  BY DEF SerializerType
<1>3. DataSize(Result(kind, reply[c] \notin failed)) \in {"size", "SIZE_MAX"}
  BY DEF DataSize, Result
<1>4. QED
  BY <1>1, <1>2, <1>3 DEF RowOf, Row

\* The rows that the closing of the stream writes: none, or the header.
LEMMA ClosedStream ==
  ASSUME RowInv, BindFails
  PROVE  /\ csv' \in Seq(Cell)
         /\ end = 0 => csv' = csv
         /\ end # 0 => /\ end = 1 /\ Len(csv') = Len(csv) + 1
                       /\ csv'[Len(csv) + 1] = Header
                       /\ \A i \in 1..Len(csv) : csv'[i] = csv[i]
<1>1. \A c \in Conn : pc[c] = "idle"
  BY DEF RowInv, Quiet, BindFails
<1>2. Clean
  BY <1>1 DEF RowInv, Left, Timing
<1>3. buffer \in Seq(Cell) /\ csv \in Seq(Cell) /\ csv' = csv \o SubSeq(buffer, 1, end)
  BY DEF RowInv, StreamTypes, BindFails
<1>4. CASE end = 0
  <2>1. SubSeq(buffer, 1, 0) = <<>>
    BY <1>3
  <2>2. QED
    BY <1>3, <1>4, <2>1
<1>5. CASE end = 1 /\ Len(buffer) >= 1 /\ buffer[1] = Header
  <2> DEFINE s == SubSeq(buffer, 1, 1)
  <2>1. s \in Seq(Cell) /\ Len(s) = 1 /\ s[1] = Header
    BY <1>3, <1>5
  <2> HIDE DEF s
  <2>2. csv' = csv \o s
    BY <1>3, <1>5 DEF s
  <2>3. QED
    BY <1>3, <1>5, <2>1, <2>2
<1>6. QED
  BY <1>2, <1>4, <1>5 DEF Clean

LEMMA StreamTypesStep == RowInv /\ [Next]_vars => StreamTypes'
<1> SUFFICES ASSUME RowInv, [Next]_vars PROVE StreamTypes'
  OBVIOUS
<1>0. StreamTypes /\ Header \in Cell /\ <<>> \in Seq(Cell)
  BY DEF RowInv, Cell
<1>1. CASE Start
  <2>1. buffer' \in Seq(Cell) /\ end' \in Nat
    BY <1>0, <1>1 DEF Start, OpenCsv
  <2>2. UNCHANGED <<kind, csv, strayed, replies, failed>>
    BY <1>1 DEF Start, NoThreads
  <2>3. /\ row' \in [Conn -> Row \cup {Junk}] /\ slot' \in [Conn -> Nat]
        /\ written' \in [Conn -> Seq(Cell)] /\ alone' \in [Conn -> BOOLEAN]
    BY <1>0, <1>1 DEF Start, NoThreads
  <2>4. QED
    BY <1>0, <2>1, <2>2, <2>3 DEF StreamTypes
<1>2. CASE Die
  <2>1. buffer' = <<>> /\ end' = 0 /\ UNCHANGED <<kind, csv, strayed, replies, failed>>
    BY <1>2 DEF Die, NoThreads
  <2>2. /\ row' \in [Conn -> Row \cup {Junk}] /\ slot' \in [Conn -> Nat]
        /\ written' \in [Conn -> Seq(Cell)] /\ alone' \in [Conn -> BOOLEAN]
    BY <1>0, <1>2 DEF Die, NoThreads
  <2>3. QED
    BY <1>0, <2>1, <2>2 DEF StreamTypes
<1>3. CASE BindFails
  <2>1. csv' \in Seq(Cell)
    BY <1>3, ClosedStream
  <2>2. /\ buffer' = <<>> /\ end' = 0
        /\ UNCHANGED <<kind, row, slot, written, alone, strayed, replies, failed>>
    BY <1>3 DEF BindFails, message, history
  <2>3. QED
    BY <1>0, <2>1, <2>2 DEF StreamTypes
<1>4. CASE OtherEnds
  <2>1. csv' \in Seq(Cell) /\ strayed' \in BOOLEAN
    BY <1>0, <1>4 DEF OtherEnds, StreamTypes
  <2>2. UNCHANGED <<kind, row, slot, buffer, end, written, alone, replies, failed>>
    BY <1>4 DEF OtherEnds, stream, message
  <2>3. QED
    BY <1>0, <2>1, <2>2 DEF StreamTypes
<1>5. CASE UNCHANGED <<kind, csv, stream, history, replies, failed>>
  BY <1>0, <1>5 DEF StreamTypes, stream, history
<1>6. ASSUME OpenLog \/ SetLevel \/ Bind \/ OtherStarts \/ OtherLogs \/ LoggerStep \/ UNCHANGED vars
      PROVE  UNCHANGED <<kind, csv, stream, history, replies, failed>>
  BY <1>6 DEF OpenLog, SetLevel, Bind, OtherStarts, OtherLogs, LoggerStep, vars, process, message
<1>7. ASSUME NEW c \in Conn, Fills(c)
      PROVE  StreamTypes'
  <2>1. UNCHANGED <<kind, csv, row, slot, buffer, end, written, alone, strayed>>
    BY <1>7, FillStep DEF RowInv
  <2>2. replies \in Nat /\ (pc[c] = "fill" => reply[c] \in 1..replies)
    BY MaxRepliesAssumption DEF RowInv, Numbered
  <2>3. failed' \subseteq 1..replies'
    <3>1. \/ replies' = replies + 1 /\ failed' = failed
          \/ /\ replies' = replies /\ failed' \in {failed, failed \cup {reply[c]}}
             /\ reply[c] \in 1..replies
      BY <1>7, <2>2, FillStep DEF RowInv
    <3>2. failed \subseteq 1..replies
      BY <1>0 DEF StreamTypes
    <3>3. CASE replies' = replies + 1 /\ failed' = failed
      BY <2>2, <3>2, <3>3
    <3>4. CASE /\ replies' = replies /\ failed' \in {failed, failed \cup {reply[c]}}
               /\ reply[c] \in 1..replies
      BY <3>2, <3>4
    <3>5. QED
      BY <3>1, <3>3, <3>4
  <2>4. QED
    BY <1>0, <2>1, <2>3 DEF StreamTypes
<1>8. ASSUME NEW c \in Conn, ReadFails(c)
      PROVE  StreamTypes'
  BY <1>2, <1>8 DEF ReadFails
<1>9. ASSUME NEW c \in Conn, LogTiming(c)
      PROVE  StreamTypes'
  <2>1. /\ UNCHANGED <<kind, csv, slot, buffer, end, written, replies, failed>>
        /\ row' = [row EXCEPT ![c] = RowOf(c)] /\ pc[c] = "sent"
    BY <1>9 DEF LogTiming, Goto, process, RowOf
  <2>2. row' \in [Conn -> Row \cup {Junk}]
    BY <1>0, <2>1, RowOfType DEF StreamTypes
  <2>3. alone' \in [Conn -> BOOLEAN] /\ strayed' \in BOOLEAN
    <3> DEFINE in == {d \in Conn \ {c} : pc[d] \in {"store", "move", "flush", "empty"}}
    <3>1. /\ alone' = [d \in Conn |-> IF d = c THEN in = {} ELSE alone[d] /\ d \notin in]
          /\ strayed' = (strayed \/ in # {})
      BY <1>9 DEF LogTiming
    <3> HIDE DEF in
    <3>2. strayed' \in BOOLEAN
      BY <3>1
    <3>3. \A d \in Conn : (IF d = c THEN in = {} ELSE alone[d] /\ d \notin in) \in BOOLEAN
      OBVIOUS
    <3>4. QED
      BY <3>1, <3>2, <3>3
  <2>4. QED
    BY <1>0, <2>1, <2>2, <2>3 DEF StreamTypes
<1>10. ASSUME NEW c \in Conn, Store(c)
       PROVE  StreamTypes'
  <2>1. /\ UNCHANGED <<kind, csv, row, end, written, alone, strayed, replies, failed>>
        /\ slot' = [slot EXCEPT ![c] = end + 1]
    BY <1>10 DEF Store, Goto, process, history
  <2>2. buffer' \in Seq(Cell)
    BY <1>10, StoreCell
  <2>3. QED
    BY <1>0, <2>1, <2>2 DEF StreamTypes
<1>11. ASSUME NEW c \in Conn, Move(c)
       PROVE  StreamTypes'
  <2>1. /\ UNCHANGED <<kind, csv, row, buffer, written, alone, strayed, replies, failed>>
        /\ slot' = [slot EXCEPT ![c] = 0] /\ end' \in {slot[c], end + 1}
    BY <1>11 DEF Move, Goto, process, history
  <2>2. end' \in Nat
    BY <1>0, <2>1 DEF StreamTypes
  <2>3. QED
    BY <1>0, <2>1, <2>2 DEF StreamTypes
<1>12. ASSUME NEW c \in Conn, Flush(c)
       PROVE  StreamTypes'
  <2>1. UNCHANGED <<kind, row, slot, buffer, end, alone, strayed, replies, failed>>
    BY <1>12 DEF Flush, Goto, process, history
  <2>2. csv' \in Seq(Cell) /\ written' \in [Conn -> Seq(Cell)]
    <3>1. written'[c] \in Seq(Cell) /\ csv' = csv \o written'[c] /\ written' \in [Conn -> Seq(Cell)]
      BY <1>12, FlushWrites
    <3>2. QED
      BY <1>0, <3>1 DEF StreamTypes
  <2>3. QED
    BY <1>0, <2>1, <2>2 DEF StreamTypes
<1>13. ASSUME NEW c \in Conn, Empty(c)
       PROVE  StreamTypes'
  <2>1. /\ UNCHANGED <<kind, csv, slot, buffer, alone, strayed, replies, failed>>
        /\ end' = 0 /\ row' = [row EXCEPT ![c] = Junk] /\ written' = [written EXCEPT ![c] = <<>>]
    BY <1>13 DEF Empty, Goto, process, history
  <2>2. QED
    BY <1>0, <2>1 DEF StreamTypes
<1>14. ASSUME NEW c \in Conn, LogSent(c)
       PROVE  UNCHANGED <<kind, csv, stream, history, replies, failed>>
  BY <1>14 DEF LogSent, Goto, process
<1>15. QED
  BY <1>1, <1>2, <1>3, <1>4, <1>5, <1>6, <1>7, <1>8, <1>9, <1>10, <1>11, <1>12, <1>13, <1>14 DEF Next, Fills

\* Where a thread is, and where the others are, after a step of c in logTiming.
LEMMA GoesTo ==
  ASSUME Numbered, NEW c \in Conn, NEW from, NEW to, Goto(c, from, to)
  PROVE  /\ main = "up" /\ main' = "up" /\ pc[c] = from /\ pc'[c] = to
         /\ \A d \in Conn \ {c} : pc'[d] = pc[d]
         /\ UNCHANGED <<kind, starts, other, replies>>
BY DEF Goto, Numbered, process

LEMMA QuietStep == Numbered /\ Quiet /\ [Next]_vars => Quiet'
<1> SUFFICES ASSUME Numbered, Quiet, [Next]_vars PROVE Quiet'
  OBVIOUS
<1>1. CASE Start \/ Die
  BY <1>1 DEF Start, Die, NoThreads, Quiet
<1>2. CASE OpenLog \/ SetLevel \/ Bind \/ BindFails \/ OtherStarts \/ OtherLogs \/ OtherEnds \/ LoggerStep
           \/ UNCHANGED vars
  BY <1>2 DEF OpenLog, SetLevel, Bind, BindFails, OtherStarts, OtherLogs, OtherEnds, LoggerStep, vars,
              process, Quiet
<1>3. ASSUME NEW c \in Conn, Fills(c)
      PROVE  Quiet'
  BY <1>3, FillStep DEF Quiet
<1>4. ASSUME NEW c \in Conn, ReadFails(c)
      PROVE  Quiet'
  BY <1>1, <1>4 DEF ReadFails
<1>5. ASSUME NEW c \in Conn,
             LogTiming(c) \/ Store(c) \/ Move(c) \/ Flush(c) \/ Empty(c) \/ LogSent(c)
      PROVE  Quiet'
  BY <1>5 DEF LogTiming, Store, Move, Flush, Empty, LogSent, Goto, process, Quiet
<1>6. QED
  BY <1>1, <1>2, <1>3, <1>4, <1>5 DEF Next, Fills

\* The parts of the invariant that are about threads in logTiming.
Rows == Lone /\ Left /\ \A c \in Conn : alone[c] => Undisturbed(c)

\* A process that starts or has ended has no thread, and a clean buffer.
LEMMA NobodyLeft ==
  ASSUME \A c \in Conn : pc'[c] = "idle", Clean'
  PROVE  Rows'
BY DEF Rows, Lone, Left, Undisturbed, Timing

\* Steps elsewhere: no thread comes to logTiming or leaves it.
LEMMA ElsewhereRows ==
  ASSUME Rows, UNCHANGED <<row, slot, buffer, end, written, alone>>,
         \A d \in Conn : pc'[d] = pc[d] \/ (pc[d] \notin Timing /\ pc'[d] \notin Timing)
  PROVE  Rows'
<1>1. Lone'
  BY DEF Rows, Lone
<1>2. Clean => Clean'
  BY DEF Clean
<1>3. Left'
  BY <1>2 DEF Rows, Left
<1>4. ASSUME NEW d \in Conn, alone'[d]
      PROVE  Undisturbed(d)'
  <2>1. CASE pc'[d] = pc[d]
    BY <1>2, <1>4, <2>1 DEF Rows, Undisturbed
  <2>2. CASE pc'[d] \notin Timing
    BY <2>2 DEF Undisturbed, Timing
  <2>3. QED
    BY <2>1, <2>2
<1>5. QED
  BY <1>1, <1>3, <1>4 DEF Rows

\* A step of c within logTiming does not disturb a thread that is alone.
LEMMA OnlyItsOwn ==
  ASSUME Rows, NEW c \in Conn, pc[c] \in Timing, alone' = alone,
         \A d \in Conn \ {c} : pc'[d] = pc[d],
         alone[c] => Undisturbed(c)',
         pc'[c] \in Timing \/ Clean'
  PROVE  Rows'
<1>1. Lone'
  BY DEF Rows, Lone
<1>2. Left'
  BY DEF Left
<1>3. ASSUME NEW d \in Conn \ {c}, alone'[d]
      PROVE  Undisturbed(d)'
  <2>1. pc'[d] \notin Timing
    BY <1>3 DEF Rows, Lone
  <2>2. QED
    BY <2>1 DEF Undisturbed, Timing
<1>4. QED
  BY <1>1, <1>2, <1>3 DEF Rows

LEMMA LogTimingRows ==
  ASSUME RowInv, NEW c \in Conn, LogTiming(c)
  PROVE  Rows'
<1> DEFINE in == {d \in Conn \ {c} : pc[d] \in {"store", "move", "flush", "empty"}}
<1>1. /\ pc[c] = "sent" /\ pc'[c] = "store" /\ \A d \in Conn \ {c} : pc'[d] = pc[d]
  BY GoesTo DEF RowInv, LogTiming
<1>2. \A d \in Conn : alone'[d] = IF d = c THEN in = {} ELSE alone[d] /\ d \notin in
  BY DEF LogTiming
<1>3. \A d \in Conn \ {c} : d \in in <=> pc[d] \in Timing
  BY DEF Timing
<1>4. UNCHANGED <<slot, buffer, end, written>> /\ row' = [row EXCEPT ![c] = RowOf(c)]
  BY DEF LogTiming, RowOf
<1> HIDE DEF in
<1>5. ASSUME NEW d \in Conn, alone'[d], pc'[d] \in Timing
      PROVE  d = c /\ \A e \in Conn : pc[e] \notin Timing
  <2>1. d = c
    BY <1>1, <1>2, <1>3, <1>5
  <2>2. in = {}
    BY <1>2, <1>5, <2>1
  <2>3. QED
    BY <1>1, <1>3, <2>1, <2>2 DEF Timing
<1>6. Lone'
  BY <1>1, <1>5 DEF Lone
<1>7. Left'
  BY <1>1 DEF Left, Timing
<1>8. Clean => Clean'
  BY <1>4 DEF Clean
<1>9. ASSUME NEW d \in Conn, alone'[d]
      PROVE  Undisturbed(d)'
  <2>1. CASE pc'[d] \notin Timing
    BY <2>1 DEF Undisturbed, Timing
  <2>2. CASE pc'[d] \in Timing
    <3>1. d = c /\ Clean'
      BY <1>5, <1>8, <1>9, <2>2 DEF RowInv, Left
    <3>2. QED
      BY <1>1, <3>1 DEF Undisturbed
  <2>3. QED
    BY <2>1, <2>2
<1>10. QED
  BY <1>6, <1>7, <1>9 DEF Rows

LEMMA StoreRows ==
  ASSUME RowInv, NEW c \in Conn, Store(c)
  PROVE  Rows'
<1>1. /\ pc[c] = "store" /\ pc'[c] = "move" /\ \A d \in Conn \ {c} : pc'[d] = pc[d]
  BY GoesTo DEF RowInv, Store
<1>2. /\ UNCHANGED <<row, end, written, alone>>
      /\ slot'[c] = end + 1
  BY DEF Store, history, RowInv, StreamTypes
<1>3. end \in Nat
  BY DEF RowInv, StreamTypes
<1>4. /\ Len(buffer') >= end + 1 /\ buffer'[end + 1] = row[c]
      /\ \A i \in 1..end : i <= Len(buffer) => buffer'[i] = buffer[i]
      /\ Len(buffer') \in Nat
  BY StoreCell
<1>5. ASSUME alone[c]
      PROVE  Undisturbed(c)'
  <2>1. Clean
    BY <1>1, <1>5 DEF RowInv, Undisturbed
  <2>2. Clean'
    BY <1>2, <1>3, <1>4, <2>1 DEF Clean
  <2>3. QED
    BY <1>1, <1>2, <1>4, <2>2 DEF Undisturbed
<1>6. QED
  BY <1>1, <1>2, <1>5, OnlyItsOwn DEF RowInv, Rows, Timing

LEMMA MoveRows ==
  ASSUME RowInv, NEW c \in Conn, Move(c)
  PROVE  Rows'
<1>1. /\ pc[c] = "move" /\ pc'[c] = "flush" /\ \A d \in Conn \ {c} : pc'[d] = pc[d]
  BY GoesTo DEF RowInv, Move
<1>2. UNCHANGED <<row, buffer, written, alone>> /\ end' \in {slot[c], end + 1}
  BY DEF Move, history
<1>3. ASSUME alone[c]
      PROVE  Undisturbed(c)'
  <2>1. Clean /\ slot[c] = end + 1 /\ Len(buffer) >= end + 1 /\ buffer[end + 1] = row[c]
    BY <1>1, <1>3 DEF RowInv, Undisturbed
  <2>2. end' = end + 1
    BY <1>2, <2>1
  <2>3. QED
    BY <1>1, <1>2, <2>1, <2>2 DEF Clean, Undisturbed
<1>4. QED
  BY <1>1, <1>2, <1>3, OnlyItsOwn DEF RowInv, Rows, Timing

\* What a thread that is alone writes: its row, behind the header or not.
LEMMA LoneFlush ==
  ASSUME RowInv, NEW c \in Conn, Flush(c), alone[c]
  PROVE  \/ end = 1 /\ written'[c] = <<row[c]>>
         \/ end = 2 /\ written'[c] = <<Header, row[c]>>
<1>1. pc[c] = "flush"
  BY DEF Flush, Goto
<1>2. written'[c] = [i \in 1..end |-> IF i <= Len(buffer) THEN buffer[i] ELSE Junk]
  BY FlushWrites
<1>3. CASE end = 1 /\ Len(buffer) >= 1 /\ buffer[1] = row[c]
  <2>1. written'[c] = [i \in 1..1 |-> row[c]]
    BY <1>2, <1>3
  <2>2. QED
    BY <1>3, <2>1
<1>4. CASE end = 2 /\ Len(buffer) >= 2 /\ buffer[1] = Header /\ buffer[2] = row[c]
  <2>1. 1 \in 1..2 /\ 2 \in 1..2 /\ \A i \in 1..2 : i = 1 \/ i = 2
    OBVIOUS
  <2>2. Len(buffer) \in Nat
    BY DEF RowInv, StreamTypes
  <2>3. written'[c] = [i \in 1..2 |-> IF i = 1 THEN Header ELSE row[c]]
    BY <1>2, <1>4, <2>1, <2>2
  <2>4. QED
    BY <1>4, <2>3
<1>5. QED
  BY <1>1, <1>3, <1>4 DEF RowInv, Undisturbed

LEMMA FlushRows ==
  ASSUME RowInv, NEW c \in Conn, Flush(c)
  PROVE  Rows'
<1>1. /\ pc[c] = "flush" /\ pc'[c] = "empty" /\ \A d \in Conn \ {c} : pc'[d] = pc[d]
  BY GoesTo DEF RowInv, Flush
<1>2. UNCHANGED <<row, slot, buffer, end, alone>>
  BY DEF Flush, history
<1>3. ASSUME alone[c]
      PROVE  Undisturbed(c)'
  BY <1>1, <1>2, <1>3, LoneFlush DEF Undisturbed
<1>4. QED
  BY <1>1, <1>2, <1>3, OnlyItsOwn DEF RowInv, Rows, Timing

LEMMA EmptyRows ==
  ASSUME RowInv, NEW c \in Conn, Empty(c)
  PROVE  Rows'
<1>1. /\ pc[c] = "empty" /\ pc'[c] = "log" /\ \A d \in Conn \ {c} : pc'[d] = pc[d]
  BY GoesTo DEF RowInv, Empty
<1>2. alone' = alone /\ end' = 0
  BY DEF Empty, history
<1>3. Clean' /\ Undisturbed(c)'
  BY <1>1, <1>2 DEF Clean, Undisturbed
<1>4. QED
  BY <1>1, <1>2, <1>3, OnlyItsOwn DEF RowInv, Rows, Timing

LEMMA RowInvInit == Init => RowInv
<1> SUFFICES ASSUME Init PROVE RowInv
  OBVIOUS
<1>1. Numbered
  BY NumberedInit
<1>2. /\ kind \in Kinds /\ csv \in Seq(Cell) /\ buffer \in Seq(Cell) /\ end \in Nat
      /\ failed \subseteq 1..replies /\ strayed \in BOOLEAN
  <2>1. kind \in Kinds /\ strayed \in BOOLEAN /\ failed \subseteq 1..replies
    BY DEF Init
  <2>2. csv = <<>> /\ buffer = <<>> /\ end = 0
    BY DEF Init
  <2>3. csv \in Seq(Cell) /\ buffer \in Seq(Cell) /\ end \in Nat
    BY <2>2
  <2>4. QED
    BY <2>1, <2>3
<1>3. /\ row \in [Conn -> Row \cup {Junk}] /\ slot \in [Conn -> Nat]
      /\ written \in [Conn -> Seq(Cell)] /\ alone \in [Conn -> BOOLEAN]
  <2>1. <<>> \in Seq(Cell)
    OBVIOUS
  <2>2. QED
    BY <2>1 DEF Init
<1>4. \A c \in Conn : pc[c] = "idle"
  BY DEF Init
<1>5. end = 0
  BY DEF Init
<1>6. Quiet /\ Lone /\ Left /\ \A c \in Conn : Undisturbed(c)
  BY <1>4, <1>5 DEF Quiet, Lone, Left, Clean, Undisturbed, Timing
<1>7. QED
  BY <1>1, <1>2, <1>3, <1>6 DEF RowInv, StreamTypes

LEMMA RowInvStep == RowInv /\ [Next]_vars => RowInv'
<1> SUFFICES ASSUME RowInv, [Next]_vars PROVE RowInv'
  OBVIOUS
<1>0. Rows
  BY DEF RowInv, Rows
<1>1. CASE Start \/ Die
  <2>1. \A c \in Conn : pc'[c] = "idle"
    BY <1>1 DEF Start, Die, NoThreads
  <2>2. Clean'
    <3>1. CASE Start
      <4>1. end' = Len(buffer') /\ (buffer' = <<>> \/ buffer' = <<Header>>)
        BY <3>1 DEF Start, OpenCsv
      <4>2. CASE buffer' = <<>>
        BY <4>1, <4>2 DEF Clean
      <4>3. CASE buffer' = <<Header>>
        BY <4>1, <4>3 DEF Clean
      <4>4. QED
        BY <4>1, <4>2, <4>3
    <3>2. CASE Die
      BY <3>2 DEF Die, Clean
    <3>3. QED
      BY <1>1, <3>1, <3>2
  <2>3. Rows'
    BY <2>1, <2>2, NobodyLeft
  <2>4. QED
    BY <2>3, NumberedStep, StreamTypesStep, QuietStep DEF RowInv, Rows
<1>2. CASE BindFails
  <2>1. \A c \in Conn : pc'[c] = "idle"
    BY <1>2 DEF BindFails, RowInv, Quiet
  <2>2. Clean'
    BY <1>2 DEF BindFails, Clean
  <2>3. Rows'
    BY <2>1, <2>2, NobodyLeft
  <2>4. QED
    BY <2>3, NumberedStep, StreamTypesStep, QuietStep DEF RowInv, Rows
<1>3. ASSUME OpenLog \/ SetLevel \/ Bind \/ OtherStarts \/ OtherLogs \/ OtherEnds \/ LoggerStep \/ UNCHANGED vars
      PROVE  Rows'
  <2>1. UNCHANGED <<pc, row, slot, buffer, end, written, alone>>
    BY <1>3 DEF OpenLog, SetLevel, Bind, OtherStarts, OtherLogs, OtherEnds, LoggerStep, vars, stream, history
  <2>2. QED
    BY <1>0, <2>1, ElsewhereRows
<1>4. ASSUME NEW c \in Conn, Fills(c)
      PROVE  Rows'
  <2>1. UNCHANGED <<row, slot, buffer, end, written, alone>>
    BY <1>4, FillStep DEF RowInv
  <2>2. /\ pc[c] \in {"idle", "fill"} /\ pc'[c] \in {"fill", "sent"}
        /\ \A d \in Conn \ {c} : pc'[d] = pc[d]
    BY <1>4, FillStep DEF RowInv
  <2>3. QED
    BY <1>0, <2>1, <2>2, ElsewhereRows DEF Timing
<1>5. ASSUME NEW c \in Conn, ReadFails(c)
      PROVE  RowInv'
  BY <1>1, <1>5 DEF ReadFails
<1>6. ASSUME NEW c \in Conn, LogSent(c)
      PROVE  Rows'
  <2>1. UNCHANGED <<row, slot, buffer, end, written, alone>>
    BY <1>6 DEF LogSent, stream, history
  <2>2. pc[c] = "log" /\ pc'[c] = "idle" /\ \A d \in Conn \ {c} : pc'[d] = pc[d]
    BY <1>6, GoesTo DEF LogSent, RowInv
  <2>3. QED
    BY <1>0, <2>1, <2>2, ElsewhereRows DEF Timing
<1>7. ASSUME NEW c \in Conn, LogTiming(c) \/ Store(c) \/ Move(c) \/ Flush(c) \/ Empty(c)
      PROVE  Rows'
  BY <1>7, LogTimingRows, StoreRows, MoveRows, FlushRows, EmptyRows
<1>8. Rows' => RowInv'
  BY NumberedStep, StreamTypesStep, QuietStep DEF RowInv, Rows
<1>9. QED
  BY <1>1, <1>2, <1>3, <1>4, <1>5, <1>6, <1>7, <1>8 DEF Next, Fills

LEMMA RowInvAlways == Spec => []RowInv
BY RowInvInit, RowInvStep, PTL DEF Spec

\* A thread that was alone in logTiming writes its row, behind the header if it is
\* the first, whatever other threads did to the stream before
\* (TimingSerializer::logTiming).
THEOREM LoneRow == Spec => []LoneRowsWhole
<1>1. RowInv => LoneRowsWhole
  BY DEF RowInv, Undisturbed, LoneRowsWhole
<1>2. QED
  BY <1>1, RowInvAlways, PTL

-----------------------------------------------------------------------------
(* The second layer: the file *)

LEMMA StrayedStays == [Next]_vars /\ strayed = TRUE => strayed' = TRUE
<1> SUFFICES ASSUME [Next]_vars, strayed = TRUE PROVE strayed' = TRUE
  OBVIOUS
<1>1. CASE Start \/ Die \/ OpenLog \/ SetLevel \/ Bind \/ BindFails \/ OtherStarts \/ OtherLogs \/ LoggerStep
           \/ UNCHANGED vars
  BY <1>1 DEF Start, Die, OpenLog, SetLevel, Bind, BindFails, OtherStarts, OtherLogs, LoggerStep, vars, history
<1>2. CASE OtherEnds
  BY <1>2 DEF OtherEnds
<1>3. ASSUME NEW c \in Conn, Fills(c)
      PROVE  strayed' = TRUE
  BY <1>3 DEF Fills, Call, ReadField, Serialize, history
<1>4. ASSUME NEW c \in Conn, ReadFails(c)
      PROVE  strayed' = TRUE
  BY <1>1, <1>4 DEF ReadFails
<1>5. ASSUME NEW c \in Conn, LogTiming(c)
      PROVE  strayed' = TRUE
  BY <1>5 DEF LogTiming
<1>6. ASSUME NEW c \in Conn, Store(c) \/ Move(c) \/ Flush(c) \/ Empty(c) \/ LogSent(c)
      PROVE  strayed' = TRUE
  BY <1>6 DEF Store, Move, Flush, Empty, LogSent, history
<1>7. QED
  BY <1>1, <1>2, <1>3, <1>4, <1>5, <1>6 DEF Next, Fills

LEMMA UnstrayedStep == RowInv /\ Unstrayed /\ [Next]_vars => Unstrayed'
<1> SUFFICES ASSUME RowInv, Unstrayed, [Next]_vars, ~strayed', NEW e \in Conn, pc'[e] \in Timing
             PROVE  alone'[e]
  BY DEF Unstrayed
<1>0. strayed \in BOOLEAN /\ ~strayed
  BY StrayedStays DEF RowInv, StreamTypes
<1>1. CASE Start \/ Die
  BY <1>1 DEF Start, Die, NoThreads, Timing
<1>2. CASE OpenLog \/ SetLevel \/ Bind \/ BindFails \/ OtherStarts \/ OtherLogs \/ OtherEnds \/ LoggerStep
           \/ UNCHANGED vars
  <2>1. pc' = pc /\ alone' = alone
    BY <1>2 DEF OpenLog, SetLevel, Bind, BindFails, OtherStarts, OtherLogs, OtherEnds, LoggerStep, vars, history
  <2>2. QED
    BY <1>0, <2>1 DEF Unstrayed
<1>3. ASSUME NEW c \in Conn, Fills(c)
      PROVE  alone'[e]
  <2>1. /\ alone' = alone /\ pc'[c] \in {"fill", "sent"}
        /\ \A d \in Conn \ {c} : pc'[d] = pc[d]
    BY <1>3, FillStep DEF RowInv
  <2>2. QED
    BY <1>0, <2>1 DEF Unstrayed, Timing
<1>4. ASSUME NEW c \in Conn, ReadFails(c)
      PROVE  alone'[e]
  BY <1>1, <1>4 DEF ReadFails
<1>5. ASSUME NEW c \in Conn, LogTiming(c)
      PROVE  alone'[e]
  <2> DEFINE in == {d \in Conn \ {c} : pc[d] \in {"store", "move", "flush", "empty"}}
  <2>1. /\ \A d \in Conn : alone'[d] = IF d = c THEN in = {} ELSE alone[d] /\ d \notin in
        /\ strayed' = (strayed \/ in # {})
    BY <1>5 DEF LogTiming
  <2> HIDE DEF in
  <2>2. in = {}
    BY <2>1
  <2>3. \A d \in Conn \ {c} : pc'[d] = pc[d]
    BY <1>5, GoesTo DEF LogTiming, RowInv
  <2>4. CASE e = c
    BY <2>1, <2>2, <2>4
  <2>5. CASE e # c
    <3>1. alone[e]
      BY <1>0, <2>3, <2>5 DEF Unstrayed
    <3>2. QED
      BY <2>1, <2>2, <2>5, <3>1
  <2>6. QED
    BY <2>4, <2>5
<1>6. ASSUME NEW c \in Conn, Store(c) \/ Move(c) \/ Flush(c) \/ Empty(c)
      PROVE  alone'[e]
  <2>1. alone' = alone
    BY <1>6 DEF Store, Move, Flush, Empty, history
  <2>2. pc[c] \in Timing /\ \A d \in Conn \ {c} : pc'[d] = pc[d]
    BY <1>6, GoesTo DEF Store, Move, Flush, Empty, RowInv, Timing
  <2>3. QED
    BY <1>0, <2>1, <2>2 DEF Unstrayed
<1>7. ASSUME NEW c \in Conn, LogSent(c)
      PROVE  alone'[e]
  <2>1. alone' = alone
    BY <1>7 DEF LogSent, history
  <2>2. pc'[c] = "idle" /\ \A d \in Conn \ {c} : pc'[d] = pc[d]
    BY <1>7, GoesTo DEF LogSent, RowInv
  <2>3. QED
    BY <1>0, <2>1, <2>2 DEF Unstrayed, Timing
<1>8. QED
  BY <1>1, <1>2, <1>3, <1>4, <1>5, <1>6, <1>7 DEF Next, Fills

\* A thread that goes on with its reply: nobody else gets that number.
LEMMA RowsTellOn ==
  ASSUME RowInv, RowsTell, NEW c \in Conn, pc[c] # "idle",
         \A d \in Conn \ {c} : pc'[d] = pc[d] /\ row'[d] = row[d],
         UNCHANGED <<kind, failed, reply>>,
         pc'[c] \in {"store", "move", "flush"} => row'[c] = RowOf(c)
  PROVE  RowsTell'
<1>1. ASSUME NEW d \in Conn, pc'[d] \in {"store", "move", "flush"}
      PROVE  row'[d] = RowOf(d)'
  <2>1. RowOf(d)' = RowOf(d)
    BY DEF RowOf, SerializerType
  <2>2. CASE d = c
    BY <1>1, <2>1, <2>2
  <2>3. CASE d # c
    BY <1>1, <2>1, <2>3 DEF RowsTell, RowOf
  <2>4. QED
    BY <2>2, <2>3
<1>2. ASSUME NEW d \in Conn, NEW e \in Conn, d # e, pc'[d] # "idle", pc'[e] # "idle"
      PROVE  reply'[d] # reply'[e]
  BY <1>2 DEF RowsTell
<1>3. QED
  BY <1>1, <1>2 DEF RowsTell, RowOf

LEMMA RowsTellStep == RowInv /\ RowsTell /\ [Next]_vars => RowsTell'
<1> SUFFICES ASSUME RowInv, RowsTell, [Next]_vars PROVE RowsTell'
  OBVIOUS
<1>1. CASE Start \/ Die
  BY <1>1 DEF Start, Die, NoThreads, RowsTell
<1>2. CASE OpenLog \/ SetLevel \/ Bind \/ BindFails \/ OtherStarts \/ OtherLogs \/ OtherEnds \/ LoggerStep
           \/ UNCHANGED vars
  <2>1. UNCHANGED <<kind, pc, reply, failed, row>>
    BY <1>2 DEF OpenLog, SetLevel, Bind, BindFails, OtherStarts, OtherLogs, OtherEnds, LoggerStep, vars,
                process, message, stream
  <2>2. QED
    BY <2>1 DEF RowsTell, SerializerType
<1>3. ASSUME NEW c \in Conn, Fills(c)
      PROVE  RowsTell'
  <2>1. /\ kind' = kind /\ row' = row /\ pc'[c] \in {"fill", "sent"}
        /\ \A d \in Conn \ {c} : pc'[d] = pc[d] /\ reply'[d] = reply[d]
        /\ \/ pc[c] # "idle" /\ reply'[c] = reply[c] /\ failed' \in {failed, failed \cup {reply[c]}}
           \/ reply'[c] = replies + 1 /\ failed' = failed
    BY <1>3, FillStep DEF RowInv, Numbered
  <2>2. replies \in Nat /\ \A d \in Conn : reply[d] \in 0..replies
    BY MaxRepliesAssumption DEF RowInv, Numbered
  <2>3. ASSUME NEW d \in Conn, pc'[d] \in {"store", "move", "flush"}
        PROVE  row'[d] = RowOf(d)'
    <3>1. d # c
      BY <2>1, <2>3
    <3>2. reply'[d] = reply[d] /\ pc'[d] = pc[d] /\ row'[d] = row[d]
      BY <2>1, <3>1
    <3>3. pc[c] # "idle" => reply[d] # reply[c]
      BY <2>3, <3>1, <3>2 DEF RowsTell
    <3>4. (reply'[d] \notin failed') <=> (reply[d] \notin failed)
      BY <2>1, <3>2, <3>3
    <3>5. RowOf(d)' = RowOf(d)
      BY <2>1, <3>2, <3>4 DEF RowOf, SerializerType, Result
    <3>6. QED
      BY <2>3, <3>2, <3>5 DEF RowsTell, RowOf
  <2>4. ASSUME NEW d \in Conn, NEW e \in Conn, d # e, pc'[d] # "idle", pc'[e] # "idle"
        PROVE  reply'[d] # reply'[e]
    BY <2>1, <2>2, <2>4 DEF RowsTell
  <2>5. QED
    BY <2>3, <2>4 DEF RowsTell, RowOf
<1>4. ASSUME NEW c \in Conn, ReadFails(c)
      PROVE  RowsTell'
  BY <1>1, <1>4 DEF ReadFails
<1>5. ASSUME NEW c \in Conn, LogTiming(c)
      PROVE  RowsTell'
  <2>1. pc[c] = "sent" /\ UNCHANGED <<kind, failed, reply>>
        /\ \A d \in Conn \ {c} : pc'[d] = pc[d]
    BY <1>5, GoesTo DEF LogTiming, RowInv
  <2>2. row'[c] = RowOf(c) /\ \A d \in Conn \ {c} : row'[d] = row[d]
    BY <1>5 DEF LogTiming, RowInv, StreamTypes, RowOf
  <2>3. QED
    BY <2>1, <2>2, RowsTellOn
<1>6. ASSUME NEW c \in Conn, Store(c) \/ Move(c) \/ Flush(c)
      PROVE  RowsTell'
  <2>1. pc[c] \in {"store", "move", "flush"} /\ UNCHANGED <<kind, failed, reply, row>>
        /\ \A d \in Conn \ {c} : pc'[d] = pc[d]
    BY <1>6, GoesTo DEF Store, Move, Flush, RowInv
  <2>2. row'[c] = RowOf(c)
    BY <2>1 DEF RowsTell, RowOf
  <2>3. QED
    BY <2>1, <2>2, RowsTellOn
<1>7. ASSUME NEW c \in Conn, Empty(c)
      PROVE  RowsTell'
  <2>1. pc[c] = "empty" /\ pc'[c] = "log" /\ UNCHANGED <<kind, failed, reply>>
        /\ \A d \in Conn \ {c} : pc'[d] = pc[d]
    BY <1>7, GoesTo DEF Empty, RowInv
  <2>2. \A d \in Conn \ {c} : row'[d] = row[d]
    BY <1>7 DEF Empty, RowInv, StreamTypes
  <2>3. QED
    BY <2>1, <2>2, RowsTellOn
<1>8. ASSUME NEW c \in Conn, LogSent(c)
      PROVE  RowsTell'
  <2>1. pc'[c] = "idle" /\ \A d \in Conn \ {c} : pc'[d] = pc[d]
    BY <1>8, GoesTo DEF LogSent, RowInv
  <2>2. UNCHANGED <<kind, row, failed>> /\ \A d \in Conn \ {c} : reply'[d] = reply[d]
    BY <1>8, GoesTo DEF LogSent, RowInv, Numbered, stream
  <2>3. ASSUME NEW d \in Conn, pc'[d] \in {"store", "move", "flush"}
        PROVE  row'[d] = RowOf(d)'
    <3>1. d # c /\ pc'[d] = pc[d] /\ reply'[d] = reply[d]
      BY <2>1, <2>2, <2>3
    <3>2. RowOf(d)' = RowOf(d)
      BY <2>2, <3>1 DEF RowOf, SerializerType
    <3>3. QED
      BY <2>2, <2>3, <3>1, <3>2 DEF RowsTell, RowOf
  <2>4. ASSUME NEW d \in Conn, NEW e \in Conn, d # e, pc'[d] # "idle", pc'[e] # "idle"
        PROVE  reply'[d] # reply'[e]
    BY <2>1, <2>2, <2>4 DEF RowsTell
  <2>5. QED
    BY <2>3, <2>4 DEF RowsTell, RowOf
<1>9. QED
  BY <1>1, <1>2, <1>3, <1>4, <1>5, <1>6, <1>7, <1>8 DEF Next, Fills

\* Without a second process, and without two threads in logTiming, c is alone there.
LEMMA AloneThere ==
  ASSUME RowInv, FileInv, ~strayed, NEW c \in Conn, pc[c] \in Timing
  PROVE  alone[c] /\ \A d \in Conn \ {c} : pc[d] \notin Timing
<1>1. alone[c]
  BY DEF FileInv, Unstrayed
<1>2. QED
  BY <1>1 DEF RowInv, Lone

\* What a flush adds to the file: one row, its own, behind the header.
LEMMA RowWritten ==
  ASSUME RowInv, FileInv, ~strayed, NEW c \in Conn, Flush(c)
  PROVE  /\ row[c] = RowOf(c) /\ row[c] \in Row /\ row[c].reply = reply[c]
         /\ Len(csv) \in Nat /\ Len(csv') \in Nat /\ Len(csv') > Len(csv) /\ Len(csv') >= 2
         /\ csv'[1] = Header /\ csv'[Len(csv')] = row[c]
         /\ \A i \in 1..Len(csv) : csv'[i] = csv[i]
         /\ \A i \in 2..Len(csv') : i # Len(csv') => i \in 2..Len(csv)
<1>1. pc[c] = "flush"
  BY DEF Flush, Goto
<1>2. row[c] = RowOf(c)
  BY <1>1 DEF FileInv, RowsTell, RowOf
<1>3. row[c] \in Row /\ row[c].reply = reply[c]
  BY <1>1, <1>2, RowOfType DEF RowOf
<1>4. alone[c]
  BY <1>1, AloneThere DEF Timing
<1>5. csv \in Seq(Cell) /\ Len(csv) \in Nat /\ row[c] \in Cell /\ Header \in Cell
  BY <1>3 DEF RowInv, StreamTypes, Cell
<1>6. csv' = csv \o written'[c]
  BY FlushWrites
<1>7. csv = <<>> <=> end = 2
  BY <1>1 DEF FileInv, HeaderDue
<1>8. CASE end = 1 /\ written'[c] = <<row[c]>>
  <2>1. csv # <<>> /\ Len(csv) > 0
    BY <1>5, <1>7, <1>8
  <2>2. csv[1] = Header
    BY <2>1 DEF FileInv, FileIsHeaderAndRows
  <2>3. csv' = csv \o <<row[c]>>
    BY <1>6, <1>8
  <2>4. Len(csv') = Len(csv) + 1 /\ csv'[Len(csv) + 1] = row[c]
        /\ \A i \in 1..Len(csv) : csv'[i] = csv[i]
    BY <1>5, <2>3
  <2>5. QED
    BY <1>2, <1>3, <1>5, <2>1, <2>2, <2>4
<1>9. CASE end = 2 /\ written'[c] = <<Header, row[c]>>
  <2>1. csv = <<>>
    BY <1>7, <1>9
  <2>2. Len(csv) = 0 /\ csv' = <<>> \o <<Header, row[c]>>
    BY <1>6, <1>9, <2>1
  <2>3. Len(csv') = 2 /\ csv'[1] = Header /\ csv'[2] = row[c]
    BY <2>2
  <2>4. QED
    BY <1>2, <1>3, <2>2, <2>3
<1>10. QED
  BY <1>4, <1>8, <1>9, LoneFlush

LEMMA HeaderDueStep ==
  ASSUME RowInv, FileInv, [Next]_vars, ~strayed, ~strayed'
  PROVE  HeaderDue'
<1>0. HeaderDue /\ end \in Nat
  BY DEF FileInv, RowInv, StreamTypes
<1>1. CASE Start
  <2>1. csv' = csv /\ end' = Len(buffer') /\ buffer' = IF csv = <<>> THEN <<Header>> ELSE <<>>
    BY <1>1 DEF Start, OpenCsv
  <2>2. csv = <<>> => end' = 1
    <3>1. csv = <<>> => buffer' = <<Header>>
      BY <2>1
    <3>2. Len(<<Header>>) = 1
      OBVIOUS
    <3>3. QED
      BY <2>1, <3>1, <3>2
  <2>3. csv # <<>> => end' = 0
    <3>1. csv # <<>> => buffer' = <<>>
      BY <2>1
    <3>2. QED
      BY <2>1, <3>1
  <2>4. \A c \in Conn : pc'[c] = "idle"
    BY <1>1 DEF Start, NoThreads
  <2>5. QED
    BY <2>1, <2>2, <2>3, <2>4 DEF HeaderDue
<1>2. CASE Die \/ BindFails
  <2>1. main' = "down" /\ \A c \in Conn : pc'[c] = "idle"
    BY <1>2 DEF Die, NoThreads, BindFails, RowInv, Quiet
  <2>2. QED
    BY <2>1 DEF HeaderDue
<1>3. CASE OpenLog \/ SetLevel \/ Bind \/ OtherStarts \/ OtherLogs \/ OtherEnds \/ LoggerStep \/ UNCHANGED vars
  <2>1. UNCHANGED <<pc, csv, end>> /\ (main' # "down" => main # "down")
    BY <1>3 DEF OpenLog, SetLevel, Bind, OtherStarts, OtherLogs, OtherEnds, LoggerStep, vars, process, stream
  <2>2. QED
    BY <1>0, <2>1 DEF HeaderDue
<1>4. ASSUME NEW c \in Conn, Fills(c)
      PROVE  HeaderDue'
  <2>1. /\ UNCHANGED <<main, csv, end>>
        /\ pc[c] \in {"idle", "fill"} /\ pc'[c] \in {"fill", "sent"}
        /\ \A d \in Conn \ {c} : pc'[d] = pc[d]
    BY <1>4, FillStep DEF RowInv
  <2>2. QED
    BY <1>0, <2>1 DEF HeaderDue
<1>5. ASSUME NEW c \in Conn, ReadFails(c)
      PROVE  HeaderDue'
  BY <1>2, <1>5 DEF ReadFails
<1>6. ASSUME NEW c \in Conn, LogTiming(c) \/ Store(c) \/ LogSent(c)
      PROVE  HeaderDue'
  <2>1. UNCHANGED <<csv, end>>
    BY <1>6 DEF LogTiming, Store, LogSent, stream
  <2>2. /\ main = "up" /\ \A d \in Conn \ {c} : pc'[d] = pc[d]
        /\ pc[c] \notin {"flush", "empty"} /\ pc'[c] \notin {"flush", "empty"}
    BY <1>6, GoesTo DEF LogTiming, Store, LogSent, RowInv
  <2>3. QED
    BY <1>0, <2>1, <2>2 DEF HeaderDue
<1>7. ASSUME NEW c \in Conn, Move(c)
      PROVE  HeaderDue'
  <2>1. main = "up" /\ pc[c] = "move" /\ pc'[c] = "flush" /\ \A d \in Conn \ {c} : pc'[d] = pc[d]
    BY <1>7, GoesTo DEF Move, RowInv
  <2>2. alone[c] /\ \A d \in Conn \ {c} : pc[d] \notin Timing
    BY <2>1, AloneThere DEF Timing
  <2>3. csv' = csv /\ end' = end + 1
    BY <1>7, <2>1, <2>2 DEF Move, RowInv, Undisturbed
  <2>4. \A d \in Conn : pc[d] \notin {"flush", "empty"}
    BY <2>1, <2>2 DEF Timing
  <2>5. csv = <<>> <=> end = 1
    BY <1>0, <2>1, <2>4 DEF HeaderDue
  <2>6. csv' = <<>> <=> end' = 2
    BY <1>0, <2>3, <2>5
  <2>7. \A d \in Conn : pc'[d] # "empty"
    BY <2>1, <2>4
  <2>8. QED
    BY <2>1, <2>6, <2>7 DEF HeaderDue
<1>8. ASSUME NEW c \in Conn, Flush(c)
      PROVE  HeaderDue'
  <2>1. pc[c] = "flush" /\ pc'[c] = "empty" /\ \A d \in Conn \ {c} : pc'[d] = pc[d]
    BY <1>8, GoesTo DEF Flush, RowInv
  <2>2. \A d \in Conn \ {c} : pc'[d] \notin {"flush", "empty"}
    BY <2>1, AloneThere DEF Timing
  <2>3. csv' # <<>>
    BY <1>8, RowWritten
  <2>4. QED
    BY <2>1, <2>2, <2>3 DEF HeaderDue
<1>9. ASSUME NEW c \in Conn, Empty(c)
      PROVE  HeaderDue'
  <2>1. pc[c] = "empty" /\ pc'[c] = "log" /\ \A d \in Conn \ {c} : pc'[d] = pc[d]
    BY <1>9, GoesTo DEF Empty, RowInv
  <2>2. \A d \in Conn : pc'[d] \notin {"flush", "empty"}
    BY <2>1, AloneThere DEF Timing
  <2>3. csv' = csv /\ end' = 0 /\ csv # <<>>
    BY <1>0, <1>9, <2>1 DEF Empty, HeaderDue
  <2>4. QED
    BY <2>2, <2>3 DEF HeaderDue
<1>10. QED
  BY <1>1, <1>2, <1>3, <1>4, <1>5, <1>6, <1>7, <1>8, <1>9 DEF Next, Fills

\* The rows stay as they are: only a flush adds one.
LEMMA CsvStays ==
  ASSUME RowInv, FileInv, [Next]_vars, ~strayed, ~strayed'
  PROVE  csv' = csv \/ (Len(csv') < 2 /\ Len(csv) < 2) \/ \E c \in Conn : Flush(c)
<1>1. CASE BindFails
  <2>1. main = "bind" /\ \A c \in Conn : pc[c] = "idle"
    BY <1>1 DEF BindFails, RowInv, Quiet
  <2>2. csv = <<>> <=> end = 1
    BY <2>1 DEF FileInv, HeaderDue
  <2>3. csv' = csv \/ Len(csv') = Len(csv) + 1
    BY <1>1, ClosedStream
  <2>4. CASE end = 1
    BY <2>2, <2>3, <2>4
  <2>5. CASE end # 1
    BY <1>1, <2>5, ClosedStream
  <2>6. QED
    BY <2>4, <2>5
<1>2. CASE Start \/ Die \/ OpenLog \/ SetLevel \/ Bind \/ OtherStarts \/ OtherLogs \/ OtherEnds \/ LoggerStep
           \/ UNCHANGED vars
  BY <1>2 DEF Start, Die, OpenLog, SetLevel, Bind, OtherStarts, OtherLogs, OtherEnds, LoggerStep, vars
<1>3. ASSUME NEW c \in Conn, Fills(c) \/ ReadFails(c)
      PROVE  csv' = csv
  BY <1>3, FillStep DEF ReadFails, Die, RowInv
<1>4. ASSUME NEW c \in Conn, LogTiming(c) \/ Store(c) \/ Move(c) \/ Empty(c) \/ LogSent(c)
      PROVE  csv' = csv
  BY <1>4 DEF LogTiming, Store, Move, Empty, LogSent
<1>5. QED
  BY <1>1, <1>2, <1>3, <1>4 DEF Next, Fills

\* The next row is of a reply that has none yet.
LEMMA HasRowAfter ==
  ASSUME RowInv, FileInv, [Next]_vars, ~strayed, ~strayed', NEW r
  PROVE  HasRow(csv', r) <=> HasRow(csv, r) \/ \E c \in Conn : Flush(c) /\ r = reply[c]
<1>1. ASSUME NEW c \in Conn, Flush(c)
      PROVE  /\ HasRow(csv', r) <=> HasRow(csv, r) \/ r = reply[c]
             /\ \A d \in Conn : Flush(d) => d = c
  <2>1. /\ row[c].reply = reply[c]
        /\ Len(csv) \in Nat /\ Len(csv') \in Nat /\ Len(csv') > Len(csv) /\ Len(csv') >= 2
        /\ csv'[Len(csv')] = row[c]
        /\ \A i \in 1..Len(csv) : csv'[i] = csv[i]
        /\ \A i \in 2..Len(csv') : i # Len(csv') => i \in 2..Len(csv)
    BY <1>1, RowWritten
  <2>2. ASSUME HasRow(csv', r) PROVE HasRow(csv, r) \/ r = reply[c]
    <3>1. PICK j \in 2..Len(csv') : csv'[j].reply = r
      BY <2>2 DEF HasRow
    <3>2. CASE j = Len(csv')
      BY <2>1, <3>1, <3>2
    <3>3. CASE j # Len(csv')
      <4>1. j \in 2..Len(csv) /\ csv'[j] = csv[j]
        BY <2>1, <3>3
      <4>2. QED
        BY <3>1, <4>1 DEF HasRow
    <3>4. QED
      BY <3>2, <3>3
  <2>3. ASSUME HasRow(csv, r) PROVE HasRow(csv', r)
    <3>1. PICK j \in 2..Len(csv) : csv[j].reply = r
      BY <2>3 DEF HasRow
    <3>2. j \in 2..Len(csv') /\ csv'[j] = csv[j]
      BY <2>1
    <3>3. QED
      BY <3>1, <3>2 DEF HasRow
  <2>4. ASSUME r = reply[c] PROVE HasRow(csv', r)
    <3>1. Len(csv') \in 2..Len(csv') /\ csv'[Len(csv')].reply = r
      BY <2>1, <2>4
    <3>2. QED
      BY <3>1 DEF HasRow
  <2>5. ASSUME NEW d \in Conn, Flush(d) PROVE d = c
    <3>1. pc[c] \in Timing /\ pc[d] \in Timing
      BY <1>1, <2>5 DEF Flush, Goto, Timing
    <3>2. QED
      BY <3>1, AloneThere
  <2>6. QED
    BY <2>2, <2>3, <2>4, <2>5
<1>2. ASSUME ~\E c \in Conn : Flush(c)
      PROVE  HasRow(csv', r) <=> HasRow(csv, r)
  <2>1. Len(csv) \in Nat /\ Len(csv') \in Nat
    BY StreamTypesStep DEF RowInv, StreamTypes
  <2>2. CASE csv' = csv
    BY <2>2 DEF HasRow
  <2>3. CASE Len(csv') < 2 /\ Len(csv) < 2
    BY <2>1, <2>3 DEF HasRow
  <2>4. QED
    BY <1>2, <2>2, <2>3, CsvStays
<1>3. QED
  BY <1>1, <1>2

\* Where no thread flushes, no reply gets a row.
LEMMA NoNewRow ==
  ASSUME RowInv, FileInv, [Next]_vars, ~strayed, ~strayed',
         \A d \in Conn : ~(pc[d] = "flush" /\ pc'[d] = "empty")
  PROVE  \A r : HasRow(csv', r) <=> HasRow(csv, r)
<1>1. ASSUME NEW d \in Conn PROVE ~Flush(d)
  BY GoesTo DEF Flush, RowInv
<1>2. ASSUME NEW r PROVE HasRow(csv', r) <=> HasRow(csv, r)
  BY <1>1, HasRowAfter
<1>3. QED
  BY <1>2

LEMMA NumbersGoUp ==
  ASSUME RowInv, [Next]_vars
  PROVE  replies \in Nat /\ replies' \in Nat /\ replies <= replies' /\ kind' = kind
<1>0. replies \in Nat
  BY MaxRepliesAssumption DEF RowInv, Numbered
<1>1. CASE Start \/ Die \/ OpenLog \/ SetLevel \/ Bind \/ BindFails \/ OtherStarts \/ OtherLogs \/ OtherEnds
           \/ LoggerStep \/ UNCHANGED vars
  BY <1>0, <1>1 DEF Start, Die, NoThreads, OpenLog, SetLevel, Bind, BindFails, OtherStarts, OtherLogs,
                    OtherEnds, LoggerStep, vars, process, message
<1>2. ASSUME NEW c \in Conn, Fills(c)
      PROVE  replies' \in {replies, replies + 1} /\ kind' = kind
  BY <1>2, FillStep DEF RowInv
<1>3. ASSUME NEW c \in Conn, ReadFails(c)
      PROVE  replies' = replies /\ kind' = kind
  BY <1>3 DEF ReadFails, Die, NoThreads
<1>4. ASSUME NEW c \in Conn,
             LogTiming(c) \/ Store(c) \/ Move(c) \/ Flush(c) \/ Empty(c) \/ LogSent(c)
      PROVE  replies' = replies /\ kind' = kind
  BY <1>4, GoesTo DEF LogTiming, Store, Move, Flush, Empty, LogSent, RowInv
<1>5. QED
  BY <1>0, <1>1, <1>2, <1>3, <1>4 DEF Next, Fills

\* Of the replies in work, those have a row whose flush is done.
LEMMA WorkKept ==
  ASSUME RowInv, FileInv, [Next]_vars, ~strayed, ~strayed', NEW e \in Conn
  PROVE  /\ pc'[e] \in {"fill", "sent", "store", "move", "flush"} => ~HasRow(csv', reply'[e])
         /\ pc'[e] \in {"empty", "log"} => HasRow(csv', reply'[e])
<1> DEFINE Stays == \A d \in Conn : ~(pc[d] = "flush" /\ pc'[d] = "empty")
<1> DEFINE Goal == /\ pc'[e] \in {"fill", "sent", "store", "move", "flush"} => ~HasRow(csv', reply'[e])
                   /\ pc'[e] \in {"empty", "log"} => HasRow(csv', reply'[e])
<1> SUFFICES Goal
  OBVIOUS
<1>0. /\ pc[e] \in {"fill", "sent", "store", "move", "flush"} => ~HasRow(csv, reply[e])
      /\ pc[e] \in {"empty", "log"} => HasRow(csv, reply[e])
  BY DEF FileInv, Kept
<1>1. Stays => \A r : HasRow(csv', r) <=> HasRow(csv, r)
  BY NoNewRow
<1>2. CASE Start \/ Die
  <2>1. pc'[e] = "idle"
    BY <1>2 DEF Start, Die, NoThreads
  <2>2. QED
    BY <2>1
<1>3. CASE OpenLog \/ SetLevel \/ Bind \/ BindFails \/ OtherStarts \/ OtherLogs \/ OtherEnds \/ LoggerStep
           \/ UNCHANGED vars
  <2>1. UNCHANGED <<pc, reply>>
    BY <1>3 DEF OpenLog, SetLevel, Bind, BindFails, OtherStarts, OtherLogs, OtherEnds, LoggerStep, vars, message
  <2>2. QED
    BY <1>0, <1>1, <2>1
<1>4. ASSUME NEW c \in Conn, Fills(c)
      PROVE  Goal
  <2>1. /\ pc[c] \in {"idle", "fill"} /\ pc'[c] \in {"fill", "sent"}
        /\ \A d \in Conn \ {c} : pc'[d] = pc[d] /\ reply'[d] = reply[d]
    BY <1>4, FillStep DEF RowInv
  <2>2. Stays
    BY <2>1
  <2>3. CASE e = c /\ pc[c] = "idle"
    <3>1. reply'[c] = replies + 1 /\ replies < MaxReplies
      BY <1>4, <2>3, FillStep DEF RowInv, Numbered
    <3>2. replies + 1 \in 1..MaxReplies /\ ~(replies + 1 <= replies)
      BY <3>1, NumbersGoUp, MaxRepliesAssumption
    <3>3. ~HasRow(csv, replies + 1)
      BY <3>2 DEF FileInv, Kept
    <3>4. QED
      BY <1>1, <2>1, <2>2, <2>3, <3>1, <3>3
  <2>4. CASE e = c /\ pc[c] = "fill"
    <3>1. reply' = reply
      BY <1>4, <2>4, FillStep DEF RowInv
    <3>2. QED
      BY <1>0, <1>1, <2>1, <2>2, <2>4, <3>1
  <2>5. CASE e # c
    BY <1>0, <1>1, <2>1, <2>2, <2>5
  <2>6. QED
    BY <2>1, <2>3, <2>4, <2>5
<1>5. ASSUME NEW c \in Conn, ReadFails(c)
      PROVE  Goal
  BY <1>2, <1>5 DEF ReadFails
<1>6. ASSUME NEW c \in Conn, LogTiming(c) \/ Store(c) \/ Move(c)
      PROVE  Goal
  <2>1. /\ pc[c] \in {"sent", "store", "move"} /\ pc'[c] \in {"store", "move", "flush"}
        /\ reply' = reply /\ \A d \in Conn \ {c} : pc'[d] = pc[d]
    BY <1>6, GoesTo DEF LogTiming, Store, Move, RowInv
  <2>2. Stays
    BY <2>1
  <2>3. QED
    BY <1>0, <1>1, <2>1, <2>2
<1>7. ASSUME NEW c \in Conn, Flush(c)
      PROVE  Goal
  <2>1. /\ pc[c] = "flush" /\ pc'[c] = "empty"
        /\ reply' = reply /\ \A d \in Conn \ {c} : pc'[d] = pc[d]
    BY <1>7, GoesTo DEF Flush, RowInv
  <2>2. \A d \in Conn \ {c} : ~Flush(d)
    BY <2>1 DEF Flush, Goto, RowInv, Numbered
  <2>3. HasRow(csv', reply[e]) <=> HasRow(csv, reply[e]) \/ reply[e] = reply[c]
    BY <1>7, <2>2, HasRowAfter
  <2>4. CASE e = c
    BY <2>1, <2>3, <2>4
  <2>5. CASE e # c
    <3>1. pc[e] # "idle" => reply[e] # reply[c]
      BY <2>1, <2>5 DEF FileInv, RowsTell
    <3>2. QED
      BY <1>0, <2>1, <2>3, <2>5, <3>1
  <2>6. QED
    BY <2>4, <2>5
<1>8. ASSUME NEW c \in Conn, Empty(c)
      PROVE  Goal
  <2>1. /\ pc[c] = "empty" /\ pc'[c] = "log"
        /\ reply' = reply /\ \A d \in Conn \ {c} : pc'[d] = pc[d]
    BY <1>8, GoesTo DEF Empty, RowInv
  <2>2. Stays
    BY <2>1
  <2>3. QED
    BY <1>0, <1>1, <2>1, <2>2
<1>9. ASSUME NEW c \in Conn, LogSent(c)
      PROVE  Goal
  <2>1. pc[c] = "log" /\ pc'[c] = "idle" /\ \A d \in Conn \ {c} : pc'[d] = pc[d]
    BY <1>9, GoesTo DEF LogSent, RowInv
  <2>2. \A d \in Conn \ {c} : reply'[d] = reply[d]
    BY <1>9 DEF LogSent, RowInv, Numbered
  <2>3. Stays
    BY <2>1
  <2>4. QED
    BY <1>0, <1>1, <2>1, <2>2, <2>3
<1>10. QED
  BY <1>2, <1>3, <1>4, <1>5, <1>6, <1>7, <1>8, <1>9 DEF Next, Fills

\* What the log has, or will have when its line is written, is of a reply that
\* has its row.
LEMMA LogKept ==
  ASSUME RowInv, FileInv, L!TypeOK, [Next]_vars, ~strayed, ~strayed'
  PROVE  /\ \A t \in Conn : at'[t] # "out" => HasRow(csv', line'[t].text)
         /\ \A i \in 1..Len(files'[LogName]) : files'[LogName][i] # MainLine =>
              HasRow(csv', files'[LogName][i].text)
<1> DEFINE Goal == /\ \A t \in Conn : at'[t] # "out" => HasRow(csv', line'[t].text)
                   /\ \A i \in 1..Len(files'[LogName]) : files'[LogName][i] # MainLine =>
                        HasRow(csv', files'[LogName][i].text)
<1> SUFFICES Goal
  OBVIOUS
<1>0. /\ \A t \in Conn : at[t] # "out" => HasRow(csv, line[t].text)
      /\ \A i \in 1..Len(files[LogName]) : files[LogName][i] # MainLine =>
           HasRow(csv, files[LogName][i].text)
  BY DEF FileInv, Kept
<1>1. ASSUME NEW r, HasRow(csv, r) PROVE HasRow(csv', r)
  BY <1>1, HasRowAfter
<1>2. CASE UNCHANGED <<at, line, files>>
  BY <1>0, <1>1, <1>2
<1>3. CASE (\A t \in Conn : at'[t] = "out") /\ files' = files
  BY <1>0, <1>1, <1>3
<1>4. ASSUME Start \/ Die
      PROVE  (\A t \in Conn : at'[t] = "out") /\ files' = files
  BY <1>4 DEF Start, Die, L!Fresh
<1>5. ASSUME OpenLog \/ SetLevel \/ OtherStarts \/ OtherEnds \/ UNCHANGED vars
      PROVE  UNCHANGED <<at, line, files>>
  BY <1>5 DEF OpenLog, SetLevel, OtherStarts, OtherEnds, vars, logger, L!SetLogFile, L!SetLogLevel
<1>6. ASSUME NEW c \in Conn, LogTiming(c) \/ Store(c) \/ Move(c) \/ Flush(c) \/ Empty(c)
      PROVE  UNCHANGED <<at, line, files>>
  BY <1>6 DEF LogTiming, Store, Move, Flush, Empty, logger
<1>7. ASSUME NEW c \in Conn, Fills(c)
      PROVE  UNCHANGED <<at, line, files>>
  BY <1>7, FillStep DEF RowInv, logger
<1>8. ASSUME NEW c \in Conn, ReadFails(c)
      PROVE  Goal
  BY <1>3, <1>4, <1>8 DEF ReadFails
<1>9. ASSUME NEW c \in Conn, LogSent(c)
      PROVE  Goal
  <2>1. HasRow(csv, reply[c])
    BY <1>9 DEF LogSent, Goto, FileInv, Kept
  <2>2. /\ files' = files /\ line'[c].text = reply[c]
        /\ \A t \in Conn \ {c} : at'[t] = at[t] /\ line'[t] = line[t]
    BY <1>9 DEF LogSent, L!Log, L!TypeOK
  <2>3. QED
    BY <1>0, <1>1, <2>1, <2>2
<1>10. ASSUME NEW c \in Conn, L!Lock(c)
       PROVE  Goal
  <2>1. at[c] # "out" /\ line[c] \in L!Line
    BY <1>10 DEF L!Lock, L!TypeOK
  <2>2. files' = files /\ line' = [line EXCEPT ![c].read = reads']
        /\ \A t \in Conn \ {c} : at'[t] = at[t]
    BY <1>10 DEF L!Lock, L!TypeOK
  <2>3. line'[c].text = line[c].text /\ \A t \in Conn \ {c} : line'[t] = line[t]
    BY <2>1, <2>2 DEF L!TypeOK, L!Line
  <2>4. QED
    BY <1>0, <1>1, <2>1, <2>2, <2>3
<1>11. ASSUME NEW c \in Conn, L!Write(c)
       PROVE  Goal
  <2>1. /\ at[c] # "out" /\ files[LogName] \in Seq(L!Line \cup {MainLine}) /\ line[c] \in L!Line
    BY <1>11 DEF L!Write, L!TypeOK
  <2>2. /\ at'[c] = "out"
        /\ \A t \in Conn \ {c} : at'[t] = at[t] /\ line'[t] = line[t]
    BY <1>11 DEF L!Write, L!TypeOK
  <2>3. files'[LogName] \in {files[LogName], Append(files[LogName], line[c])}
    BY <1>11 DEF L!Write
  <2>4. \A i \in 1..Len(files'[LogName]) :
          \/ i \in 1..Len(files[LogName]) /\ files'[LogName][i] = files[LogName][i]
          \/ files'[LogName][i] = line[c]
    BY <2>1, <2>3
  <2>5. HasRow(csv, line[c].text)
    BY <1>0, <2>1
  <2>6. QED
    BY <1>0, <1>1, <2>2, <2>4, <2>5
<1>12. ASSUME Bind \/ BindFails \/ OtherLogs
       PROVE  Goal
  <2>1. /\ UNCHANGED <<at, line>> /\ files[LogName] \in Seq(L!Line \cup {MainLine})
        /\ files' = [files EXCEPT ![LogName] = Append(@, MainLine)]
    BY <1>12 DEF Bind, BindFails, OtherLogs, L!LogMain, L!TypeOK
  <2>2. files'[LogName] = Append(files[LogName], MainLine)
    BY <2>1 DEF L!TypeOK
  <2>3. \A i \in 1..Len(files'[LogName]) : files'[LogName][i] # MainLine =>
          i \in 1..Len(files[LogName]) /\ files'[LogName][i] = files[LogName][i]
    BY <2>1, <2>2
  <2>4. QED
    BY <1>0, <1>1, <2>1, <2>3
<1>13. QED
  BY <1>2, <1>3, <1>4, <1>5, <1>6, <1>7, <1>8, <1>9, <1>10, <1>11, <1>12
     DEF Next, Fills, LoggerStep

LEMMA KeptStep ==
  ASSUME RowInv, FileInv, L!TypeOK, [Next]_vars, ~strayed, ~strayed'
  PROVE  Kept'
<1>1. ASSUME NEW r \in 1..MaxReplies, HasRow(csv', r)
      PROVE  r <= replies'
  <2>1. replies \in Nat /\ replies' \in Nat /\ replies <= replies'
    BY NumbersGoUp
  <2>2. CASE HasRow(csv, r)
    <3>1. r <= replies
      BY <2>2 DEF FileInv, Kept
    <3>2. QED
      BY <2>1, <3>1, MaxRepliesAssumption
  <2>3. ASSUME NEW c \in Conn, r = reply[c]
        PROVE  r <= replies'
    <3>1. reply[c] \in 0..replies
      BY DEF RowInv, Numbered
    <3>2. QED
      BY <2>1, <2>3, <3>1
  <2>4. QED
    BY <1>1, <2>2, <2>3, HasRowAfter
<1>2. QED
  BY <1>1, WorkKept, LogKept DEF Kept

LEMMA FileStep ==
  ASSUME RowInv, FileInv, [Next]_vars, ~strayed, ~strayed'
  PROVE  FileIsHeaderAndRows'
<1>0. /\ csv # <<>> =>
           /\ csv[1] = Header
           /\ \A i \in 2..Len(csv) :
                /\ csv[i] \in Row
                /\ csv[i].size = "SIZE_MAX" <=> csv[i].reply \in failed /\ kind # "PROTOBUF"
                /\ \A j \in 2..i - 1 : csv[i].reply # csv[j].reply
      /\ csv \in Seq(Cell) /\ Len(csv) \in Nat /\ kind' = kind
  <2>1. FileIsHeaderAndRows
    BY DEF FileInv
  <2>2. csv \in Seq(Cell) /\ Len(csv) \in Nat
    BY DEF RowInv, StreamTypes
  <2>3. kind' = kind
    BY NumbersGoUp
  <2>4. QED
    BY <2>1, <2>2, <2>3 DEF FileIsHeaderAndRows
<1>1. CASE csv' = csv /\ failed' = failed
  BY <1>0, <1>1 DEF FileIsHeaderAndRows
<1>2. ASSUME Start \/ Die \/ OpenLog \/ SetLevel \/ Bind \/ OtherStarts \/ OtherLogs \/ OtherEnds \/ LoggerStep
             \/ UNCHANGED vars
      PROVE  csv' = csv /\ failed' = failed
  BY <1>2 DEF Start, Die, NoThreads, OpenLog, SetLevel, Bind, OtherStarts, OtherLogs, OtherEnds, LoggerStep,
              vars, message
<1>3. CASE BindFails
  <2>1. main = "bind" /\ failed' = failed /\ \A c \in Conn : pc[c] = "idle"
    BY <1>3 DEF BindFails, message, RowInv, Quiet
  <2>2. csv = <<>> <=> end = 1
    BY <2>1 DEF FileInv, HeaderDue
  <2>3. CASE end = 0
    BY <1>1, <1>3, <2>1, <2>3, ClosedStream
  <2>4. CASE end # 0
    <3>1. Len(csv') = 1 /\ csv'[1] = Header
      BY <1>3, <2>2, <2>4, ClosedStream
    <3>2. QED
      BY <3>1 DEF FileIsHeaderAndRows
  <2>5. QED
    BY <2>3, <2>4
<1>4. ASSUME NEW c \in Conn, Fills(c)
      PROVE  FileIsHeaderAndRows'
  <2>1. /\ csv' = csv
        /\ \/ failed' = failed
           \/ pc[c] = "fill" /\ failed' \in {failed, failed \cup {reply[c]}}
    BY <1>4, FillStep DEF RowInv
  <2>2. pc[c] = "fill" => \A j \in 2..Len(csv) : csv[j].reply # reply[c]
    BY DEF FileInv, Kept, HasRow
  <2>3. ASSUME NEW i \in 2..Len(csv), csv # <<>>
        PROVE  csv[i].reply \in failed' <=> csv[i].reply \in failed
    BY <2>1, <2>2, <2>3
  <2>4. QED
    BY <1>0, <2>1, <2>3 DEF FileIsHeaderAndRows
<1>5. ASSUME NEW c \in Conn, ReadFails(c)
      PROVE  csv' = csv /\ failed' = failed
  BY <1>5, <1>2 DEF ReadFails
<1>6. ASSUME NEW c \in Conn, LogTiming(c) \/ Store(c) \/ Move(c) \/ Empty(c) \/ LogSent(c)
      PROVE  csv' = csv /\ failed' = failed
  BY <1>6, GoesTo DEF LogTiming, Store, Move, Empty, LogSent, RowInv
<1>7. ASSUME NEW c \in Conn, Flush(c)
      PROVE  FileIsHeaderAndRows'
  <2>1. /\ row[c] = RowOf(c) /\ row[c] \in Row /\ row[c].reply = reply[c]
        /\ Len(csv') \in Nat /\ Len(csv') > Len(csv) /\ Len(csv') >= 2
        /\ csv'[1] = Header /\ csv'[Len(csv')] = row[c]
        /\ \A i \in 1..Len(csv) : csv'[i] = csv[i]
        /\ \A i \in 2..Len(csv') : i # Len(csv') => i \in 2..Len(csv)
    BY <1>7, RowWritten
  <2>2. failed' = failed /\ pc[c] = "flush"
    BY <1>7, GoesTo DEF Flush, RowInv
  <2>3. \A j \in 2..Len(csv) : csv[j].reply # reply[c]
    BY <2>2 DEF FileInv, Kept, HasRow
  <2>4. row[c].size = "SIZE_MAX" <=> row[c].reply \in failed /\ kind # "PROTOBUF"
    <3>1. row[c].size = DataSize(Result(kind, reply[c] \notin failed))
      BY <2>1 DEF RowOf
    <3>2. QED
      BY <2>1, <3>1 DEF DataSize, Result
  <2>5. ASSUME NEW i \in 2..Len(csv')
        PROVE  /\ csv'[i] \in Row
               /\ csv'[i].size = "SIZE_MAX" <=> csv'[i].reply \in failed /\ kind # "PROTOBUF"
               /\ \A j \in 2..i - 1 : csv'[i].reply # csv'[j].reply
    <3>1. CASE i = Len(csv')
      <4>1. \A j \in 2..i - 1 : j \in 2..Len(csv) /\ csv'[j] = csv[j]
        BY <1>0, <2>1, <3>1
      <4>2. QED
        BY <2>1, <2>3, <2>4, <3>1, <4>1
    <3>2. CASE i # Len(csv')
      <4>1. i \in 2..Len(csv) /\ csv'[i] = csv[i] /\ csv # <<>>
        BY <1>0, <2>1, <3>2
      <4>2. \A j \in 2..i - 1 : j \in 2..Len(csv) /\ csv'[j] = csv[j]
        BY <1>0, <2>1, <4>1
      <4>3. QED
        BY <1>0, <4>1, <4>2
    <3>3. QED
      BY <3>1, <3>2
  <2>6. QED
    BY <1>0, <2>1, <2>2, <2>5 DEF FileIsHeaderAndRows
<1>8. QED
  BY <1>1, <1>2, <1>3, <1>4, <1>5, <1>6, <1>7 DEF Next, Fills

LEMMA FileInvInit == Init => FileInv
<1> SUFFICES ASSUME Init PROVE FileInv
  OBVIOUS
<1>1. /\ csv = <<>> /\ main = "down"
      /\ \A c \in Conn : pc[c] = "idle" /\ at[c] = "out"
      /\ files[LogName] = <<>>
  BY DEF Init, L!Init
<1>2. Len(csv) = 0 /\ Len(files[LogName]) = 0
  BY <1>1
<1>3. RowsTell /\ Unstrayed /\ HeaderDue
  BY <1>1 DEF RowsTell, Unstrayed, HeaderDue, Timing
<1>4. \A r : ~HasRow(csv, r)
  BY <1>2 DEF HasRow
<1>5. Kept
  BY <1>1, <1>2, <1>4 DEF Kept
<1>6. FileIsHeaderAndRows
  BY <1>1 DEF FileIsHeaderAndRows
<1>7. QED
  BY <1>3, <1>5, <1>6 DEF FileInv

LEMMA FileInvStep == RowInv /\ FileInv /\ L!TypeOK /\ [Next]_vars => FileInv'
<1> SUFFICES ASSUME RowInv, FileInv, L!TypeOK, [Next]_vars PROVE FileInv'
  OBVIOUS
<1>1. RowsTell' /\ Unstrayed'
  BY RowsTellStep, UnstrayedStep DEF FileInv
<1>2. ASSUME ~strayed'
      PROVE  HeaderDue' /\ Kept' /\ FileIsHeaderAndRows'
  <2>1. ~strayed
    BY <1>2, StrayedStays DEF RowInv, StreamTypes
  <2>2. QED
    BY <1>2, <2>1, HeaderDueStep, KeptStep, FileStep
<1>3. QED
  BY <1>1, <1>2 DEF FileInv

LEMMA FileInvAlways == Spec => [](RowInv /\ FileInv)
BY FileInvInit, FileInvStep, RowInvAlways, LoggerTypes, PTL DEF Spec

\* Over all starts and deaths the CSV file is one header and a row each for some of
\* the replies, which tells whether it was sent (TimingSerializer's constructor,
\* logTiming), unless two threads were in logTiming or a second process began.
THEOREM CsvIsHeaderAndRows == Spec => []FileIsHeaderAndRows
<1>1. FileInv => FileIsHeaderAndRows
  BY DEF FileInv, FileIsHeaderAndRows
<1>2. QED
  BY <1>1, FileInvAlways, PTL

\* What the log says was sent has its row in the CSV file, whenever the process
\* dies (TimingSerializer::serialize before LOG_INFO in processCommand).
THEOREM LogBehindCsv == Spec => []LoggedAfterRow
<1>1. FileInv => LoggedAfterRow
  BY DEF FileInv, Kept, HasRow, LoggedAfterRow
<1>2. QED
  BY <1>1, FileInvAlways, PTL

-----------------------------------------------------------------------------
(* The other types *)

MainTypes ==
  /\ main \in {"down", "open", "level", "bind", "up"}
  /\ starts \in 0..MaxStarts
  /\ other \subseteq {"started", "header", "logged"}

\* A thread has strings of a record while it works on the message; once it made the
\* message, it has all that it needs.
Made ==
  /\ found \in [Conn -> SUBSET (Names \cup {Other})]
  /\ record \in [Conn -> Records]
  /\ \A c \in Conn :
       /\ found[c] = {} => record[c] = <<>>
       /\ pc[c] \notin {"fill", "sent"} => found[c] = {}
       /\ pc[c] = "sent" => Complete(c)
  /\ person = [c \in Conn |->
       Message(kind, Args(kind, IF pc[c] = "sent" THEN record[c] ELSE <<>>))]

\* A thread outside serialize and its log line has no reply.
Unnumbered == \A c \in Conn : pc[c] = "idle" => reply[c] = 0

Others == MainTypes /\ Made /\ Unnumbered

\* The messages of a process that starts.
LEMMA FirstMessages ==
  ASSUME record' = [c \in Conn |-> <<>>], found' = [c \in Conn |-> {}],
         pc' = [c \in Conn |-> "idle"], kind' = kind,
         person' = [c \in Conn |-> Message(kind, Args(kind, <<>>))]
  PROVE  Made'
<1>1. record' \in [Conn -> Records]
  BY NoFields
<1>2. person' = [c \in Conn |->
        Message(kind', Args(kind', IF pc'[c] = "sent" THEN record'[c] ELSE <<>>))]
  OBVIOUS
<1>3. QED
  BY <1>1, <1>2 DEF Made

\* Once the message is made, all strings were read, or there are none.
LEMMA SentIsFull ==
  ASSUME Made, NEW c \in Conn, pc[c] = "sent"
  PROVE  /\ found[c] = {} => DOMAIN record[c] = {}
         /\ found[c] # {} => record[c] \in [Names -> Lens]
<1>1. CASE found[c] = {}
  <2>1. record[c] = <<>>
    BY <1>1 DEF Made
  <2>2. DOMAIN <<>> = {}
    OBVIOUS
  <2>3. QED
    BY <1>1, <2>1, <2>2
<1>2. CASE found[c] # {}
  <2>1. record[c] \in Records /\ Len(record[c]) + 1 \notin Names
    BY <1>2 DEF Made, Complete, NextName
  <2>2. QED
    BY <1>2, <2>1, ReadAll
<1>3. QED
  BY <1>1, <1>2

\* Every thread has the message of a record that is complete, or of none.
LEMMA MadeOfFull ==
  ASSUME Made, NEW c \in Conn
  PROVE  /\ Full(IF pc[c] = "sent" THEN record[c] ELSE <<>>)
         /\ person[c] = Message(kind, Args(kind, IF pc[c] = "sent" THEN record[c] ELSE <<>>))
<1>1. pc[c] = "sent" => Full(record[c])
  BY SentIsFull DEF Full
<1>2. QED
  BY <1>1, NoFields DEF Made

\* A step of c, which leaves to the others what they have.
LEMMA NextMessage ==
  ASSUME Made, kind' = kind, NEW c \in Conn, NEW to, NEW names \in SUBSET (Names \cup {Other}),
         NEW fields \in Records,
         pc' = [pc EXCEPT ![c] = to],
         pc \in [Conn -> {"idle", "fill", "sent", "store", "move", "flush", "empty", "log"}],
         found' = [found EXCEPT ![c] = names],
         record' = [record EXCEPT ![c] = fields],
         person' = [person EXCEPT ![c] =
                      Message(kind, Args(kind, IF to = "sent" THEN fields ELSE <<>>))],
         names = {} => fields = <<>>,
         to \notin {"fill", "sent"} => names = {},
         to = "sent" => names = {} \/ Len(fields) + 1 \notin Names
  PROVE  Made'
<1>1. /\ found' \in [Conn -> SUBSET (Names \cup {Other})] /\ record' \in [Conn -> Records]
      /\ pc'[c] = to /\ found'[c] = names /\ record'[c] = fields
      /\ \A d \in Conn \ {c} : pc'[d] = pc[d] /\ found'[d] = found[d] /\ record'[d] = record[d]
  BY DEF Made
<1>2. ASSUME NEW d \in Conn
      PROVE  /\ found'[d] = {} => record'[d] = <<>>
             /\ pc'[d] \notin {"fill", "sent"} => found'[d] = {}
             /\ pc'[d] = "sent" => Complete(d)'
  <2>1. CASE d = c
    BY <1>1, <2>1 DEF Complete, NextName
  <2>2. CASE d # c
    BY <1>1, <2>2 DEF Made, Complete, NextName
  <2>3. QED
    BY <2>1, <2>2
<1>3. person' = [d \in Conn |->
        Message(kind', Args(kind', IF pc'[d] = "sent" THEN record'[d] ELSE <<>>))]
  BY <1>1 DEF Made
<1>4. QED
  BY <1>1, <1>2, <1>3 DEF Made

\* A step of c after its message.
LEMMA SameMessages ==
  ASSUME Made, kind' = kind, NEW c \in Conn, UNCHANGED <<found, record, person>>,
         pc[c] \notin {"fill", "sent"}, pc'[c] \notin {"fill", "sent"},
         \A d \in Conn \ {c} : pc'[d] = pc[d]
  PROVE  Made'
<1>1. ASSUME NEW d \in Conn
      PROVE  /\ (pc'[d] = "sent") <=> (pc[d] = "sent")
             /\ (pc'[d] \in {"fill", "sent"}) <=> (pc[d] \in {"fill", "sent"})
  <2>1. CASE d = c
    BY <2>1
  <2>2. CASE d # c
    BY <2>2
  <2>3. QED
    BY <2>1, <2>2
<1>2. ASSUME NEW d \in Conn
      PROVE  /\ found'[d] = {} => record'[d] = <<>>
             /\ pc'[d] \notin {"fill", "sent"} => found'[d] = {}
             /\ pc'[d] = "sent" => Complete(d)'
  BY <1>1 DEF Made, Complete, NextName
<1>3. person' = [d \in Conn |->
        Message(kind', Args(kind', IF pc'[d] = "sent" THEN record'[d] ELSE <<>>))]
  BY <1>1 DEF Made
<1>4. QED
  BY <1>2, <1>3 DEF Made

LEMMA OthersInit == Init => Others
<1> SUFFICES ASSUME Init PROVE Others
  OBVIOUS
<1>1. /\ record = [c \in Conn |-> <<>>] /\ found = [c \in Conn |-> {}]
      /\ pc = [c \in Conn |-> "idle"]
      /\ person = [c \in Conn |-> Message(kind, Args(kind, <<>>))]
  BY DEF Init
<1>2. Made
  BY <1>1, NoFields DEF Made
<1>3. MainTypes /\ Unnumbered
  BY MaxStartsAssumption DEF Init, MainTypes, Unnumbered
<1>4. QED
  BY <1>2, <1>3 DEF Others

LEMMA OthersStep == RowInv /\ Others /\ [Next]_vars => Others'
<1> SUFFICES ASSUME RowInv, Others, [Next]_vars PROVE Others'
  OBVIOUS
<1>0. MainTypes /\ Made /\ Unnumbered /\ kind' = kind
  BY NumbersGoUp DEF Others
<1>1. CASE Start \/ Die
  <2>1. MainTypes'
    <3>1. /\ main' \in {"open", "down"} /\ other' = other
          /\ starts' = starts \/ (starts' = starts + 1 /\ starts < MaxStarts)
      BY <1>1 DEF Start, Die
    <3>2. QED
      BY <1>0, <3>1, MaxStartsAssumption DEF MainTypes
  <2>2. Made'
    BY <1>0, <1>1, FirstMessages DEF Start, Die, NoThreads
  <2>3. Unnumbered'
    BY <1>1 DEF Start, Die, NoThreads, Unnumbered
  <2>4. QED
    BY <2>1, <2>2, <2>3 DEF Others
<1>2. CASE UNCHANGED <<kind, pc, reply, found, record, person>> /\ MainTypes'
  BY <1>0, <1>2 DEF Others, Made, Complete, NextName, Unnumbered
<1>3. ASSUME OpenLog \/ SetLevel \/ Bind \/ BindFails \/ OtherStarts \/ OtherLogs \/ OtherEnds \/ LoggerStep
             \/ UNCHANGED vars
      PROVE  UNCHANGED <<kind, pc, reply, found, record, person>> /\ MainTypes'
  <2>1. UNCHANGED <<kind, pc, reply, found, record, person>>
    BY <1>3 DEF OpenLog, SetLevel, Bind, BindFails, OtherStarts, OtherLogs, OtherEnds, LoggerStep, vars,
                process, message
  <2>2. MainTypes'
    <3>1. /\ main' \in {main, "level", "bind", "up", "down"}
          /\ starts' = starts \/ (starts' = starts + 1 /\ starts < MaxStarts)
      BY <1>3
         DEF OpenLog, SetLevel, Bind, BindFails, OtherStarts, OtherLogs, OtherEnds, LoggerStep,
             vars, process
    <3>2. \/ other' = other \/ other' = {} \/ other' = other \cup {"logged"}
          \/ other' = {"started"} \cup (IF OpenCsv = <<>> THEN {} ELSE {"header"})
      BY <1>3
         DEF OpenLog, SetLevel, Bind, BindFails, OtherStarts, OtherLogs, OtherEnds, LoggerStep,
             vars, process
    <3>3. other' \subseteq {"started", "header", "logged"}
      BY <1>0, <3>2 DEF MainTypes
    <3>4. QED
      BY <1>0, <3>1, <3>3, MaxStartsAssumption DEF MainTypes
  <2>3. QED
    BY <2>1, <2>2
<1>4. ASSUME NEW c \in Conn, Fills(c)
      PROVE  Others'
  <2>1. MainTypes'
    BY <1>0, <1>4, FillStep DEF RowInv, MainTypes
  <2>2. Unnumbered'
    BY <1>0, <1>4, FillStep DEF RowInv, Unnumbered
  <2>3. ASSUME NEW names \in SUBSET (Names \cup {Other}), Call(c, names)
        PROVE  Made'
    <3>1. /\ pc[c] = "idle" /\ pc' = [pc EXCEPT ![c] = "fill"]
          /\ found' = [found EXCEPT ![c] = names] /\ record' = record /\ person' = person
      BY <2>3 DEF Call
    <3>2. record[c] = <<>> /\ person[c] = Message(kind, Args(kind, <<>>))
      BY <1>0, <3>1 DEF Made
    <3>3. /\ record' = [record EXCEPT ![c] = <<>>]
          /\ person' = [person EXCEPT ![c] = Message(kind, Args(kind, <<>>))]
      BY <1>0, <3>1, <3>2 DEF Made
    <3>4. QED
      BY <1>0, <3>1, <3>3, NoFields, NextMessage DEF RowInv, Numbered
  <2>4. ASSUME NEW n \in Lens, ReadField(c, n)
        PROVE  Made'
    <3> DEFINE fields == Append(record[c], n)
    <3>1. /\ pc[c] = "fill" /\ pc' = [pc EXCEPT ![c] = "fill"] /\ ~Complete(c)
          /\ found' = found /\ record' = [record EXCEPT ![c] = fields] /\ person' = person
      BY <1>0, <2>4 DEF ReadField, Goto, Made
    <3>2. found[c] # {} /\ Len(record[c]) + 1 \in Names /\ found[c] \in SUBSET (Names \cup {Other})
      BY <1>0, <3>1 DEF Complete, NextName, Made
    <3>3. fields \in Records
      BY <1>0, <3>2, ReadOne DEF Made
    <3>4. person[c] = Message(kind, Args(kind, <<>>))
      BY <1>0, <3>1 DEF Made
    <3>5. /\ found' = [found EXCEPT ![c] = found[c]]
          /\ person' = [person EXCEPT ![c] = Message(kind, Args(kind, <<>>))]
      BY <1>0, <3>1, <3>4 DEF Made
    <3> HIDE DEF fields
    <3>6. QED
      BY <1>0, <3>1, <3>2, <3>3, <3>5, NextMessage DEF RowInv, Numbered
  <2>5. ASSUME Serialize(c)
        PROVE  Made'
    <3>1. /\ pc[c] = "fill" /\ pc' = [pc EXCEPT ![c] = "sent"] /\ Complete(c)
          /\ found' = found /\ record' = record
          /\ person' = [person EXCEPT ![c] = Message(kind, Args(kind, record[c]))]
      BY <2>5 DEF Serialize, Goto
    <3> DEFINE names == found[c]
    <3> DEFINE fields == record[c]
    <3>2. /\ found' = [found EXCEPT ![c] = names] /\ record' = [record EXCEPT ![c] = fields]
          /\ names \in SUBSET (Names \cup {Other}) /\ fields \in Records
          /\ names = {} => fields = <<>>
          /\ names = {} \/ Len(fields) + 1 \notin Names
      BY <1>0, <3>1 DEF Made, Complete, NextName
    <3>3. person' = [person EXCEPT ![c] = Message(kind, Args(kind, fields))]
      BY <3>1
    <3> HIDE DEF names, fields
    <3>4. QED
      BY <1>0, <3>1, <3>2, <3>3, NextMessage DEF RowInv, Numbered
  <2>6. QED
    BY <1>4, <2>1, <2>2, <2>3, <2>4, <2>5 DEF Others, Fills
<1>5. ASSUME NEW c \in Conn, ReadFails(c)
      PROVE  Others'
  BY <1>1, <1>5 DEF ReadFails
<1>6. ASSUME NEW c \in Conn,
             LogTiming(c) \/ Store(c) \/ Move(c) \/ Flush(c) \/ Empty(c) \/ LogSent(c)
      PROVE  MainTypes'
  BY <1>0, <1>6 DEF LogTiming, Store, Move, Flush, Empty, LogSent, Goto, process, MainTypes
<1>7. ASSUME NEW c \in Conn, LogTiming(c)
      PROVE  Others'
  <2>1. /\ pc' = [pc EXCEPT ![c] = "store"] /\ found' = [found EXCEPT ![c] = {}]
        /\ record' = [record EXCEPT ![c] = <<>>]
        /\ person' = [person EXCEPT ![c] = Message(kind, Args(kind, <<>>))]
    BY <1>7 DEF LogTiming, Goto
  <2>2. Made'
    BY <1>0, <2>1, NextMessage, NoFields DEF RowInv, Numbered
  <2>3. Unnumbered'
    BY <1>0, <1>7 DEF LogTiming, Goto, Unnumbered, RowInv, Numbered
  <2>4. QED
    BY <1>6, <1>7, <2>2, <2>3 DEF Others
<1>8. ASSUME NEW c \in Conn, Store(c) \/ Move(c) \/ Flush(c) \/ Empty(c)
      PROVE  Others'
  <2>1. UNCHANGED <<found, record, person, reply>>
    BY <1>8 DEF Store, Move, Flush, Empty
  <2>2. /\ pc[c] \notin {"idle", "fill", "sent"} /\ pc'[c] \notin {"idle", "fill", "sent"}
        /\ \A d \in Conn \ {c} : pc'[d] = pc[d]
    BY <1>8, GoesTo DEF Store, Move, Flush, Empty, RowInv
  <2>3. Made' /\ Unnumbered'
    BY <1>0, <2>1, <2>2, SameMessages DEF Unnumbered
  <2>4. QED
    BY <1>6, <1>8, <2>3 DEF Others
<1>9. ASSUME NEW c \in Conn, LogSent(c)
      PROVE  Others'
  <2>1. UNCHANGED <<found, record, person>> /\ reply' = [reply EXCEPT ![c] = 0]
    BY <1>9 DEF LogSent
  <2>2. /\ pc[c] = "log" /\ pc'[c] = "idle"
        /\ \A d \in Conn \ {c} : pc'[d] = pc[d]
    BY <1>9, GoesTo DEF LogSent, RowInv
  <2>3. Made'
    BY <1>0, <2>1, <2>2, SameMessages
  <2>4. Unnumbered'
    BY <1>0, <2>1, <2>2 DEF Unnumbered, RowInv, Numbered
  <2>5. QED
    BY <1>6, <1>9, <2>3, <2>4 DEF Others
<1>10. QED
  BY <1>1, <1>2, <1>3, <1>4, <1>5, <1>7, <1>8, <1>9 DEF Next, Fills

LEMMA OthersAlways == Spec => [](RowInv /\ Others)
<1>1. QED
  BY OthersInit, OthersStep, RowInvAlways, PTL DEF Spec

\* Every variable of the process, its threads, its stream and its Logger has its
\* type, and a message of MuSer has the members of its class.
THEOREM ProcessTypes == Spec => []TypeOK
<1>1. RowInv /\ Others /\ L!TypeOK => TypeOK
  <2> SUFFICES ASSUME RowInv, Others, L!TypeOK PROVE TypeOK
    OBVIOUS
  <2>1. \A c \in Conn : pc[c] = "idle" <=> reply[c] = 0
    BY MaxRepliesAssumption DEF RowInv, Numbered, Others, Unnumbered
  <2>2. /\ found \in [Conn -> SUBSET (Names \cup {Other})] /\ record \in [Conn -> Records]
        /\ kind = "MuSer" => person \in [Conn -> Person]
    <3>1. Made
      BY DEF Others
    <3>2. ASSUME kind = "MuSer", NEW c \in Conn
          PROVE  person[c] \in Person
      BY <3>1, <3>2, MuSerType, MadeOfFull
    <3>3. QED
      BY <3>1, <3>2 DEF Made
  <2>3. QED
    BY <2>1, <2>2 DEF RowInv, Numbered, StreamTypes, Others, MainTypes, TypeOK
<1>2. QED
  BY <1>1, OthersAlways, LoggerTypes, PTL

\* Whatever the record, each serializer writes as much as it counted before: the
\* copy of MuSer fills the buffer that was allocated for it, the array of the two
\* other ways has no entry too many or too few, and ByteSizeLong of Protobuf is
\* the size of what is sent.
THEOREM WritesWhatItCounts == Spec => []FitsExactly
<1>1. RowInv /\ Others => FitsExactly
  <2> SUFFICES ASSUME RowInv, Others, NEW c \in Conn PROVE Fits(kind, person[c])
    BY DEF FitsExactly, Fits
  <2>1. kind \in Kinds
    BY DEF RowInv, StreamTypes
  <2> DEFINE fields == IF pc[c] = "sent" THEN record[c] ELSE <<>>
  <2>2. Full(fields) /\ person[c] = Message(kind, Args(kind, fields))
    BY MadeOfFull DEF Others
  <2> HIDE DEF fields
  <2>3. QED
    BY <2>1, <2>2, MessageFits
<1>2. QED
  BY <1>1, OthersAlways, PTL

\* At each member a client finds a string as long as the one that the thread read
\* of that very field, whatever a deleted string was read as, or nothing if the
\* response has no fields; and the key behind them (muSer.cpp, Protobuf.cpp,
\* FlatBuffers.cpp).  MuSer's lengths stand in front of their bytes.
THEOREM ClientsFindWhatWasRead == Spec => []MembersAsRead
<1>1. RowInv /\ Others => MembersAsRead
  <2> SUFFICES ASSUME RowInv, Others, NEW c \in Conn, pc[c] = "sent"
               PROVE  /\ kind = "MuSer" => person[c].bitmap = Ids /\ Readable(person[c], Parts(person[c]))
                      /\ \A id \in Names :
                           Received(kind, person[c], id) = IF found[c] # {} THEN record[c][id] ELSE 0
                      /\ Received(kind, person[c], N) \in {KeyLen - 1, KeyLen}
    BY DEF MembersAsRead
  <2> DEFINE args == Args(kind, record[c])
  <2>1. kind \in Kinds
    BY DEF RowInv, StreamTypes
  <2>2. Full(record[c]) /\ person[c] = Message(kind, args)
    BY MadeOfFull DEF Others
  <2>3. \A id \in Names : DOMAIN record[c] = {} <=> found[c] = {}
    BY SentIsFull DEF Others
  <2>4. /\ args \in [Ids -> Nat]
        /\ \A id \in Names : args[id] = IF DOMAIN record[c] = {} THEN 0 ELSE record[c][id]
        /\ args[N] \in {KeyLen - 1, KeyLen}
    BY <2>2, ArgsType
  <2> HIDE DEF args
  <2>5. /\ args \in [Ids -> Nat]
        /\ \A id \in Names : args[id] = IF found[c] # {} THEN record[c][id] ELSE 0
        /\ args[N] \in {KeyLen - 1, KeyLen}
    BY <2>3, <2>4
  <2>6. /\ \A id \in Ids : Received(kind, person[c], id) = args[id]
        /\ kind = "MuSer" => person[c].bitmap = Ids /\ Readable(person[c], Parts(person[c]))
    BY <2>1, <2>2, <2>5, MessageReceived
  <2>7. N \in Ids /\ \A id \in Names : id \in Ids
    BY NAssumption DEF Ids, Names
  <2>8. QED
    BY <2>5, <2>6, <2>7
<1>2. QED
  BY <1>1, OthersAlways, PTL
=============================================================================
