--------------------------- MODULE SessionProofs ---------------------------
(* The commands that the read loop cuts tile the stream, for any buffer and  *)
(* any messages, however TCP cuts them and whenever the client goes away;    *)
(* which reads end a command; that the words of a text are read as they were *)
(* meant; and what is executed of it, whole or cut.                          *)
EXTENDS Session, SequenceLemmas

\* Whole buffers, as a thread in read() has: data is n buffers for some n.
Whole(m) == \E n \in Nat : m = n * BUF

\* While the thread waits in read(), data is whole buffers.
ReadsWhole == pc # "process" => Whole(consumed - start)

\* The inductive invariant of Connection.
CInv == TypeOK /\ FramesTile /\ ReadsWhole

\* The loop starts with empty data and no command.
LEMMA CInvInit == Init => CInv
  <1> SUFFICES ASSUME Init PROVE CInv
    OBVIOUS
  <1>1. TypeOK
    BY MaxMessagesAssumption DEF Init, TypeOK, Sent, End
  <1>2. FramesTile
    BY DEF Init, FramesTile
  <1>3. 0 = 0 * BUF
    BY BUFAssumption
  <1>4. ReadsWhole
    BY <1>3 DEF Init, ReadsWhole, Whole
  <1> QED BY <1>1, <1>2, <1>4 DEF CInv

LEMMA CInvStep == CInv /\ [Next]_vars => CInv'
  <1> SUFFICES ASSUME CInv, [Next]_vars PROVE CInv'
    OBVIOUS
  <1> USE DEF CInv
  <1>0. Sent \in Nat
    BY DEF TypeOK, Sent, End
  <1>1. ASSUME NEW n \in Lengths, Write(n) PROVE CInv'
    <2>1. n \in Nat \ {0}
      BY LengthsAssumption
    <2>2. ends' = Append(ends, Sent + n) /\ UNCHANGED <<arrived, consumed, start, frames, pc, peer>>
      BY <1>1 DEF Write
    <2>3. Sent' = Sent + n
      BY <2>1, <2>2, <1>0 DEF Sent, End, TypeOK
    <2>4. TypeOK'
      BY <1>0, <1>1, <2>1, <2>2, <2>3, MaxMessagesAssumption DEF Write, TypeOK
    <2>5. FramesTile' /\ ReadsWhole'
      BY <2>2 DEF FramesTile, ReadsWhole
    <2> QED BY <2>4, <2>5
  <1>2. ASSUME NEW n \in 1..Sent - arrived, Deliver(n) PROVE CInv'
    <2>1. arrived' = arrived + n /\ UNCHANGED <<ends, consumed, start, frames, pc, peer>>
      BY <1>2 DEF Deliver
    <2>2. Sent' = Sent
      BY <2>1 DEF Sent, End
    <2>3. TypeOK'
      BY <1>0, <1>2, <2>1, <2>2 DEF Deliver, TypeOK
    <2>4. FramesTile' /\ ReadsWhole'
      BY <2>1 DEF FramesTile, ReadsWhole
    <2> QED BY <2>3, <2>4
  <1>3. CASE Hangup
    BY <1>3 DEF Hangup, TypeOK, FramesTile, ReadsWhole, Sent, End
  <1>4. CASE Read
    <2> DEFINE n == Least(BUF, arrived - consumed)
    <2>1. n > 0 /\ n \in Nat /\ n <= BUF /\ n <= arrived - consumed
      BY <1>4, <1>0, BUFAssumption DEF Read, Least, TypeOK
    <2>2. /\ pc = "read" /\ consumed' = consumed + n
          /\ pc' = IF n < BUF THEN "process" ELSE "read"
          /\ UNCHANGED <<ends, arrived, start, frames, peer, polite>>
      BY <1>4 DEF Read
    <2>3. Sent' = Sent
      BY <2>2 DEF Sent, End
    <2> HIDE DEF n
    <2>4. TypeOK'
      BY <1>0, <2>1, <2>2, <2>3 DEF TypeOK
    <2>5. FramesTile'
      BY <2>2 DEF FramesTile
    <2>6. ReadsWhole'
      <3> SUFFICES ASSUME pc' # "process" PROVE Whole(consumed' - start')
        BY DEF ReadsWhole
      <3>1. n = BUF
        BY <2>1, <2>2, BUFAssumption
      <3>2. PICK k \in Nat : consumed - start = k * BUF
        BY <2>2 DEF ReadsWhole, Whole
      <3>3. consumed' - start' = k * BUF + BUF
        BY <1>0, <2>2, <3>1, <3>2, BUFAssumption DEF TypeOK
      <3>4. k * BUF + BUF = (k + 1) * BUF
        BY BUFAssumption
      <3> QED BY <3>3, <3>4 DEF Whole
    <2> QED BY <2>4, <2>5, <2>6
  <1>5. CASE ReadError
    BY <1>5 DEF ReadError, TypeOK, FramesTile, ReadsWhole, Sent, End
  <1>6. CASE ReadEnd
    BY <1>6 DEF ReadEnd, TypeOK, FramesTile, ReadsWhole, Sent, End
  <1>7. CASE Process
    <2>1. /\ frames' = Append(frames, [from |-> start, to |-> consumed])
          /\ start' = consumed /\ pc' = "read"
          /\ UNCHANGED <<ends, arrived, consumed, peer, polite>>
      BY <1>7 DEF Process
    <2>2. Sent' = Sent
      BY <2>1 DEF Sent, End
    <2>3. [from |-> start, to |-> consumed] \in [from : Nat, to : Nat]
      BY <1>0 DEF TypeOK
    <2>4. TypeOK'
      BY <1>0, <2>1, <2>2, <2>3 DEF TypeOK
    <2>5. FramesTile'
      <3>1. /\ Len(frames') = Len(frames) + 1
            /\ frames'[Len(frames) + 1] = [from |-> start, to |-> consumed]
            /\ \A i \in 1..Len(frames) : frames'[i] = frames[i]
        BY <2>1, <2>3 DEF TypeOK
      <3>2. frames = <<>> <=> Len(frames) = 0
        BY DEF TypeOK
      <3>3. Len(frames) \in Nat
        BY DEF TypeOK
      <3>6. frames' # <<>>
        <4>1. frames' = <<>> => Len(frames') = 0
          OBVIOUS
        <4> QED BY <4>1, <3>1, <3>3
      <3>4. start' = frames'[Len(frames')].to
        BY <2>1, <3>1
      <3>5. ASSUME NEW i \in 1..Len(frames')
            PROVE  frames'[i].from = IF i = 1 THEN 0 ELSE frames'[i - 1].to
        <4>1. CASE i = Len(frames) + 1
          BY <4>1, <3>1, <3>2, <3>3 DEF FramesTile
        <4>2. CASE i \in 1..Len(frames)
          BY <4>2, <3>1, <3>3 DEF FramesTile
        <4> QED BY <4>1, <4>2, <3>1, <3>3
      <3> QED BY <3>4, <3>5, <3>6 DEF FramesTile
    <2>6. consumed' - start' = 0 * BUF
      BY <1>0, <2>1, BUFAssumption DEF TypeOK
    <2> QED BY <2>4, <2>5, <2>6 DEF ReadsWhole, Whole
  <1>8. CASE Idle \/ UNCHANGED vars
    BY <1>8 DEF Idle, vars, TypeOK, FramesTile, ReadsWhole, Sent, End
  <1> QED BY <1>1, <1>2, <1>3, <1>4, <1>5, <1>6, <1>7, <1>8 DEF Next, Handle

\* The connection keeps CInv: types, tiling, whole buffers in read().
THEOREM ConnectionInvariant == Spec => []CInv
  BY CInvInit, CInvStep, PTL DEF Spec

\* The variables of handleClient keep their types.
THEOREM ConnectionTypes == Spec => []TypeOK
  <1>1. CInv => TypeOK
    BY DEF CInv
  <1> QED BY <1>1, ConnectionInvariant, PTL

\* No byte is in two commands or between two, however the stream is cut
\* (Server::handleClient).
THEOREM Tiling == Spec => []FramesTile
  <1>1. CInv => FramesTile
    BY DEF CInv
  <1> QED BY <1>1, ConnectionInvariant, PTL

\* A multiple has no rest.
LEMMA CWaits == CInv => WaitsOnWholeBlocks
  <1>1. ASSUME NEW n \in Nat PROVE (n * BUF) % BUF = 0
    BY BUFAssumption
  <1> QED BY <1>1 DEF CInv, ReadsWhole, Whole, WaitsOnWholeBlocks

\* A thread that waits in read() never holds the tail of a command
\* (Server::handleClient).
THEOREM WaitingHoldsWholeBlocks == Spec => []WaitsOnWholeBlocks
  <1> QED BY CWaits, ConnectionInvariant, PTL

-----------------------------------------------------------------------------
\* Not whole buffers: the last read was short.
Ragged(m) == \E n \in Nat : \E r \in 1..BUF - 1 : m = n * BUF + r

\* A command ends with a short read or with a failed one, and a failed one is the
\* last: nothing arrives after it.
EndsRagged ==
  /\ peer = "broken" => arrived = consumed
  /\ pc = "process" => peer = "broken" \/ Ragged(consumed - start)
  /\ \A i \in 1..Len(frames) :
       Ragged(Size(i)) \/ (i = Len(frames) /\ peer = "broken" /\ pc # "process")

LEMMA EndsRaggedInit == Init => EndsRagged
  BY DEF Init, EndsRagged

LEMMA EndsRaggedStep == CInv /\ EndsRagged /\ [Next]_vars => EndsRagged'
  <1> SUFFICES ASSUME CInv, EndsRagged, [Next]_vars PROVE EndsRagged'
    OBVIOUS
  <1>0. arrived \in Nat /\ consumed \in Nat /\ start \in Nat /\ Len(frames) \in Nat
    BY DEF CInv, TypeOK, Sent, End
  <1>1. ASSUME NEW n \in Lengths, Write(n) PROVE EndsRagged'
    BY <1>1 DEF Write, EndsRagged, Size
  <1>2. ASSUME NEW n \in 1..Sent - arrived, Deliver(n) PROVE EndsRagged'
    BY <1>2 DEF Deliver, EndsRagged, Size
  <1>3. CASE Hangup
    BY <1>3 DEF Hangup, EndsRagged, Size
  <1>4. CASE Read
    <2> DEFINE n == Least(BUF, arrived - consumed)
    <2>1. n > 0 /\ n \in Nat /\ n <= arrived - consumed
      BY <1>4, <1>0, BUFAssumption DEF Read, Least, CInv, TypeOK
    <2>2. /\ pc = "read" /\ consumed' = consumed + n
          /\ pc' = IF n < BUF THEN "process" ELSE "read"
          /\ UNCHANGED <<arrived, start, frames, peer>>
      BY <1>4 DEF Read
    <2> HIDE DEF n
    <2>3. peer # "broken"
      BY <1>0, <2>1 DEF EndsRagged
    <2>4. PICK k \in Nat : consumed - start = k * BUF
      BY <2>2 DEF CInv, ReadsWhole, Whole
    <2>5. pc' = "process" => Ragged(consumed' - start')
      <3> SUFFICES ASSUME pc' = "process" PROVE Ragged(consumed' - start')
        OBVIOUS
      <3>1. n \in 1..BUF - 1
        BY <2>1, <2>2, BUFAssumption
      <3>2. k * BUF \in Nat
        BY BUFAssumption
      <3>3. consumed' - start' = k * BUF + n
        BY <1>0, <2>1, <2>2, <2>4, <3>2
      <3> QED BY <3>1, <3>3 DEF Ragged
    <2>6. \A i \in 1..Len(frames) : Ragged(Size(i))
      BY <2>3 DEF EndsRagged
    <2> QED BY <2>2, <2>3, <2>5, <2>6 DEF EndsRagged, Size
  <1>5. CASE ReadError
    <2>1. peer = "reset" /\ pc' = "process" /\ peer' = "broken" /\ arrived = consumed
          /\ UNCHANGED <<arrived, consumed, frames>>
      BY <1>5 DEF ReadError
    <2>2. \A i \in 1..Len(frames) : Ragged(Size(i))
      BY <2>1 DEF EndsRagged
    <2> QED BY <2>1, <2>2 DEF EndsRagged, Size
  <1>6. CASE ReadEnd
    BY <1>6 DEF ReadEnd, EndsRagged, Size
  <1>7. CASE Process
    <2>1. /\ pc = "process" /\ pc' = "read"
          /\ frames' = Append(frames, [from |-> start, to |-> consumed])
          /\ UNCHANGED <<arrived, consumed, peer>>
      BY <1>7 DEF Process
    <2>2. /\ Len(frames') = Len(frames) + 1
          /\ frames'[Len(frames) + 1] = [from |-> start, to |-> consumed]
          /\ \A i \in 1..Len(frames) : frames'[i] = frames[i]
      BY <1>0, <2>1 DEF CInv, TypeOK
    <2>3. \A i \in 1..Len(frames) : Ragged(Size(i)')
      BY <2>1, <2>2 DEF EndsRagged, Size
    <2>4. ASSUME NEW i \in Nat, i = Len(frames) + 1 PROVE Size(i)' = consumed - start
      BY <2>2, <2>4 DEF Size
    <2>5. Ragged(consumed - start) \/ peer' = "broken"
      BY <2>1 DEF EndsRagged
    <2>6. ASSUME NEW i \in 1..Len(frames')
          PROVE  Ragged(Size(i)') \/ (i = Len(frames') /\ peer' = "broken" /\ pc' # "process")
      <3>1. CASE i \in 1..Len(frames)
        BY <2>3, <3>1
      <3>2. CASE i = Len(frames) + 1
        <4>1. Size(i)' = consumed - start
          BY <1>0, <2>4, <3>2
        <4> QED BY <4>1, <3>2, <2>1, <2>2, <2>5
      <3> QED BY <1>0, <2>2, <3>1, <3>2
    <2> QED BY <2>1, <2>6 DEF EndsRagged, Size
  <1>8. CASE Idle \/ UNCHANGED vars
    BY <1>8 DEF Idle, vars, EndsRagged, Size
  <1> QED BY <1>1, <1>2, <1>3, <1>4, <1>5, <1>6, <1>7, <1>8 DEF Next, Handle

\* Only a failed read ends a command of whole buffers, and nothing comes after it
\* (Server::handleClient).
THEOREM WholeBuffersEndTheConnection == Spec => []BlockFrameIsLast
  <1>1. ASSUME NEW n \in Nat, NEW r \in 1..BUF - 1 PROVE (n * BUF + r) % BUF # 0
    BY BUFAssumption
  <1>2. EndsRagged => BlockFrameIsLast
    BY <1>1 DEF EndsRagged, Ragged, BlockFrameIsLast
  <1> QED BY <1>2, ConnectionInvariant, EndsRaggedInit, EndsRaggedStep, PTL DEF Spec

-----------------------------------------------------------------------------
(* A connection with its text is a connection. *)

LEMMA SessionStep == [SessionNext]_svars => [Next]_vars
  <1> SUFFICES ASSUME SessionNext PROVE Next \/ UNCHANGED vars
    BY DEF svars
  <1>1. ASSUME NEW m \in Messages, Send(m) PROVE Next
    <2>1. Len(Text(m)) \in Lengths
      BY MessagesAssumption
    <2> QED BY <1>1, <2>1 DEF Send, Next
  <1>2. ASSUME NEW n \in 1..Sent - arrived, Segment(n) PROVE Next
    BY <1>2 DEF Segment, Next
  <1>3. CASE (Hangup \/ Idle) /\ UNCHANGED <<stream, said, cuts, executed, parser>>
    BY <1>3 DEF Next
  <1>4. CASE Thread
    BY <1>4 DEF Thread, BeginProcess, Deserialize, EndProcess, Next, Handle
  <1> QED BY <1>1, <1>2, <1>3, <1>4 DEF SessionNext

\* The bytes of a connection with text are the bytes of Connection: the actions of
\* the client, of TCP and of the thread are its actions, and parsing is a stutter
\* (Server::handleClient).
THEOREM IsConnection == SessionSpec => Init /\ [][Next]_vars
  BY SessionStep, PTL DEF SessionSpec, SessionInit

\* So the commands that are parsed tile the stream too, and how they end is known.
THEOREM SessionTiles == SessionSpec => [](FramesTile /\ WaitsOnWholeBlocks /\ BlockFrameIsLast)
  <1>1. CInv => FramesTile /\ WaitsOnWholeBlocks
    BY CWaits DEF CInv
  <1>2. EndsRagged => BlockFrameIsLast
    <2>1. ASSUME NEW n \in Nat, NEW r \in 1..BUF - 1 PROVE (n * BUF + r) % BUF # 0
      BY BUFAssumption
    <2> QED BY <2>1 DEF EndsRagged, Ragged, BlockFrameIsLast
  <1> QED BY <1>1, <1>2, IsConnection, CInvInit, CInvStep, EndsRaggedInit, EndsRaggedStep, PTL

-----------------------------------------------------------------------------
(* What pieces spell.  Join is a recursive function; f is one for pieces s. *)

\* What nothing spells, and what w spells with one more piece.
NoText == ""
Glue(w, p) == IF p = Quote THEN w ELSE w \o p

Spells(f, s) == f = [n \in 0..Len(s) |-> IF n = 0 THEN NoText ELSE Glue(f[n - 1], s[n])]

\* Such a function at a place, and the one before it.
LEMMA SpellsAt ==
  ASSUME NEW s \in Seq(Piece), NEW f, Spells(f, s)
  PROVE  /\ f[0] = NoText
         /\ \A n \in 1..Len(s) : f[n] = Glue(f[n - 1], s[n])
  <1>1. \A n \in 0..Len(s) : f[n] = IF n = 0 THEN NoText ELSE Glue(f[n - 1], s[n])
    BY DEF Spells
  <1>2. Len(s) \in Nat
    OBVIOUS
  <1> QED BY <1>1, <1>2

\* One more piece.
LEMMA SpellsMore ==
  ASSUME NEW s \in Seq(Piece), NEW p \in Piece, NEW f, Spells(f, s)
  PROVE  \E g : Spells(g, Append(s, p)) /\ \A n \in 0..Len(s) : g[n] = f[n]
  <1> DEFINE k == Len(s) + 1
             t == Append(s, p)
             last == Glue(f[k - 1], p)
             g == [n \in 0..k |-> IF n = k THEN last ELSE f[n]]
  <1>1. /\ k \in Nat /\ k - 1 = Len(s) /\ t \in Seq(Piece) /\ Len(t) = k
        /\ t[k] = p /\ \A n \in 1..Len(s) : t[n] = s[n]
    OBVIOUS
  <1>2. /\ \A n \in 0..Len(s) : g[n] = f[n]
        /\ g[k] = last
        /\ g = [n \in 0..k |-> g[n]]
    BY <1>1
  <1> HIDE DEF g, t, k
  <1>3. ASSUME NEW n \in 0..k
        PROVE  g[n] = IF n = 0 THEN NoText ELSE Glue(g[n - 1], t[n])
    <2>1. CASE n = 0
      <3>1. g[0] = f[0] /\ f[0] = NoText
        <4>1. 0 \in 0..Len(s)
          OBVIOUS
        <4>2. g[0] = f[0]
          BY <1>2, <4>1
        <4>3. f[0] = NoText
          BY SpellsAt
        <4> QED BY <4>2, <4>3
      <3> QED BY <2>1, <3>1
    <2>2. CASE n \in 1..Len(s)
      <3>1. n - 1 \in 0..Len(s) /\ n \in 0..Len(s) /\ n # 0
        BY <2>2
      <3>2. f[n] = Glue(f[n - 1], s[n])
        BY <2>2, SpellsAt
      <3> HIDE DEF last
      <3> QED BY <1>1, <1>2, <2>2, <3>1, <3>2
    <2>3. CASE n = k
      <3>1. k # 0 /\ k - 1 \in 0..Len(s)
        BY <1>1
      <3>2. g[n - 1] = f[k - 1]
        BY <1>2, <2>3, <3>1
      <3> QED BY <1>1, <1>2, <2>3, <3>1, <3>2
    <2> QED BY <1>1, <2>1, <2>2, <2>3
  <1>4. Spells(g, t)
    <2> HIDE DEF last
    <2> QED BY <1>1, <1>2, <1>3, Zenon DEF Spells
  <1> QED BY <1>2, <1>4 DEF t

\* The recursive definition in Join defines a function.
LEMMA SpellsExists == \A s \in Seq(Piece) : \E f : Spells(f, s)
  <1> DEFINE A == {s \in Seq(Piece) : \E f : Spells(f, s)}
  <1>1. <<>> \in A
    <2> DEFINE f == [n \in 0..Len(<<>>) |-> NoText]
    <2>1. <<>> \in Seq(Piece) /\ Len(<<>>) = 0
      OBVIOUS
    <2>2. Spells(f, <<>>)
      BY <2>1 DEF Spells
    <2> HIDE DEF f
    <2> QED BY <2>1, <2>2
  <1>2. \A s \in Seq(Piece) : s \in A => \A p \in Piece : Append(s, p) \in A
    <2> SUFFICES ASSUME NEW s \in Seq(Piece), NEW f, Spells(f, s), NEW p \in Piece
                 PROVE  Append(s, p) \in A
      OBVIOUS
    <2>1. \E g : Spells(g, Append(s, p))
      BY SpellsMore
    <2> QED BY <2>1
  <1> HIDE DEF A
  <1>3. Seq(Piece) \subseteq A
    BY <1>1, <1>2, InductSeq
  <1> QED BY <1>3 DEF A

\* Any two of them agree, so Join is the last value of any.
LEMMA SpellsAgree ==
  ASSUME NEW s \in Seq(Piece), NEW f, Spells(f, s),
         NEW t \in Seq(Piece), NEW g, Spells(g, t),
         NEW k \in 0..Len(s), k <= Len(t), \A n \in 1..k : s[n] = t[n]
  PROVE  f[k] = g[k]
  <1> DEFINE A == {n \in 0..k : f[n] = g[n]}
  <1>1. 0 \in A
    <2>1. f[0] = g[0]
      BY SpellsAt
    <2> QED BY <2>1
  <1>2. ASSUME NEW n \in 0..k - 1, n \in A PROVE n + 1 \in A
    <2>1. n + 1 \in 1..Len(s) /\ n + 1 \in 1..Len(t) /\ (n + 1) - 1 = n /\ n + 1 \in 1..k
      OBVIOUS
    <2>2. /\ f[n + 1] = Glue(f[n], s[n + 1])
          /\ g[n + 1] = Glue(g[n], t[n + 1])
      BY <2>1, SpellsAt
    <2> QED BY <1>2, <2>1, <2>2
  <1> HIDE DEF A
  <1>3. \A n \in 0..k : n \in A
    <2>1. k \in Nat /\ \A n \in 0..k - 1 : n \in A => n + 1 \in A
      BY <1>2
    <2> QED BY <1>1, <2>1, InductUpto
  <1> QED BY <1>3 DEF A

\* Join is its last value.
LEMMA JoinIs ==
  ASSUME NEW s \in Seq(Piece), NEW f, Spells(f, s)
  PROVE  Join(s) = f[Len(s)]
  <1>1. PICK g : g = (CHOOSE h : Spells(h, s)) /\ Spells(g, s)
    OBVIOUS
  <1>2. Join(s) = g[Len(s)]
    BY <1>1 DEF Join, Spells, Glue, NoText
  <1>3. Len(s) \in 0..Len(s) /\ Len(s) <= Len(s)
    OBVIOUS
  <1> QED BY <1>1, <1>2, <1>3, SpellsAgree

LEMMA JoinEmpty == Join(<<>>) = NoText
  <1>1. <<>> \in Seq(Piece) /\ Len(<<>>) = 0
    OBVIOUS
  <1>2. PICK f : Spells(f, <<>>)
    BY <1>1, SpellsExists
  <1> QED BY <1>1, <1>2, JoinIs, SpellsAt

\* One piece more: a quote adds nothing.
LEMMA JoinAppend ==
  ASSUME NEW s \in Seq(Piece), NEW p \in Piece
  PROVE  Join(Append(s, p)) = Glue(Join(s), p)
  <1> DEFINE t == Append(s, p)
             k == Len(s) + 1
  <1>1. t \in Seq(Piece) /\ Len(t) = k /\ t[k] = p /\ k \in 1..k /\ k - 1 = Len(s)
    OBVIOUS
  <1>2. PICK f : Spells(f, s)
    BY SpellsExists
  <1>3. PICK g : Spells(g, t) /\ \A n \in 0..Len(s) : g[n] = f[n]
    BY <1>2, SpellsMore
  <1> HIDE DEF t, k
  <1>4. Join(s) = f[Len(s)] /\ Join(t) = g[k]
    BY <1>1, <1>2, <1>3, JoinIs
  <1>5. g[k] = Glue(g[k - 1], p)
    BY <1>1, <1>3, SpellsAt
  <1>6. g[k - 1] = f[Len(s)]
    BY <1>1, <1>3
  <1> QED BY <1>4, <1>5, <1>6 DEF t

\* A quote in front is left out.
LEMMA QuoteFirst == \A s \in Seq(Piece) : Join(<<Quote>> \o s) = Join(s)
  <1> DEFINE A == {s \in Seq(Piece) : Join(<<Quote>> \o s) = Join(s)}
  <1>0. Quote \in Piece /\ <<Quote>> \in Seq(Piece)
    BY PieceAssumption
  <1>1. <<>> \in A
    <2>1. <<Quote>> \o <<>> = Append(<<>>, Quote) /\ <<>> \in Seq(Piece)
      BY <1>0
    <2>2. Join(Append(<<>>, Quote)) = Join(<<>>)
      BY <1>0, <2>1, JoinAppend DEF Glue
    <2> QED BY <2>1, <2>2
  <1>2. ASSUME NEW s \in Seq(Piece), s \in A, NEW p \in Piece PROVE Append(s, p) \in A
    <2>1. <<Quote>> \o Append(s, p) = Append(<<Quote>> \o s, p) /\ <<Quote>> \o s \in Seq(Piece)
          /\ Append(s, p) \in Seq(Piece)
      BY <1>0
    <2>2. Join(Append(<<Quote>> \o s, p)) = Glue(Join(<<Quote>> \o s), p)
      BY <2>1, JoinAppend
    <2>3. Join(Append(s, p)) = Glue(Join(s), p)
      BY JoinAppend
    <2> QED BY <1>2, <2>1, <2>2, <2>3
  <1> HIDE DEF A
  <1>3. Seq(Piece) \subseteq A
    BY <1>1, <1>2, InductSeq
  <1> QED BY <1>3 DEF A

-----------------------------------------------------------------------------
(* The words that pieces make. *)

Inside(s, n) == n \in 1..Len(s) /\ s[n] \notin Blank
Beginning(s, n) == Max({i \in 1..n : ~Inside(s, i - 1)})
Grown(s, n, v) == IF Inside(s, n) /\ ~Inside(s, n + 1)
                  THEN Append(v, SubSeq(s, Beginning(s, n), n)) ELSE v

\* Runs is a recursive function; h is one for pieces s.
Splits(h, s) == h = [n \in 0..Len(s) |-> IF n = 0 THEN <<>> ELSE Grown(s, n, h[n - 1])]

\* Such a function at a place, and the one before it.
LEMMA SplitsAt ==
  ASSUME NEW s \in Seq(Piece), NEW h, Splits(h, s)
  PROVE  h[0] = <<>> /\ \A n \in 1..Len(s) : h[n] = Grown(s, n, h[n - 1])
  <1>1. \A n \in 0..Len(s) : h[n] = IF n = 0 THEN <<>> ELSE Grown(s, n, h[n - 1])
    BY DEF Splits
  <1>2. Len(s) \in Nat
    OBVIOUS
  <1> HIDE DEF Grown
  <1> QED BY <1>1, <1>2

\* The run that ends at a place begins after a blank, or at the front.
LEMMA BeginningIs ==
  ASSUME NEW s \in Seq(Piece), NEW n \in 1..Len(s)
  PROVE  /\ Beginning(s, n) \in 1..n
         /\ \A p \in 1..n : ~Inside(s, p - 1) /\ (\A i \in p..n - 1 : Inside(s, i)) => Beginning(s, n) = p
  <1> DEFINE S == {i \in 1..n : ~Inside(s, i - 1)}
  <1>1. n \in Nat /\ S \in SUBSET (1..n) /\ S \in SUBSET Nat
    OBVIOUS
  <1>2. 1 \in S
    BY DEF Inside
  <1>3. Max(S) \in S
    <2> HIDE DEF S
    <2> QED BY <1>1, <1>2, GreatestOf
  <1>4. ASSUME NEW p \in 1..n, ~Inside(s, p - 1), \A i \in p..n - 1 : Inside(s, i)
        PROVE  Max(S) = p
    <2>1. p \in S
      BY <1>4
    <2>2. ASSUME NEW i \in S PROVE i <= p
      <3> SUFFICES ASSUME i > p PROVE FALSE
        OBVIOUS
      <3>1. i - 1 \in p..n - 1
        OBVIOUS
      <3>2. ~Inside(s, i - 1)
        OBVIOUS
      <3> QED BY <1>4, <3>1, <3>2
    <2> HIDE DEF S
    <2> QED BY <1>1, <2>1, <2>2, MaxIs
  <1> QED BY <1>3, <1>4 DEF Beginning

\* The recursive definition in Runs defines a function.
LEMMA SplitsExists ==
  ASSUME NEW s \in Seq(Piece)
  PROVE  \E h : Splits(h, s) /\ \A n \in 0..Len(s) : h[n] \in Seq(Seq(Piece))
  <1> DEFINE k == Len(s)
             V == Seq(Seq(Piece))
             F == [n \in 1..k |-> [v \in V |-> Grown(s, n, v)]]
  <1>1. k \in Nat /\ <<>> \in V
    OBVIOUS
  <1>2. ASSUME NEW n \in 1..k, NEW v \in V PROVE Grown(s, n, v) \in V
    <2>1. Beginning(s, n) \in 1..n
      BY BeginningIs
    <2>2. SubSeq(s, Beginning(s, n), n) \in Seq(Piece)
      BY <2>1
    <2>3. Append(v, SubSeq(s, Beginning(s, n), n)) \in V
      BY <2>2
    <2> QED BY <2>3 DEF Grown
  <1>3. \A n \in 1..k : \A v \in V : F[n][v] = Grown(s, n, v)
    OBVIOUS
  <1> HIDE DEF F, V, k
  <1>4. PICK h \in [0..k -> V] : h[0] = <<>> /\ \A n \in 1..k : h[n] = F[n][h[n - 1]]
    <2>1. Keeps(F, k, V)
      BY <1>2, <1>3 DEF Keeps
    <2>2. PICK h : Follows(h, k, V, <<>>, F)
      BY <1>1, <2>1, Recursion
    <2> QED BY <2>2 DEF Follows
  <1>5. \A n \in 1..k : h[n] = Grown(s, n, h[n - 1])
    <2> SUFFICES ASSUME NEW n \in 1..k PROVE h[n] = Grown(s, n, h[n - 1])
      OBVIOUS
    <2>1. h[n - 1] \in V
      BY <1>1
    <2> QED BY <1>3, <1>4, <2>1
  <1>6. Splits(h, s)
    <2>1. h = [n \in 0..k |-> h[n]]
      OBVIOUS
    <2>2. \A n \in 0..k : h[n] = IF n = 0 THEN <<>> ELSE Grown(s, n, h[n - 1])
      BY <1>1, <1>4, <1>5
    <2> QED BY <2>1, <2>2, Zenon DEF Splits, k
  <1> QED BY <1>6 DEF k, V

\* As far as two sequences split alike, they are split alike.
LEMMA SplitsAgree ==
  ASSUME NEW s \in Seq(Piece), NEW f, Splits(f, s),
         NEW t \in Seq(Piece), NEW g, Splits(g, t),
         NEW k \in 0..Len(s), k <= Len(t),
         \A n \in 1..k : \A v : Grown(s, n, v) = Grown(t, n, v)
  PROVE  f[k] = g[k]
  <1> DEFINE A == {n \in 0..k : f[n] = g[n]}
  <1>1. 0 \in A
    <2>1. f[0] = g[0]
      BY SplitsAt
    <2> QED BY <2>1
  <1>2. ASSUME NEW n \in 0..k - 1, n \in A PROVE n + 1 \in A
    <2>1. n + 1 \in 1..Len(s) /\ n + 1 \in 1..Len(t) /\ (n + 1) - 1 = n /\ n + 1 \in 1..k
      OBVIOUS
    <2>2. /\ f[n + 1] = Grown(s, n + 1, f[n])
          /\ g[n + 1] = Grown(t, n + 1, g[n])
      BY <2>1, SplitsAt
    <2> QED BY <1>2, <2>1, <2>2
  <1> HIDE DEF A
  <1>3. \A n \in 0..k : n \in A
    <2>1. k \in Nat /\ \A n \in 0..k - 1 : n \in A => n + 1 \in A
      BY <1>2
    <2> QED BY <1>1, <2>1, InductUpto
  <1> QED BY <1>3 DEF A

\* Runs is its last value.
LEMMA RunsIs ==
  ASSUME NEW s \in Seq(Piece)
  PROVE  \E h : Splits(h, s) /\ Runs(s) = h[Len(s)] /\ Runs(s) \in Seq(Seq(Piece))
  <1>1. PICK f : Splits(f, s) /\ \A n \in 0..Len(s) : f[n] \in Seq(Seq(Piece))
    BY SplitsExists
  <1>2. PICK g : g = (CHOOSE h : Splits(h, s)) /\ Splits(g, s)
    BY <1>1
  <1>3. Runs(s) = g[Len(s)]
    BY <1>2 DEF Runs, Splits, Grown, Inside, Beginning
  <1>4. Len(s) \in 0..Len(s) /\ Len(s) <= Len(s)
    OBVIOUS
  <1>5. f[Len(s)] = g[Len(s)]
    BY <1>1, <1>2, <1>4, SplitsAgree
  <1> QED BY <1>1, <1>2, <1>3, <1>4, <1>5

\* Sequences that end in a blank, or that are empty: what comes next begins a word.
Cut(s) == s = <<>> \/ s[Len(s)] \in Blank
Blanks(s) == \A i \in 1..Len(s) : s[i] \in Blank
NoBlanks(s) == \A i \in 1..Len(s) : s[i] \notin Blank

\* Runs are sequences of pieces.
LEMMA RunsType ==
  ASSUME NEW s \in Seq(Piece)
  PROVE  Runs(s) \in Seq(Seq(Piece))
  BY RunsIs

LEMMA RunsEmpty == Runs(<<>>) = <<>>
  <1>1. <<>> \in Seq(Piece) /\ Len(<<>>) = 0
    OBVIOUS
  <1>2. PICK h : Splits(h, <<>>) /\ Runs(<<>>) = h[0]
    BY <1>1, RunsIs
  <1> QED BY <1>1, <1>2, SplitsAt

\* As far as the pieces are the same, and no word ends differently, they split alike.
LEMMA GrownAlike ==
  ASSUME NEW s \in Seq(Piece), NEW t \in Seq(Piece), NEW n \in 1..Len(s), n <= Len(t),
         \A i \in 1..n : s[i] = t[i],
         Inside(s, n) => (Inside(s, n + 1) <=> Inside(t, n + 1)),
         NEW v
  PROVE  Grown(s, n, v) = Grown(t, n, v)
  <1>1. n \in 1..Len(t)
    OBVIOUS
  <1>2. \A i \in 0..n : Inside(s, i) <=> Inside(t, i)
    BY <1>1 DEF Inside
  <1>3. Beginning(s, n) = Beginning(t, n)
    <2>1. \A i \in 1..n : i - 1 \in 0..n
      OBVIOUS
    <2>2. {i \in 1..n : ~Inside(s, i - 1)} = {i \in 1..n : ~Inside(t, i - 1)}
      BY <1>2, <2>1
    <2> QED BY <2>2 DEF Beginning
  <1>4. SubSeq(s, Beginning(s, n), n) = SubSeq(t, Beginning(s, n), n)
    <2>1. Beginning(s, n) \in 1..n
      BY BeginningIs
    <2> DEFINE b == Beginning(s, n)
    <2> HIDE DEF b
    <2>2. b \in 1..n
      BY <2>1 DEF b
    <2>3. /\ SubSeq(s, b, n) \in Seq(Piece) /\ SubSeq(t, b, n) \in Seq(Piece)
          /\ Len(SubSeq(s, b, n)) = n - b + 1 /\ Len(SubSeq(t, b, n)) = n - b + 1
          /\ \A i \in 1..n - b + 1 : SubSeq(s, b, n)[i] = s[b + i - 1] /\ SubSeq(t, b, n)[i] = t[b + i - 1]
      BY <2>2
    <2>4. \A i \in 1..n - b + 1 : b + i - 1 \in 1..n
      BY <2>2
    <2>5. SubSeq(s, b, n) = SubSeq(t, b, n)
      BY <2>3, <2>4, SeqEqual
    <2> QED BY <2>5 DEF b
  <1>5. Inside(s, n) <=> Inside(t, n)
    BY <1>2
  <1> QED BY <1>3, <1>4, <1>5 DEF Grown

\* A blank ends no word that the end would not.
LEMMA RunsThenBlank ==
  ASSUME NEW s \in Seq(Piece), NEW p \in Blank
  PROVE  Runs(Append(s, p)) = Runs(s)
  <1> DEFINE t == Append(s, p)
             k == Len(s)
  <1>0. p \in Piece
    BY PieceAssumption
  <1>1. /\ t \in Seq(Piece) /\ Len(t) = k + 1 /\ k \in Nat
        /\ t[k + 1] = p /\ \A i \in 1..k : t[i] = s[i]
    BY <1>0
  <1> HIDE DEF t, k
  <1>2. PICK f : Splits(f, s) /\ Runs(s) = f[k]
    BY RunsIs DEF k
  <1>3. PICK g : Splits(g, t) /\ Runs(t) = g[k + 1]
    BY <1>1, RunsIs
  <1>4. ~Inside(t, k + 1) /\ ~Inside(s, k + 1) /\ Len(s) = k
    BY <1>1 DEF Inside, k
  <1>5. f[k] = g[k]
    <2>1. ASSUME NEW n \in 1..k, NEW v PROVE Grown(s, n, v) = Grown(t, n, v)
      <3>1. n \in 1..Len(s) /\ n <= Len(t) /\ \A i \in 1..n : s[i] = t[i]
        BY <1>1, <1>4
      <3>2. Inside(s, n + 1) <=> Inside(t, n + 1)
        <4>1. CASE n = k
          BY <1>4, <4>1
        <4>2. CASE n # k
          <5>1. n + 1 \in 1..k
            BY <1>1, <4>2
          <5> QED BY <1>1, <1>4, <5>1 DEF Inside
        <4> QED BY <4>1, <4>2
      <3> QED BY <1>1, <3>1, <3>2, GrownAlike
    <2>2. k \in 0..Len(s) /\ k <= Len(t)
      BY <1>1, <1>4
    <2> QED BY <1>1, <1>2, <1>3, <2>1, <2>2, SplitsAgree
  <1>6. g[k + 1] = g[k]
    <2>1. k + 1 \in 1..Len(t) /\ (k + 1) - 1 = k
      BY <1>1
    <2>2. g[k + 1] = Grown(t, k + 1, g[k])
      BY <1>1, <1>3, <2>1, SplitsAt
    <2> QED BY <1>4, <2>2 DEF Grown
  <1> QED BY <1>2, <1>3, <1>5, <1>6 DEF t

\* Letters after a blank are one more word.
LEMMA RunsThenWord ==
  ASSUME NEW s \in Seq(Piece), Cut(s), NEW w \in Seq(Piece), w # <<>>, NoBlanks(w)
  PROVE  Runs(s \o w) = Append(Runs(s), w)
  <1> DEFINE t == s \o w
             k == Len(s)
             m == Len(w)
  <1>1. /\ t \in Seq(Piece) /\ Len(t) = k + m /\ k \in Nat /\ m \in Nat \ {0}
        /\ (\A i \in 1..k : t[i] = s[i]) /\ (\A i \in k + 1..k + m : t[i] = w[i - k])
    <2>1. /\ s \o w \in Seq(Piece) /\ Len(s \o w) = Len(s) + Len(w)
          /\ \A i \in 1..Len(s) + Len(w) : (s \o w)[i] = IF i <= Len(s) THEN s[i] ELSE w[i - Len(s)]
      BY ConcatProperties
    <2>2. Len(w) # 0
      OBVIOUS
    <2> QED BY <2>1, <2>2
  <1>2. SubSeq(t, k + 1, k + m) = w
    <2>1. SubSeq(t, k + 1, k + m) \in Seq(Piece) /\ Len(SubSeq(t, k + 1, k + m)) = m
          /\ \A i \in 1..m : SubSeq(t, k + 1, k + m)[i] = t[k + i]
      <3> HIDE DEF t, k, m
      <3> QED BY <1>1
    <2>2. \A i \in 1..m : t[k + i] = w[i]
      <3> SUFFICES ASSUME NEW i \in 1..m PROVE t[k + i] = w[i]
        OBVIOUS
      <3>1. k + i \in k + 1..k + m /\ (k + i) - k = i
        BY <1>1
      <3> HIDE DEF t, k, m
      <3> QED BY <1>1, <3>1
    <2> QED BY <2>1, <2>2, SeqEqual
  <1>3. /\ \A i \in k + 1..k + m : Inside(t, i)
        /\ ~Inside(t, k + m + 1) /\ ~Inside(t, k) /\ ~Inside(s, k)
        /\ k = Len(s)
    <2>1. \A i \in k + 1..k + m : i - k \in 1..m /\ i \in 1..k + m
      BY <1>1
    <2>2. \A i \in k + 1..k + m : t[i] \notin Blank
      BY <1>1, <2>1 DEF NoBlanks
    <2>3. k # 0 => s[k] \in Blank /\ t[k] \in Blank
      BY <1>1 DEF Cut
    <2> HIDE DEF t, k, m
    <2> QED BY <1>1, <2>1, <2>2, <2>3 DEF Inside, k
  <1> HIDE DEF t, k, m
  <1>4. PICK f : Splits(f, s) /\ Runs(s) = f[k]
    BY RunsIs DEF k
  <1>5. PICK g : Splits(g, t) /\ Runs(t) = g[k + m]
    BY <1>1, RunsIs
  <1>6. f[k] = g[k]
    <2>1. ASSUME NEW n \in 1..k, NEW v PROVE Grown(s, n, v) = Grown(t, n, v)
      <3>1. n \in 1..Len(s) /\ n <= Len(t) /\ \A i \in 1..n : s[i] = t[i]
        BY <1>1, <1>3
      <3>2. Inside(s, n) => (Inside(s, n + 1) <=> Inside(t, n + 1))
        <4>1. CASE n = k
          BY <1>3, <4>1
        <4>2. CASE n # k
          <5>1. n + 1 \in 1..k
            BY <1>1, <4>2
          <5> QED BY <1>1, <1>3, <5>1 DEF Inside
        <4> QED BY <4>1, <4>2
      <3> QED BY <1>1, <3>1, <3>2, GrownAlike
    <2>2. k \in 0..Len(s) /\ k <= Len(t)
      BY <1>1, <1>3
    <2> QED BY <1>1, <1>4, <1>5, <2>1, <2>2, SplitsAgree
  <1>7. \A i \in 0..m - 1 : g[k + i] = g[k]
    <2> DEFINE A == {i \in 0..m - 1 : g[k + i] = g[k]}
    <2>1. 0 \in A
      BY <1>1
    <2>2. ASSUME NEW i \in 0..(m - 1) - 1, i \in A PROVE i + 1 \in A
      <3>1. /\ k + (i + 1) \in 1..Len(t) /\ (k + (i + 1)) - 1 = k + i
            /\ k + (i + 1) + 1 \in k + 1..k + m /\ i + 1 \in 0..m - 1
        BY <1>1
      <3>2. g[k + (i + 1)] = Grown(t, k + (i + 1), g[k + i])
        BY <1>1, <1>5, <3>1, SplitsAt
      <3>3. Grown(t, k + (i + 1), g[k + i]) = g[k + i]
        BY <1>3, <3>1 DEF Grown
      <3> QED BY <2>2, <3>1, <3>2, <3>3
    <2> HIDE DEF A
    <2>3. \A i \in 0..m - 1 : i \in A
      <3>1. m - 1 \in Nat /\ \A i \in 0..(m - 1) - 1 : i \in A => i + 1 \in A
        BY <1>1, <2>2
      <3> QED BY <2>1, <3>1, InductUpto
    <2> QED BY <2>3 DEF A
  <1>8. g[k + m] = Append(g[k], w)
    <2>1. k + m \in 1..Len(t) /\ (k + m) - 1 = k + (m - 1) /\ m - 1 \in 0..m - 1
          /\ k + m \in k + 1..k + m
      BY <1>1
    <2>2. g[k + m] = Grown(t, k + m, g[k])
      <3>1. g[k + m] = Grown(t, k + m, g[(k + m) - 1])
        BY <1>1, <1>5, <2>1, SplitsAt
      <3>2. g[k + (m - 1)] = g[k]
        BY <1>7, <2>1
      <3> QED BY <2>1, <3>1, <3>2
    <2>3. Beginning(t, k + m) = k + 1
      <3>1. k + 1 \in 1..k + m /\ (k + 1) - 1 = k /\ \A i \in k + 1..(k + m) - 1 : i \in k + 1..k + m
        BY <1>1
      <3>2. ~Inside(t, (k + 1) - 1) /\ \A i \in k + 1..(k + m) - 1 : Inside(t, i)
        BY <1>3, <3>1
      <3> QED BY <1>1, <2>1, <3>1, <3>2, BeginningIs
    <2> QED BY <1>2, <1>3, <2>1, <2>2, <2>3 DEF Grown
  <1> QED BY <1>4, <1>5, <1>6, <1>8 DEF t

\* The first word begins after the first blanks, and has no blank.
LEMMA FirstRun ==
  ASSUME NEW s \in Seq(Piece), Runs(s) # <<>>
  PROVE  \E p \in 1..Len(s) : \E q \in p..Len(s) :
           /\ \A i \in 1..p - 1 : s[i] \in Blank
           /\ \A i \in p..q : s[i] \notin Blank
           /\ Runs(s)[1] = SubSeq(s, p, q)
  <1> DEFINE k == Len(s)
             First(r, n) == \E p \in 1..n : \E q \in p..n :
                              /\ \A i \in 1..p - 1 : ~Inside(s, i)
                              /\ \A i \in p..q : Inside(s, i)
                              /\ r[1] = SubSeq(s, p, q)
             None(n) == \E p \in 1..n + 1 :
                          /\ \A i \in 1..p - 1 : ~Inside(s, i)
                          /\ \A i \in p..n : Inside(s, i)
                          /\ p <= n => Inside(s, n + 1)
  <1>1. PICK h : Splits(h, s) /\ \A n \in 0..k : h[n] \in Seq(Seq(Piece))
    BY SplitsExists
  <1>2. Runs(s) = h[k] /\ k \in Nat
    <2>1. PICK g : Splits(g, s) /\ Runs(s) = g[k]
      BY RunsIs
    <2>2. k \in 0..Len(s) /\ k <= Len(s)
      OBVIOUS
    <2> QED BY <1>1, <2>1, <2>2, SplitsAgree
  <1> DEFINE A == {n \in 0..k : IF h[n] = <<>> THEN None(n) ELSE First(h[n], n)}
  <1>3. 0 \in A
    <2>1. h[0] = <<>>
      BY <1>1, SplitsAt
    <2>2. None(0)
      OBVIOUS
    <2> QED BY <1>2, <2>1, <2>2
  <1>4. ASSUME NEW n \in 0..k - 1, n \in A PROVE n + 1 \in A
    <2>1. n + 1 \in 1..Len(s) /\ n + 1 \in 0..k /\ n \in 0..k /\ (n + 1) - 1 = n /\ n \in Nat
      OBVIOUS
    <2>2. h[n + 1] = Grown(s, n + 1, h[n])
      BY <1>1, <2>1, SplitsAt
    <2> HIDE DEF k, First, None
    <2>3. CASE h[n] # <<>>
      <3>1. First(h[n], n)
        BY <1>4, <2>3
      <3>2. First(h[n], n + 1)
        <4>1. \A p \in 1..n : p \in 1..n + 1 /\ \A q \in p..n : q \in p..n + 1
          BY <2>1
        <4> QED BY <3>1, <4>1 DEF First
      <3>3. h[n + 1] # <<>> /\ h[n + 1][1] = h[n][1]
        <4> DEFINE x == SubSeq(s, Beginning(s, n + 1), n + 1)
        <4>1. x \in Seq(Piece)
          <5>1. Beginning(s, n + 1) \in 1..n + 1
            BY <2>1, BeginningIs
          <5> QED BY <2>1, <5>1
        <4>2. h[n] \in Seq(Seq(Piece)) /\ h[n] # <<>>
          BY <1>1, <2>1, <2>3
        <4>3. h[n + 1] = h[n] \/ h[n + 1] = Append(h[n], x)
          BY <2>2 DEF Grown
        <4> HIDE DEF x
        <4>4. Append(h[n], x) # <<>> /\ Append(h[n], x)[1] = h[n][1]
          <5>1. \A r \in Seq(Seq(Piece)) : r # <<>> =>
                  Append(r, x) # <<>> /\ Append(r, x)[1] = r[1]
            BY <4>1
          <5> QED BY <4>2, <5>1
        <4> QED BY <4>2, <4>3, <4>4
      <3>4. First(h[n + 1], n + 1)
        BY <3>2, <3>3 DEF First
      <3> QED BY <2>1, <3>3, <3>4
    <2>4. CASE h[n] = <<>>
      <3>1. PICK p \in 1..n + 1 : /\ \A i \in 1..p - 1 : ~Inside(s, i)
                                  /\ \A i \in p..n : Inside(s, i)
                                  /\ p <= n => Inside(s, n + 1)
        BY <1>4, <2>4 DEF None
      <3>2. CASE Inside(s, n + 1) /\ ~Inside(s, n + 2)
        <4>1. \A i \in p..n + 1 : Inside(s, i)
          BY <2>1, <3>1, <3>2
        <4>2. ~Inside(s, p - 1)
          <5>1. p - 1 = 0 \/ p - 1 \in 1..p - 1
            OBVIOUS
          <5> QED BY <3>1, <5>1 DEF Inside
        <4>3. Beginning(s, n + 1) = p
          BY <2>1, <3>1, <4>1, <4>2, BeginningIs
        <4>4. (n + 1) + 1 = n + 2
          BY <2>1
        <4>5. h[n + 1] = Append(<<>>, SubSeq(s, p, n + 1))
          BY <2>2, <2>4, <3>2, <4>3, <4>4 DEF Grown
        <4>6. h[n + 1] # <<>> /\ h[n + 1][1] = SubSeq(s, p, n + 1)
          <5>1. SubSeq(s, p, n + 1) \in Seq(Piece)
            BY <2>1
          <5> DEFINE x == SubSeq(s, p, n + 1)
          <5> HIDE DEF x
          <5>2. x \in Seq(Piece) /\ h[n + 1] = Append(<<>>, x)
            BY <4>5, <5>1 DEF x
          <5>3. h[n + 1] # <<>> /\ h[n + 1][1] = x
            BY <5>2
          <5> QED BY <5>3 DEF x
        <4>7. First(h[n + 1], n + 1)
          <5>1. n + 1 \in p..n + 1
            BY <2>1
          <5> QED BY <3>1, <4>1, <4>6, <5>1 DEF First
        <4> QED BY <2>1, <4>6, <4>7
      <3>3. CASE Inside(s, n + 1) /\ Inside(s, n + 2)
        <4>1. (n + 1) + 1 = n + 2
          BY <2>1
        <4>2. h[n + 1] = <<>>
          BY <2>2, <2>4, <3>3, <4>1 DEF Grown
        <4>3. None(n + 1)
          <5>1. p \in 1..(n + 1) + 1
            BY <2>1
          <5>2. \A i \in p..n + 1 : Inside(s, i)
            BY <2>1, <3>1, <3>3
          <5> QED BY <3>1, <3>3, <4>1, <5>1, <5>2 DEF None
        <4> QED BY <2>1, <4>2, <4>3
      <3>4. CASE ~Inside(s, n + 1)
        <4>1. p = n + 1
          BY <2>1, <3>1, <3>4
        <4>2. h[n + 1] = <<>>
          BY <2>2, <2>4, <3>4 DEF Grown
        <4>3. None(n + 1)
          <5>1. (n + 1) + 1 \in 1..(n + 1) + 1 /\ ~((n + 1) + 1 <= n + 1)
                /\ \A i \in (n + 1) + 1..n + 1 : FALSE
            BY <2>1
          <5>2. \A i \in 1..((n + 1) + 1) - 1 : ~Inside(s, i)
            BY <2>1, <3>1, <3>4, <4>1
          <5> QED BY <5>1, <5>2 DEF None
        <4> QED BY <2>1, <4>2, <4>3
      <3> QED BY <3>2, <3>3, <3>4
    <2> QED BY <2>3, <2>4
  <1>5. k \in A
    <2> HIDE DEF A, k
    <2>1. \A n \in 0..k : n \in A
      <3>1. \A n \in 0..k - 1 : n \in A => n + 1 \in A
        BY <1>4
      <3> QED BY <1>2, <1>3, <3>1, InductUpto
    <2> QED BY <1>2, <2>1
  <1>6. First(Runs(s), k)
    <2> HIDE DEF First, None
    <2> QED BY <1>2, <1>5
  <1>7. PICK p \in 1..k : \E q \in p..k : /\ \A i \in 1..p - 1 : ~Inside(s, i)
                                          /\ \A i \in p..q : Inside(s, i)
                                          /\ Runs(s)[1] = SubSeq(s, p, q)
    BY <1>6
  <1>8. PICK q \in p..k : /\ \A i \in 1..p - 1 : ~Inside(s, i)
                          /\ \A i \in p..q : Inside(s, i)
                          /\ Runs(s)[1] = SubSeq(s, p, q)
    BY <1>7
  <1>9. /\ \A i \in 1..p - 1 : s[i] \in Blank
        /\ \A i \in p..q : s[i] \notin Blank
    BY <1>8 DEF Inside
  <1> QED BY <1>8, <1>9

\* The pieces that PieceAssumption names, one by one.
LEMMA PieceTypes ==
  /\ "SET_" \in Piece /\ "GET_" \in Piece /\ "FIELDS" \in Piece /\ "GET" \in Piece
  /\ "ALL" \in Piece /\ " " \in Piece /\ "=" \in Piece /\ "\n" \in Piece /\ Quote \in Piece
  BY PieceAssumption DEF Blank

-----------------------------------------------------------------------------
(* What clients mean, and the words that they write for it *)

\* A client's message, its arguments, and the words of which it needs a letter.
LEMMA MessageType ==
  ASSUME NEW m \in Messages
  PROVE  /\ m.type \in P!Types /\ m.key \in Seq(Letter) /\ m.key # <<>>
         /\ m.args \in Seq(Argument) /\ Len(m.args) \in Nat
         /\ \A i \in 1..Len(m.args) :
              /\ m.args[i] \in Argument
              /\ m.type = "SET_FIELDS" \/ m.args[i].field # <<>>
  <1>1. m \in Message
    BY MessagesAssumption
  <1>2. m.type \in P!Types /\ m.key \in Seq(Letter) /\ m.args \in Seq(Argument)
    BY <1>1 DEF Message
  <1>3. Len(m.args) \in Nat /\ \A i \in 1..Len(m.args) : m.args[i] \in Argument
    BY <1>2, ElementOfSeq
  <1> QED BY <1>2, <1>3, MessagesAssumption

\* A word: pieces, at least one, and no blank.
IsWord(w) == w \in Seq(Piece) /\ w # <<>> /\ NoBlanks(w)

LEMMA LettersAre ==
  ASSUME NEW s \in Seq(Letter)
  PROVE  s \in Seq(Piece) /\ NoBlanks(s) /\ \A i \in 1..Len(s) : s[i] # "=" /\ s[i] # Quote
  <1>1. \A i \in 1..Len(s) : s[i] \in Letter
    BY ElementOfSeq
  <1>2. \A x \in Letter : x \in Piece /\ x \notin Blank /\ x # "=" /\ x # Quote
    BY DEF Letter
  <1>3. \A T : (\A i \in 1..Len(s) : s[i] \in T) => s \in Seq(T)
    OBVIOUS
  <1>4. s \in Seq(Piece)
    BY <1>1, <1>2, <1>3
  <1> QED BY <1>1, <1>2, <1>4 DEF NoBlanks

\* No blank comes in where two sequences meet.
LEMMA NoBlanksConcat ==
  ASSUME NEW s \in Seq(Piece), NEW t \in Seq(Piece), NoBlanks(s), NoBlanks(t)
  PROVE  s \o t \in Seq(Piece) /\ NoBlanks(s \o t)
  <1>1. /\ s \o t \in Seq(Piece) /\ Len(s \o t) = Len(s) + Len(t)
        /\ \A i \in 1..Len(s) + Len(t) : (s \o t)[i] = IF i <= Len(s) THEN s[i] ELSE t[i - Len(s)]
    BY ConcatProperties
  <1>2. ASSUME NEW i \in 1..Len(s) + Len(t) PROVE (s \o t)[i] \notin Blank
    <2>1. CASE i <= Len(s)
      BY <1>1, <2>1 DEF NoBlanks
    <2>2. CASE ~(i <= Len(s))
      <3>1. i - Len(s) \in 1..Len(t)
        BY <2>2
      <3> QED BY <1>1, <2>2, <3>1 DEF NoBlanks
    <2> QED BY <2>1, <2>2
  <1> QED BY <1>1, <1>2 DEF NoBlanks

\* A sequence of one piece.
LEMMA SinglePiece ==
  ASSUME NEW p \in Piece
  PROVE  /\ <<p>> \in Seq(Piece) /\ Len(<<p>>) = 1 /\ <<p>>[1] = p
         /\ p \notin Blank => NoBlanks(<<p>>)
  BY DEF NoBlanks

\* A quote or none.
Quotes(a) == IF a.quoted THEN <<Quote>> ELSE <<>>

LEMMA QuotesType ==
  ASSUME NEW a
  PROVE  Quotes(a) \in Seq(Piece) /\ NoBlanks(Quotes(a))
  <1>1. Quote \in Piece /\ Quote \notin Blank
    BY PieceTypes DEF Quote, Blank
  <1>2. <<>> \in Seq(Piece) /\ NoBlanks(<<>>)
    BY DEF NoBlanks
  <1> QED BY <1>1, <1>2, SinglePiece DEF Quotes

LEMMA EqualsType == <<"=">> \in Seq(Piece) /\ NoBlanks(<<"=">>) /\ "=" \notin Blank /\ "=" # Quote
  <1>1. "=" \in Piece /\ "=" \notin Blank /\ "=" # Quote
    BY PieceTypes DEF Blank, Quote
  <1> QED BY <1>1, SinglePiece

LEMMA PiecesType ==
  ASSUME NEW t \in P!Types
  PROVE  /\ Pieces(t) \in Seq(Piece) /\ Len(Pieces(t)) = 2 /\ NoBlanks(Pieces(t))
         /\ \A i \in 1..2 : Pieces(t)[i] # "=" /\ Pieces(t)[i] # Quote
  <1>1. ASSUME NEW p \in Piece, NEW q \in Piece, p \notin Blank, q \notin Blank,
               p # "=", p # Quote, q # "=", q # Quote
        PROVE  /\ <<p, q>> \in Seq(Piece) /\ Len(<<p, q>>) = 2 /\ NoBlanks(<<p, q>>)
               /\ \A i \in 1..2 : <<p, q>>[i] # "=" /\ <<p, q>>[i] # Quote
    BY <1>1 DEF NoBlanks
  <1>2. \A p \in {"SET_", "GET_", "FIELDS", "GET", "ALL"} :
          p \in Piece /\ p \notin Blank /\ p # "=" /\ p # Quote
    BY PieceTypes DEF Blank, Quote
  <1>3. CASE t = "SET_FIELDS"
    <2>1. Pieces(t) = <<"SET_", "FIELDS">>
      BY <1>3 DEF Pieces
    <2> QED BY <1>1, <1>2, <2>1
  <1>4. CASE t = "GET_FIELDS"
    <2>1. Pieces(t) = <<"GET_", "FIELDS">>
      BY <1>4 DEF Pieces
    <2> QED BY <1>1, <1>2, <2>1
  <1>5. CASE t = "GETALL"
    <2>1. Pieces(t) = <<"GET", "ALL">>
      BY <1>5 DEF Pieces
    <2> QED BY <1>1, <1>2, <2>1
  <1> QED BY <1>3, <1>4, <1>5 DEF P!Types

\* The word of an argument is a word.
LEMMA WrittenWordIs ==
  ASSUME NEW m, NEW a \in Argument, m.type = "SET_FIELDS" \/ a.field # <<>>
  PROVE  /\ WrittenWord(m, a) = IF m.type = "SET_FIELDS"
                                THEN a.field \o <<"=">> \o Quotes(a) \o a.value \o Quotes(a) ELSE a.field
         /\ IsWord(WrittenWord(m, a))
  <1>1. WrittenWord(m, a) = IF m.type = "SET_FIELDS"
                            THEN a.field \o <<"=">> \o Quotes(a) \o a.value \o Quotes(a) ELSE a.field
    BY DEF WrittenWord, Quotes
  <1>2. a.field \in Seq(Letter) /\ a.value \in Seq(Letter)
    BY DEF Argument
  <1> DEFINE f == a.field
             v == a.value
             q == Quotes(a)
  <1>3. /\ f \in Seq(Piece) /\ NoBlanks(f) /\ v \in Seq(Piece) /\ NoBlanks(v)
        /\ q \in Seq(Piece) /\ NoBlanks(q)
    BY <1>2, LettersAre, QuotesType
  <1> HIDE DEF q, v, f
  <1>4. f \o <<"=">> \in Seq(Piece) /\ NoBlanks(f \o <<"=">>)
    BY <1>3, EqualsType, NoBlanksConcat
  <1>5. f \o <<"=">> \o q \in Seq(Piece) /\ NoBlanks(f \o <<"=">> \o q)
    BY <1>3, <1>4, NoBlanksConcat
  <1>6. f \o <<"=">> \o q \o v \in Seq(Piece) /\ NoBlanks(f \o <<"=">> \o q \o v)
    BY <1>3, <1>5, NoBlanksConcat
  <1>7. f \o <<"=">> \o q \o v \o q \in Seq(Piece) /\ NoBlanks(f \o <<"=">> \o q \o v \o q)
    BY <1>3, <1>6, NoBlanksConcat
  <1>8. f \o <<"=">> \o q \o v \o q # <<>>
    <2>1. \A r, s \in Seq(Piece) : r # <<>> => r \o s # <<>>
      <3> SUFFICES ASSUME NEW r \in Seq(Piece), NEW s \in Seq(Piece), r # <<>> PROVE r \o s # <<>>
        OBVIOUS
      <3>1. Len(r \o s) = Len(r) + Len(s) /\ Len(r) # 0
        BY ConcatProperties
      <3>2. Len(r \o s) # 0
        BY <3>1
      <3> QED BY <3>2
    <2>2. f \o <<"=">> # <<>>
      <3>1. Len(f \o <<"=">>) = Len(f) + 1
        BY <1>3, EqualsType, ConcatProperties
      <3>2. Len(f \o <<"=">>) # 0
        BY <1>3, <3>1
      <3> QED BY <3>2
    <2>3. f \o <<"=">> \o q # <<>>
      BY <1>3, <1>4, <2>1, <2>2
    <2>4. f \o <<"=">> \o q \o v # <<>>
      BY <1>3, <1>5, <2>1, <2>3
    <2> QED BY <1>3, <1>6, <2>1, <2>4
  <1> QED BY <1>1, <1>3, <1>7, <1>8 DEF IsWord, f, v, q

\* The words of a message: the command, the key, and one for each argument.
LEMMA WrittenIs ==
  ASSUME NEW m \in Messages
  PROVE  /\ Written(m) \in Seq(Seq(Piece)) /\ Len(Written(m)) = Len(m.args) + 2
         /\ Written(m)[1] = Pieces(m.type) /\ Written(m)[2] = m.key
         /\ \A i \in 1..Len(m.args) : Written(m)[i + 2] = WrittenWord(m, m.args[i])
         /\ \A i \in 1..Len(m.args) + 2 : IsWord(Written(m)[i])
  <1> DEFINE n == Len(m.args)
             W == [i \in 1..n |-> WrittenWord(m, m.args[i])]
             first == <<Pieces(m.type), m.key>>
  <1>1. n \in Nat /\ \A i \in 1..n : IsWord(WrittenWord(m, m.args[i]))
    BY MessageType, WrittenWordIs
  <1>2. IsWord(Pieces(m.type)) /\ IsWord(m.key)
    <2>1. Pieces(m.type) \in Seq(Piece) /\ Len(Pieces(m.type)) = 2 /\ NoBlanks(Pieces(m.type))
      BY MessageType, PiecesType
    <2>2. Pieces(m.type) # <<>>
      <3>1. \A s \in Seq(Piece) : Len(s) = 2 => s # <<>>
        OBVIOUS
      <3> QED BY <2>1, <3>1
    <2>3. m.key \in Seq(Piece) /\ NoBlanks(m.key) /\ m.key # <<>>
      BY MessageType, LettersAre
    <2> QED BY <2>1, <2>2, <2>3 DEF IsWord
  <1>3. /\ first \in Seq(Seq(Piece)) /\ Len(first) = 2
        /\ first[1] = Pieces(m.type) /\ first[2] = m.key
    BY <1>2 DEF IsWord
  <1>4. W \in Seq(Seq(Piece)) /\ Len(W) = n /\ \A i \in 1..n : W[i] = WrittenWord(m, m.args[i])
    <2>1. \A i \in 1..n : W[i] = WrittenWord(m, m.args[i])
      OBVIOUS
    <2>2. W = [i \in 1..n |-> W[i]]
      OBVIOUS
    <2> HIDE DEF W
    <2>3. \A i \in 1..n : W[i] \in Seq(Piece)
      BY <1>1, <2>1 DEF IsWord
    <2>4. \A k \in Nat : \A f : f = [i \in 1..k |-> f[i]] /\ (\A i \in 1..k : f[i] \in Seq(Piece))
                             => f \in Seq(Seq(Piece)) /\ Len(f) = k
      OBVIOUS
    <2> QED BY <1>1, <2>1, <2>2, <2>3, <2>4
  <1>5. Written(m) = first \o W
    BY DEF Written
  <1> HIDE DEF first, W, n
  <1>6. /\ first \o W \in Seq(Seq(Piece)) /\ Len(first \o W) = 2 + n
        /\ \A i \in 1..2 + n : (first \o W)[i] = IF i <= 2 THEN first[i] ELSE W[i - 2]
    <2>1. /\ first \o W \in Seq(Seq(Piece)) /\ Len(first \o W) = Len(first) + Len(W)
          /\ \A i \in 1..Len(first) + Len(W) :
               (first \o W)[i] = IF i <= Len(first) THEN first[i] ELSE W[i - Len(first)]
      BY <1>3, <1>4, ConcatProperties
    <2> QED BY <1>3, <1>4, <2>1, Zenon
  <1>7. /\ Written(m)[1] = Pieces(m.type) /\ Written(m)[2] = m.key
        /\ \A i \in 1..n : Written(m)[i + 2] = WrittenWord(m, m.args[i])
    BY <1>1, <1>3, <1>4, <1>5, <1>6
  <1>8. ASSUME NEW i \in 1..n + 2 PROVE IsWord(Written(m)[i])
    <2>1. CASE i = 1
      BY <1>2, <1>7, <2>1
    <2>2. CASE i = 2
      BY <1>2, <1>7, <2>2
    <2>3. CASE i > 2
      <3>1. i - 2 \in 1..n /\ (i - 2) + 2 = i
        BY <1>1, <2>3
      <3>2. Written(m)[i] = WrittenWord(m, m.args[i - 2])
        BY <1>7, <3>1
      <3> QED BY <1>1, <3>1, <3>2 DEF n
    <2> QED BY <1>1, <2>1, <2>2, <2>3
  <1>9. Written(m) \in Seq(Seq(Piece)) /\ Len(Written(m)) = n + 2
    BY <1>1, <1>5, <1>6
  <1> QED BY <1>7, <1>8, <1>9 DEF n

-----------------------------------------------------------------------------
(* The text of a message *)

\* The words of m, each with the blank after it, and the first i of them in one.
Chunks(m) == [i \in 1..Len(Written(m)) |->
                Append(Written(m)[i], IF i = Len(Written(m)) THEN "\n" ELSE " ")]
Fore(m, i) == FlattenSeq(Upto(Chunks(m), i))

\* A chunk is a word and a blank.
LEMMA ChunksAre ==
  ASSUME NEW m \in Messages
  PROVE  /\ Len(Written(m)) \in Nat \ {0}
         /\ Lists(Chunks(m), Len(Written(m)), Piece)
         /\ \A i \in 1..Len(Written(m)) :
              /\ IsWord(Written(m)[i])
              /\ \E b \in Blank : /\ Chunks(m)[i] = Append(Written(m)[i], b)
                                  /\ i = Len(Written(m)) => b = "\n"
                                  /\ i # Len(Written(m)) => b = " "
         /\ Text(m) = FlattenSeq(Chunks(m))
  <1> DEFINE n == Len(Written(m))
             c == Chunks(m)
  <1>1. n \in Nat \ {0} /\ \A i \in 1..n : IsWord(Written(m)[i])
    <2>1. n = Len(m.args) + 2 /\ \A i \in 1..Len(m.args) + 2 : IsWord(Written(m)[i])
      BY WrittenIs
    <2>2. Len(m.args) \in Nat
      BY MessageType
    <2> HIDE DEF n
    <2> QED BY <2>1, <2>2
  <1>2. " " \in Blank /\ "\n" \in Blank /\ Blank \subseteq Piece
    BY PieceAssumption DEF Blank
  <1>3. ASSUME NEW i \in 1..n
        PROVE  \E b \in Blank : /\ c[i] = Append(Written(m)[i], b)
                                /\ i = n => b = "\n"
                                /\ i # n => b = " "
    <2>1. c[i] = Append(Written(m)[i], IF i = n THEN "\n" ELSE " ")
      BY DEF Chunks
    <2>2. CASE i = n
      BY <1>2, <2>1, <2>2
    <2>3. CASE i # n
      BY <1>2, <2>1, <2>3
    <2> QED BY <2>2, <2>3
  <1>4. c = [i \in 1..n |-> c[i]]
    BY DEF Chunks
  <1>5. \A i \in 1..n : c[i] \in Seq(Piece)
    <2> SUFFICES ASSUME NEW i \in 1..n PROVE c[i] \in Seq(Piece)
      OBVIOUS
    <2>1. PICK b \in Blank : c[i] = Append(Written(m)[i], b)
      BY <1>3
    <2>2. b \in Piece /\ Written(m)[i] \in Seq(Piece)
      BY <1>1, <1>2 DEF IsWord
    <2> HIDE DEF c, n
    <2> QED BY <2>1, <2>2
  <1>6. Text(m) = FlattenSeq(c)
    BY DEF Text, Chunks
  <1> HIDE DEF c, n
  <1>7. Lists(c, n, Piece)
    BY <1>4, <1>5 DEF Lists
  <1> QED BY <1>1, <1>3, <1>6, <1>7 DEF c, n

\* The front of a text grows by a chunk.
LEMMA FrontIs ==
  ASSUME NEW m \in Messages
  PROVE  /\ Fore(m, 0) = <<>>
         /\ Text(m) = Fore(m, Len(Written(m)))
         /\ \A i \in 0..Len(Written(m)) : Fore(m, i) \in Seq(Piece)
         /\ \A i \in 1..Len(Written(m)) : Fore(m, i) = Fore(m, i - 1) \o Chunks(m)[i]
  <1>1. JoinedUpto(Chunks(m), Len(Written(m)), Piece) /\ Text(m) = FlattenSeq(Chunks(m))
    BY ChunksAre, FlattenUpto
  <1> QED BY <1>1 DEF JoinedUpto, Fore

LEMMA TextType ==
  ASSUME NEW m \in Messages
  PROVE  /\ Text(m) \in Seq(Piece)
         /\ Len(Text(m)) \in Lengths /\ Len(Text(m)) \in Nat \ {0}
  <1>0. Len(Written(m)) \in Nat
    BY ChunksAre
  <1>1. Len(Written(m)) \in 0..Len(Written(m))
    BY <1>0
  <1>2. Text(m) \in Seq(Piece)
    BY <1>1, FrontIs
  <1> QED BY <1>2, MessagesAssumption, LengthsAssumption

\* Text(m) ends with a newline.
LEMMA TextEnds ==
  ASSUME NEW m \in Messages
  PROVE  Text(m)[Len(Text(m))] = "\n"
  <1> DEFINE n == Len(Written(m))
             f == Fore(m, n - 1)
             w == Written(m)[n]
  <1>0. n \in Nat \ {0}
    BY ChunksAre
  <1>1. n \in 1..n /\ n - 1 \in 0..n /\ n \in Nat
    BY <1>0
  <1>2. Chunks(m)[n] = Append(w, "\n") /\ w \in Seq(Piece) /\ "\n" \in Piece
    BY <1>1, ChunksAre, PieceTypes DEF IsWord
  <1>3. Text(m) = f \o Append(w, "\n") /\ f \in Seq(Piece)
    BY <1>1, <1>2, FrontIs
  <1> HIDE DEF f, w, n
  <1>4. Append(w, "\n") \in Seq(Piece) /\ Len(Append(w, "\n")) = Len(w) + 1 /\ Append(w, "\n")[Len(w) + 1] = "\n"
    BY <1>2
  <1>5. /\ Len(f \o Append(w, "\n")) = Len(f) + (Len(w) + 1)
        /\ (f \o Append(w, "\n"))[Len(f) + (Len(w) + 1)] = "\n"
    BY <1>2, <1>3, <1>4, ConcatProperties
  <1> QED BY <1>3, <1>5

\* Blanks have no runs.
LEMMA RunsOfBlanks ==
  ASSUME NEW s \in Seq(Piece), Blanks(s)
  PROVE  Runs(s) = <<>> /\ Cut(s)
  <1> DEFINE A == {n \in 0..Len(s) : Runs(Upto(s, n)) = <<>>}
  <1>1. 0 \in A
    <2>1. Upto(s, 0) = <<>>
      BY DEF Upto
    <2> QED BY <2>1, RunsEmpty
  <1>2. ASSUME NEW n \in 0..Len(s) - 1, n \in A PROVE n + 1 \in A
    <2>1. n \in 0..Len(s) /\ n + 1 \in 0..Len(s) /\ n + 1 \in 1..Len(s)
      OBVIOUS
    <2>2. Upto(s, n) \in Seq(Piece)
      BY <2>1, UptoType
    <2>3. Upto(s, n + 1) = Append(Upto(s, n), s[n + 1])
      BY UptoAppend
    <2>4. s[n + 1] \in Blank
      BY <2>1 DEF Blanks
    <2>5. Runs(Upto(s, n + 1)) = Runs(Upto(s, n))
      BY <2>2, <2>3, <2>4, RunsThenBlank
    <2> QED BY <1>2, <2>1, <2>5
  <1>3. Len(s) \in A
    <2>1. Len(s) \in Nat
      OBVIOUS
    <2> HIDE DEF A
    <2>2. \A n \in 0..Len(s) : n \in A
      BY <1>1, <1>2, <2>1, InductUpto
    <2> QED BY <2>1, <2>2
  <1>4. Upto(s, Len(s)) = s
    BY LenProperties DEF Upto
  <1>5. Cut(s)
    <2>1. Len(s) = 0 \/ Len(s) \in 1..Len(s)
      OBVIOUS
    <2>2. Len(s) = 0 => s = <<>>
      OBVIOUS
    <2> QED BY <2>1, <2>2 DEF Cut, Blanks
  <1> QED BY <1>3, <1>4, <1>5

\* Blanks and the first words of m, up to the blank after them, are those words.
LEMMA FrontRuns ==
  ASSUME NEW m \in Messages, NEW b \in Seq(Piece), Blanks(b), NEW i \in 0..Len(Written(m))
  PROVE  Runs(b \o Fore(m, i)) = Upto(Written(m), i) /\ Cut(b \o Fore(m, i))
  <1> DEFINE n == Len(Written(m))
             W == Written(m)
             A == {k \in 0..n : Runs(b \o Fore(m, k)) = Upto(W, k) /\ Cut(b \o Fore(m, k))}
  <1>0. n \in Nat /\ W \in Seq(Seq(Piece))
    BY ChunksAre, WrittenIs
  <1>1. 0 \in A
    <2>1. b \o Fore(m, 0) = b
      BY FrontIs, ConcatEmptySeq
    <2>2. Upto(W, 0) = <<>>
      BY DEF Upto
    <2>3. Runs(b) = <<>> /\ Cut(b)
      BY RunsOfBlanks
    <2>4. 0 \in 0..n
      BY <1>0
    <2> QED BY <2>1, <2>2, <2>3, <2>4
  <1>2. ASSUME NEW k \in 0..n - 1, k \in A PROVE k + 1 \in A
    <2> DEFINE s == b \o Fore(m, k)
               w == W[k + 1]
    <2>1. k \in 0..n /\ k + 1 \in 0..n /\ k + 1 \in 1..n /\ (k + 1) - 1 = k
      BY <1>0
    <2>2. PICK p \in Blank : Chunks(m)[k + 1] = Append(w, p)
      BY <2>1, ChunksAre
    <2>3. Fore(m, k + 1) = Fore(m, k) \o Append(w, p) /\ Fore(m, k) \in Seq(Piece)
      BY <2>1, <2>2, FrontIs
    <2>4. w \in Seq(Piece) /\ w # <<>> /\ NoBlanks(w) /\ p \in Piece
      BY <2>1, ChunksAre, PieceAssumption DEF IsWord
    <2>5. Runs(s) = Upto(W, k) /\ Cut(s)
      BY <1>2
    <2>6. Upto(W, k + 1) = Append(Upto(W, k), w)
      BY <1>0, UptoAppend
    <2> HIDE DEF w, W, n
    <2>7. b \o Fore(m, k + 1) = Append(s \o w, p) /\ s \in Seq(Piece) /\ s \o w \in Seq(Piece)
      <3>1. s \in Seq(Piece)
        BY <2>3, ConcatProperties
      <3>2. s \o w \in Seq(Piece)
        <4> HIDE DEF s
        <4> QED BY <2>4, <3>1, ConcatProperties
      <3>3. Append(w, p) \in Seq(Piece)
        BY <2>4
      <3>4. b \o (Fore(m, k) \o Append(w, p)) = s \o Append(w, p)
        <4>1. \A f, a \in Seq(Piece) : b \o (f \o a) = (b \o f) \o a
          BY ConcatAssociative
        <4> QED BY <2>3, <3>3, <4>1
      <3> HIDE DEF s
      <3>5. s \o Append(w, p) = Append(s \o w, p)
        BY <2>4, <3>1, ConcatAppend
      <3> QED BY <2>3, <3>1, <3>2, <3>4, <3>5
    <2> HIDE DEF s
    <2>8. Runs(s \o w) = Append(Upto(W, k), w)
      BY <2>4, <2>5, <2>7, RunsThenWord
    <2>9. Runs(Append(s \o w, p)) = Append(Upto(W, k), w)
      BY <2>7, <2>8, RunsThenBlank
    <2>10. Cut(Append(s \o w, p))
      <3>1. \A x \in Seq(Piece) : Append(x, p)[Len(Append(x, p))] = p
        BY <2>4
      <3> QED BY <2>7, <3>1 DEF Cut
    <2> QED BY <2>1, <2>6, <2>7, <2>9, <2>10
  <1> HIDE DEF A
  <1>3. \A k \in 0..n : k \in A
    BY <1>0, <1>1, <1>2, InductUpto
  <1> QED BY <1>3 DEF A

\* Its whole text is its words.
LEMMA TextRuns ==
  ASSUME NEW m \in Messages
  PROVE  Runs(Text(m)) = Written(m)
  <1>0. Len(Written(m)) \in Nat
    BY ChunksAre
  <1>1. <<>> \in Seq(Piece) /\ Blanks(<<>>) /\ Len(Written(m)) \in 0..Len(Written(m))
    BY <1>0 DEF Blanks
  <1>2. Runs(<<>> \o Fore(m, Len(Written(m)))) = Upto(Written(m), Len(Written(m)))
    BY <1>1, FrontRuns
  <1>3. <<>> \o Text(m) = Text(m)
    BY TextType
  <1>4. Upto(Written(m), Len(Written(m))) = Written(m)
    BY WrittenIs, LenProperties DEF Upto
  <1> QED BY <1>2, <1>3, <1>4, FrontIs

\* What a cut leaves of the words w: some of them, whole but for the last.
CutWords(w, r) ==
  r = <<>> \/ \E i \in 1..Len(w) : \E q \in 1..Len(w[i]) :
                r = Append(Upto(w, i - 1), SubSeq(w[i], 1, q))

LEMMA CutRuns ==
  ASSUME NEW m \in Messages, NEW b \in Seq(Piece), Blanks(b), NEW k \in 0..Len(Text(m))
  PROVE  CutWords(Written(m), Runs(b \o SubSeq(Text(m), 1, k)))
  <1> DEFINE n == Len(Written(m))
             W == Written(m)
             Fine(i) == \A j \in 0..Len(Fore(m, i)) : CutWords(W, Runs(b \o SubSeq(Fore(m, i), 1, j)))
             A == {i \in 0..n : Fine(i)}
  <1>0. n \in Nat /\ W \in Seq(Seq(Piece))
    BY ChunksAre, WrittenIs
  <1>1. 0 \in A
    <2>1. ASSUME NEW j \in 0..Len(Fore(m, 0)) PROVE CutWords(W, Runs(b \o SubSeq(Fore(m, 0), 1, j)))
      <3>0. Fore(m, 0) = <<>>
        BY FrontIs
      <3>1. j = 0
        BY <3>0
      <3>2. SubSeq(Fore(m, 0), 1, j) = <<>>
        BY <3>0, <3>1
      <3>3. b \o SubSeq(Fore(m, 0), 1, j) = b
        BY <3>2, ConcatEmptySeq
      <3> QED BY <3>3, RunsOfBlanks DEF CutWords
    <2> QED BY <1>0, <2>1
  <1>2. ASSUME NEW i \in 0..n - 1, i \in A PROVE i + 1 \in A
    <2> DEFINE f == Fore(m, i)
               w == W[i + 1]
    <2>1. i \in 0..n /\ i + 1 \in 0..n /\ i + 1 \in 1..n /\ (i + 1) - 1 = i
      BY <1>0
    <2>2. PICK p \in Blank : Chunks(m)[i + 1] = Append(w, p)
      BY <2>1, ChunksAre
    <2> DEFINE c == Append(w, p)
    <2>3. Fore(m, i + 1) = f \o c /\ f \in Seq(Piece)
      BY <2>1, <2>2, FrontIs
    <2>4. w \in Seq(Piece) /\ w # <<>> /\ NoBlanks(w) /\ p \in Piece
      BY <2>1, ChunksAre, PieceAssumption DEF IsWord
    <2>5. Runs(b \o f) = Upto(W, i) /\ Cut(b \o f)
      BY <2>1, FrontRuns
    <2>6. Runs(b \o (f \o c)) = Upto(W, i + 1)
      BY <2>1, <2>3, FrontRuns
    <2>7. Upto(W, i + 1) = Append(Upto(W, i), w)
      BY <1>0, UptoAppend
    <2>8. Fine(i)
      BY <1>2
    <2> HIDE DEF w, f
    <2>9. /\ c \in Seq(Piece) /\ Len(c) = Len(w) + 1 /\ Len(w) \in Nat \ {0}
          /\ SubSeq(c, 1, Len(w) + 1) = c /\ SubSeq(w, 1, Len(w)) = w
          /\ \A q \in 1..Len(w) : SubSeq(c, 1, q) = SubSeq(w, 1, q)
      <3>1. c \in Seq(Piece) /\ Len(c) = Len(w) + 1 /\ Len(w) \in Nat \ {0}
            /\ \A q \in 1..Len(w) : c[q] = w[q]
        BY <2>4
      <3>2. \A s \in Seq(Piece) : SubSeq(s, 1, Len(s)) = s
        OBVIOUS
      <3> HIDE DEF c
      <3>3. ASSUME NEW q \in 1..Len(w) PROVE SubSeq(c, 1, q) = SubSeq(w, 1, q)
        <4>1. /\ SubSeq(c, 1, q) \in Seq(Piece) /\ SubSeq(w, 1, q) \in Seq(Piece)
              /\ Len(SubSeq(c, 1, q)) = q /\ Len(SubSeq(w, 1, q)) = q
              /\ \A x \in 1..q : SubSeq(c, 1, q)[x] = c[x] /\ SubSeq(w, 1, q)[x] = w[x]
          BY <2>4, <3>1
        <4> QED BY <3>1, <4>1, SeqEqual
      <3> QED BY <2>4, <3>1, <3>2, <3>3
    <2> HIDE DEF c
    <2>10. ASSUME NEW j \in 0..Len(f \o c) PROVE CutWords(W, Runs(b \o SubSeq(f \o c, 1, j)))
      <3>1. Len(f \o c) = Len(f) + (Len(w) + 1) /\ Len(f) \in Nat
        <4>1. Len(f \o c) = Len(f) + Len(c)
          BY <2>3, <2>9, ConcatProperties
        <4>2. Len(f) \in Nat
          BY <2>3
        <4> QED BY <2>9, <4>1, <4>2
      <3>2. CASE j <= Len(f)
        <4>1. j \in 0..Len(f)
          BY <3>1, <3>2
        <4>2. SubSeq(f \o c, 1, j) = SubSeq(f, 1, j)
          BY <2>3, <2>9, <4>1, PrefixOfFirst
        <4>3. CutWords(W, Runs(b \o SubSeq(f, 1, j)))
          BY <2>8, <4>1 DEF f
        <4> QED BY <4>2, <4>3
      <3>3. CASE ~(j <= Len(f))
        <4> DEFINE q == j - Len(f)
        <4>1. q \in 0..Len(c) /\ j = Len(f) + q /\ q \in 1..Len(w) + 1
          BY <2>9, <3>1, <3>3
        <4> HIDE DEF q
        <4>2. SubSeq(f \o c, 1, j) = f \o SubSeq(c, 1, q)
          BY <2>3, <2>9, <4>1, PrefixBeyond
        <4>3. ASSUME NEW r \in 1..Len(w), Runs(b \o (f \o SubSeq(c, 1, q))) = Append(Upto(W, i), SubSeq(w, 1, r))
              PROVE  CutWords(W, Runs(b \o SubSeq(f \o c, 1, j)))
          BY <2>1, <4>2, <4>3 DEF CutWords, w
        <4>4. CASE q = Len(w) + 1
          <5>1. Runs(b \o (f \o SubSeq(c, 1, q))) = Append(Upto(W, i), SubSeq(w, 1, Len(w)))
            BY <2>6, <2>7, <2>9, <4>4
          <5>2. Len(w) \in 1..Len(w)
            BY <2>9
          <5> QED BY <4>3, <5>1, <5>2
        <4>5. CASE q # Len(w) + 1
          <5>1. q \in 1..Len(w) /\ SubSeq(c, 1, q) = SubSeq(w, 1, q)
            BY <2>9, <4>1, <4>5
          <5> DEFINE x == SubSeq(w, 1, q)
          <5>2. x \in Seq(Piece) /\ x # <<>> /\ NoBlanks(x)
            <6>1. x \in Seq(Piece) /\ Len(x) = q /\ \A y \in 1..q : x[y] = w[y]
              BY <2>4, <5>1
            <6> QED BY <2>4, <5>1, <6>1 DEF NoBlanks
          <5> HIDE DEF x
          <5>3. b \o (f \o x) = (b \o f) \o x /\ b \o f \in Seq(Piece)
            BY <2>3, <5>2
          <5>4. Runs((b \o f) \o x) = Append(Upto(W, i), x)
            BY <2>5, <5>2, <5>3, RunsThenWord
          <5>5. Runs(b \o (f \o SubSeq(c, 1, q))) = Append(Upto(W, i), SubSeq(w, 1, q))
            BY <5>1, <5>3, <5>4 DEF x
          <5> QED BY <4>3, <5>1, <5>5
        <4> QED BY <4>4, <4>5
      <3> QED BY <3>2, <3>3
    <2> QED BY <2>1, <2>3, <2>10
  <1> HIDE DEF A
  <1>3. n \in A
    <2>1. \A i \in 0..n : i \in A
      BY <1>0, <1>1, <1>2, InductUpto
    <2> QED BY <1>0, <2>1
  <1>4. Text(m) = Fore(m, n)
    BY FrontIs
  <1> QED BY <1>3, <1>4 DEF A

-----------------------------------------------------------------------------
(* The bytes are those of the messages. *)

\* What was sent before stays where it is.
LEMMA SubSeqStays ==
  ASSUME NEW s \in Seq(Piece), NEW t \in Seq(Piece),
         NEW i \in Nat \ {0}, NEW j \in Nat, j <= Len(s)
  PROVE  SubSeq(s \o t, i, j) = SubSeq(s, i, j)
  <1>1. s \o t \in Seq(Piece) /\ Len(s \o t) = Len(s) + Len(t)
        /\ \A k \in 1..Len(s) : (s \o t)[k] = s[k]
    BY ConcatProperties
  <1>2. ASSUME i <= j PROVE SubSeq(s \o t, i, j) = SubSeq(s, i, j)
    BY <1>1, <1>2
  <1>3. ASSUME j < i PROVE SubSeq(s \o t, i, j) = SubSeq(s, i, j)
    BY <1>3, SubSeqEmpty
  <1> QED BY <1>2, <1>3

\* The second part of a concatenation.
LEMMA SubSeqLast ==
  ASSUME NEW s \in Seq(Piece), NEW t \in Seq(Piece)
  PROVE  SubSeq(s \o t, Len(s) + 1, Len(s) + Len(t)) = t
  <1> DEFINE r == SubSeq(s \o t, Len(s) + 1, Len(s) + Len(t))
  <1>1. s \o t \in Seq(Piece) /\ Len(s \o t) = Len(s) + Len(t)
    BY ConcatProperties
  <1>2. \A k \in 1..Len(t) : (s \o t)[Len(s) + k] = t[k]
    OBVIOUS
  <1>3. Len(s) \in Nat /\ Len(t) \in Nat
    OBVIOUS
  <1>4. CASE Len(t) = 0
    <2>1. t = <<>>
      BY <1>4
    <2>2. r = <<>>
      BY <1>3, <1>4, SubSeqEmpty
    <2> QED BY <2>1, <2>2
  <1>5. CASE Len(t) # 0
    <2>1. r \in Seq(Piece) /\ Len(r) = Len(t)
      BY <1>1, <1>3, <1>5
    <2>2. \A k \in 1..Len(t) : r[k] = t[k]
      BY <1>1, <1>2, <1>3
    <2> HIDE DEF r
    <2>3. r = t
      BY <2>1, <2>2, SeqEqual
    <2> QED BY <2>3 DEF r
  <1> QED BY <1>4, <1>5

\* The stream is the messages, each at its place.
StreamInv ==
  /\ said \in Seq(Messages) /\ Len(said) = Len(ends)
  /\ stream \in Seq(Piece) /\ stream = StreamOf(said) /\ Len(stream) = Sent
  /\ \A i \in 1..Len(ends) :
       /\ End(i - 1) \in Nat /\ End(i) \in Nat /\ End(i - 1) < End(i) /\ End(i) <= Sent
       /\ SubSeq(stream, End(i - 1) + 1, End(i)) = Text(said[i])
  /\ cuts \in 0..MaxCuts

LEMMA StreamInit == SessionInit => StreamInv
  <1> SUFFICES ASSUME SessionInit PROVE StreamInv
    OBVIOUS
  <1>1. stream = <<>> /\ said = <<>> /\ ends = <<>> /\ cuts = 0
    BY DEF SessionInit, Init
  <1>2. StreamOf(said) = <<>>
    BY <1>1 DEF StreamOf, FlattenSeq
  <1>3. Sent = 0
    BY <1>1 DEF Sent, End
  <1> QED BY <1>1, <1>2, <1>3, MaxCutsAssumption DEF StreamInv

LEMMA StreamStep == CInv /\ StreamInv /\ [SessionNext]_svars => StreamInv'
  <1> SUFFICES ASSUME CInv, StreamInv, [SessionNext]_svars PROVE StreamInv'
    OBVIOUS
  <1>0. ends \in Seq(Nat) /\ Len(ends) \in Nat /\ Sent \in Nat
    BY DEF CInv, TypeOK, Sent, End
  <1>1. ASSUME NEW m \in Messages, Send(m) PROVE StreamInv'
    <2> DEFINE t == Text(m)
    <2>1. t \in Seq(Piece) /\ Len(t) \in Nat \ {0}
      BY TextType
    <2>2. /\ ends' = Append(ends, Sent + Len(t)) /\ stream' = stream \o t
          /\ said' = Append(said, m) /\ cuts' = cuts
      BY <1>1 DEF Send, Write
    <2> HIDE DEF t
    <2>3. /\ Len(ends') = Len(ends) + 1 /\ ends'[Len(ends) + 1] = Sent + Len(t)
          /\ \A i \in 1..Len(ends) : ends'[i] = ends[i]
      BY <1>0, <2>1, <2>2
    <2>4. /\ said' \in Seq(Messages) /\ Len(said') = Len(said) + 1
          /\ said'[Len(said) + 1] = m
          /\ \A i \in 1..Len(said) : said'[i] = said[i]
      BY <2>2 DEF StreamInv
    <2>5. stream' \in Seq(Piece) /\ Len(stream') = Len(stream) + Len(t)
      BY <2>1, <2>2, ConcatProperties DEF StreamInv
    <2>6. /\ \A i \in 0..Len(ends) : End(i)' = End(i)
          /\ \A i \in Nat : i = Len(ends) + 1 => End(i)' = Sent + Len(t)
          /\ Sent' = Sent + Len(t)
      <3>1. \A i \in 0..Len(ends) : End(i)' = End(i)
        BY <1>0, <2>3 DEF End
      <3>2. ASSUME NEW i \in Nat, i = Len(ends) + 1 PROVE End(i)' = Sent + Len(t)
        <4>1. i # 0
          BY <1>0, <3>2
        <4>2. End(i)' = ends'[i]
          BY <4>1 DEF End
        <4> QED BY <2>3, <3>2, <4>2
      <3>3. Sent' = Sent + Len(t)
        <4>1. Sent' = ends'[Len(ends')] /\ Len(ends') # 0
          BY <1>0, <2>3 DEF Sent, End
        <4> QED BY <2>3, <4>1
      <3> QED BY <3>1, <3>2, <3>3
    <2>7. stream' = StreamOf(said')
      <3> DEFINE texts == [i \in 1..Len(said) |-> Text(said[i])]
                 more  == [i \in 1..Len(said') |-> Text(said'[i])]
      <3>1. texts \in Seq(Seq(Piece)) /\ Len(texts) = Len(said)
        BY TextType DEF StreamInv
      <3>2. more = Append(texts, t)
        <4>1. Append(texts, t) \in Seq(Seq(Piece)) /\ more \in Seq(Seq(Piece))
          <5>1. \A i \in 1..Len(said') : Text(said'[i]) \in Seq(Piece)
            BY <2>4, TextType
          <5>2. Len(said') \in Nat
            BY <2>4
          <5>3. more \in Seq(Seq(Piece))
            BY <5>1, <5>2
          <5>4. Append(texts, t) \in Seq(Seq(Piece))
            <6> HIDE DEF texts
            <6> QED BY <3>1, <2>1
          <5> QED BY <5>3, <5>4
        <4>2. Len(more) = Len(said) + 1 /\ Len(Append(texts, t)) = Len(said) + 1
          BY <3>1, <2>4
        <4>3. ASSUME NEW i \in 1..Len(said) + 1 PROVE more[i] = Append(texts, t)[i]
          <5>1. CASE i \in 1..Len(said)
            <6>1. more[i] = Text(said[i]) /\ texts[i] = Text(said[i])
              BY <5>1, <2>4
            <6>2. Append(texts, t)[i] = texts[i]
              <7> HIDE DEF texts
              <7> QED BY <5>1, <3>1, <2>1
            <6> QED BY <6>1, <6>2
          <5>2. CASE i = Len(said) + 1
            <6>1. more[i] = t
              BY <5>2, <2>4 DEF t
            <6>2. Append(texts, t)[Len(texts) + 1] = t
              <7> HIDE DEF texts
              <7> QED BY <3>1, <2>1
            <6> QED BY <5>2, <6>1, <6>2, <3>1
          <5> QED BY <5>1, <5>2 DEF StreamInv
        <4> HIDE DEF more, texts
        <4> QED BY <4>1, <4>2, <4>3, SeqEqual
      <3>3. FlattenSeq(more) = FlattenSeq(texts) \o t
        <4> HIDE DEF texts, more
        <4> QED BY <2>1, <3>1, <3>2, FlattenAppend
      <3> QED BY <2>2, <3>3 DEF StreamInv, StreamOf
    <2>8. ASSUME NEW i \in 1..Len(ends')
          PROVE  /\ End(i - 1)' \in Nat /\ End(i)' \in Nat
                 /\ End(i - 1)' < End(i)' /\ End(i)' <= Sent'
                 /\ SubSeq(stream', End(i - 1)' + 1, End(i)') = Text(said'[i])
      <3>1. CASE i \in 1..Len(ends)
        <4>1. End(i - 1)' = End(i - 1) /\ End(i)' = End(i)
          BY <1>0, <2>6, <3>1
        <4>2. /\ End(i - 1) \in Nat /\ End(i) \in Nat /\ End(i - 1) < End(i) /\ End(i) <= Sent
              /\ SubSeq(stream, End(i - 1) + 1, End(i)) = Text(said[i])
          BY <3>1 DEF StreamInv
        <4>3. End(i) <= Sent' /\ End(i) <= Len(stream) /\ End(i - 1) + 1 \in Nat \ {0}
          <5>1. Sent' = Sent + Len(t) /\ Len(stream) = Sent
            BY <2>6 DEF StreamInv
          <5> QED BY <1>0, <2>1, <5>1, <4>2
        <4>4. SubSeq(stream', End(i - 1) + 1, End(i)) = SubSeq(stream, End(i - 1) + 1, End(i))
          <5>1. stream \in Seq(Piece) /\ stream' = stream \o t
            BY <2>2 DEF StreamInv
          <5>2. \A a \in Nat \ {0}, b \in Nat :
                  b <= Len(stream) => SubSeq(stream \o t, a, b) = SubSeq(stream, a, b)
            BY <2>1, <5>1, SubSeqStays
          <5>3. SubSeq(stream \o t, End(i - 1) + 1, End(i)) = SubSeq(stream, End(i - 1) + 1, End(i))
            BY <4>2, <4>3, <5>2
          <5> QED BY <5>1, <5>3
        <4>5. said'[i] = said[i]
          BY <2>4, <3>1 DEF StreamInv
        <4> QED BY <4>1, <4>2, <4>3, <4>4, <4>5
      <3>2. CASE i = Len(ends) + 1
        <4>1. End(i - 1)' = Sent /\ End(i)' = Sent + Len(t) /\ Sent' = Sent + Len(t)
          <5>1. i - 1 = Len(ends) /\ i - 1 \in 0..Len(ends)
            BY <1>0, <3>2
          <5>2. End(i - 1)' = End(i - 1) /\ End(i - 1) = Sent
            BY <2>6, <5>1 DEF Sent
          <5>3. End(i)' = Sent + Len(t)
            BY <1>0, <2>6, <3>2
          <5> QED BY <2>6, <5>2, <5>3
        <4>2. SubSeq(stream', Sent + 1, Sent + Len(t)) = t
          BY <2>1, <2>2, SubSeqLast DEF StreamInv
        <4>3. said'[i] = m
          BY <2>4, <3>2 DEF StreamInv
        <4>4. SubSeq(stream', End(i - 1)' + 1, End(i)') = t
          BY <4>1, <4>2, Zenon
        <4>5. t = Text(said'[i])
          BY <4>3 DEF t
        <4>6. /\ End(i - 1)' \in Nat /\ End(i)' \in Nat
              /\ End(i - 1)' < End(i)' /\ End(i)' <= Sent'
          BY <1>0, <2>1, <4>1
        <4> QED BY <4>4, <4>5, <4>6
      <3> QED BY <1>0, <2>3, <3>1, <3>2
    <2>9. Len(said') = Len(ends') /\ Len(stream') = Sent' /\ cuts' \in 0..MaxCuts
      <3>1. Len(said) = Len(ends) /\ Len(stream) = Sent /\ cuts \in 0..MaxCuts
        BY DEF StreamInv
      <3> QED BY <2>2, <2>3, <2>4, <2>5, <2>6, <3>1
    <2> QED BY <2>4, <2>5, <2>7, <2>8, <2>9 DEF StreamInv
  <1>2. ASSUME NEW n \in 1..Sent - arrived, Segment(n) PROVE StreamInv'
    <2>1. UNCHANGED <<ends, stream, said>>
      BY <1>2 DEF Segment, Deliver
    <2>2. cuts' \in 0..MaxCuts
      BY <1>2, MaxCutsAssumption DEF Segment, StreamInv
    <2> QED BY <2>1, <2>2 DEF StreamInv, End, Sent
  <1>3. CASE ~(\E m \in Messages : Send(m)) /\ ~(\E n \in 1..Sent - arrived : Segment(n))
    <2>1. UNCHANGED <<ends, stream, said, cuts>>
      BY <1>3 DEF SessionNext, svars, vars, Hangup, Idle, Thread, Read, ReadError, ReadEnd,
                  BeginProcess, Deserialize, EndProcess, Process
    <2> QED BY <2>1 DEF StreamInv, End, Sent
  <1> QED BY <1>1, <1>2, <1>3

\* So the bytes that were sent stay where they are.
LEMMA StreamStays ==
  ASSUME StreamInv, NEW m \in Messages, stream' = stream \o Text(m)
  PROVE  \A a \in Nat \ {0}, b \in Nat :
           b <= Len(stream) => SubSeq(stream', a, b) = SubSeq(stream, a, b)
  <1>1. stream \in Seq(Piece) /\ Text(m) \in Seq(Piece)
    BY TextType DEF StreamInv
  <1> QED BY <1>1, SubSeqStays

-----------------------------------------------------------------------------
(* A polite client: each command is a message. *)

\* While the client is polite, each command so far was a message, and the command
\* that is under way is the next one or nothing of it.
Aligned ==
  polite /\ peer # "broken" =>
    /\ Len(frames) <= Len(ends) /\ Len(ends) <= Len(frames) + 1
    /\ start = End(Len(frames))
    /\ \A i \in 1..Len(frames) : /\ frames[i].from = End(i - 1) /\ frames[i].to = End(i)
                                 /\ End(i) <= start
    /\ arrived \in {start, Sent}
    /\ pc = "process" => Len(ends) = Len(frames) + 1 /\ consumed = Sent

LEMMA AlignedInit == SessionInit => Aligned
  <1> SUFFICES ASSUME SessionInit PROVE Aligned
    OBVIOUS
  <1>1. ends = <<>> /\ frames = <<>> /\ start = 0 /\ arrived = 0 /\ pc = "read"
    BY DEF SessionInit, Init
  <1>2. Len(ends) = 0 /\ Len(frames) = 0
    BY <1>1
  <1>3. End(Len(frames)) = 0
    BY <1>2 DEF End
  <1> QED BY <1>1, <1>2, <1>3 DEF Aligned

\* The places of earlier messages do not change.
LEMMA EndsStay ==
  ASSUME CInv, [SessionNext]_svars
  PROVE  /\ Len(ends) <= Len(ends') /\ Len(ends) \in Nat
         /\ \A i \in 0..Len(ends) : End(i)' = End(i)
  <1>0. ends \in Seq(Nat) /\ Len(ends) \in Nat
    BY DEF CInv, TypeOK
  <1>1. CASE \E n \in Lengths : Write(n)
    <2>1. PICK n \in Lengths : ends' = Append(ends, Sent + n)
      BY <1>1 DEF Write
    <2>2. Sent + n \in Nat
      BY <1>0, LengthsAssumption DEF Sent, End
    <2>3. Len(ends') = Len(ends) + 1 /\ \A i \in 1..Len(ends) : ends'[i] = ends[i]
      BY <1>0, <2>1, <2>2
    <2> QED BY <1>0, <2>3 DEF End
  <1>2. CASE ~(\E n \in Lengths : Write(n))
    <2>1. [Next]_vars
      BY SessionStep
    <2>2. ends' = ends
      BY <1>2, <2>1 DEF Next, vars, Deliver, Hangup, Handle, Idle, Read, ReadError, ReadEnd, Process
    <2> QED BY <1>0, <2>2 DEF End
  <1> QED BY <1>1, <1>2

LEMMA AlignedStep == CInv /\ StreamInv /\ Aligned /\ [SessionNext]_svars => Aligned'
  <1> SUFFICES ASSUME CInv, StreamInv, Aligned, [SessionNext]_svars, polite', peer' # "broken"
               PROVE  /\ Len(frames') <= Len(ends') /\ Len(ends') <= Len(frames') + 1
                      /\ \A n \in Nat : n = Len(frames') => start' = End(n)'
                      /\ \A i \in 1..Len(frames') :
                           frames'[i].from = End(i - 1)' /\ frames'[i].to = End(i)' /\ End(i)' <= start'
                      /\ arrived' \in {start', Sent'}
                      /\ pc' = "process" => Len(ends') = Len(frames') + 1 /\ consumed' = Sent'
    <2>1. Len(frames') \in Nat
      BY SessionStep, CInvStep DEF CInv, TypeOK
    <2> QED BY <2>1 DEF Aligned
  <1>0. /\ Len(frames) \in Nat /\ Len(ends) \in Nat /\ Sent \in Nat /\ start \in Nat
        /\ consumed \in Nat /\ arrived \in Nat
        /\ start <= consumed /\ consumed <= arrived /\ arrived <= Sent
    BY DEF CInv, TypeOK, Sent, End
  <1>1. [Next]_vars
    BY SessionStep
  <1>2. polite /\ peer # "broken"
    BY <1>1 DEF Next, vars, Write, Deliver, Hangup, Handle, Idle, Read, ReadError, ReadEnd, Process
  <1>3. /\ Len(frames) <= Len(ends) /\ Len(ends) <= Len(frames) + 1
        /\ start = End(Len(frames))
        /\ \A i \in 1..Len(frames) : /\ frames[i].from = End(i - 1) /\ frames[i].to = End(i)
                                     /\ End(i) <= start
        /\ arrived \in {start, Sent}
        /\ pc = "process" => Len(ends) = Len(frames) + 1 /\ consumed = Sent
    BY <1>2 DEF Aligned
  <1>4. \A i \in 0..Len(ends) : End(i)' = End(i)
    BY EndsStay
  <1>5. ASSUME UNCHANGED <<frames, start>>
        PROVE  /\ \A n \in Nat : n = Len(frames') => start' = End(n)'
               /\ \A i \in 1..Len(frames') :
                    frames'[i].from = End(i - 1)' /\ frames'[i].to = End(i)' /\ End(i)' <= start'
    <2>1. \A i \in 0..Len(frames) : End(i)' = End(i)
      BY <1>0, <1>3, <1>4
    <2>2. \A i \in 1..Len(frames) : i - 1 \in 0..Len(frames) /\ i \in 0..Len(frames)
      BY <1>0
    <2> QED BY <1>0, <1>3, <1>5, <2>1, <2>2
  <1>6. ASSUME NEW n \in Lengths, Write(n)
        PROVE  /\ Len(frames') <= Len(ends') /\ Len(ends') <= Len(frames') + 1
               /\ arrived' \in {start', Sent'}
               /\ pc' # "process" /\ UNCHANGED <<frames, start>>
    <2>1. Len(frames) = Len(ends) /\ pc = "read" /\ UNCHANGED <<frames, start, arrived, pc>>
      BY <1>6 DEF Write
    <2>2. Len(ends') = Len(ends) + 1
      <3>1. ends \in Seq(Nat) /\ Sent + n \in Nat
        BY <1>0, LengthsAssumption DEF CInv, TypeOK
      <3> QED BY <1>6, <3>1 DEF Write
    <2>3. start = Sent
      BY <1>3, <2>1 DEF Sent
    <2> QED BY <1>0, <2>1, <2>2, <2>3
  <1>7. ASSUME NEW n \in 1..Sent - arrived, Deliver(n)
        PROVE  arrived' = Sent /\ UNCHANGED <<ends, frames, start, consumed, pc>>
    <2>1. arrived' = arrived + n /\ UNCHANGED <<ends, frames, start, consumed, pc>>
      BY <1>7 DEF Deliver
    <2>2. PICK i \in 1..Len(ends) : arrived' = ends[i]
      BY <1>7, <2>1 DEF Deliver
    <2>3. arrived' = End(i)
      BY <2>2 DEF End
    <2>4. i \notin 1..Len(frames)
      <3>1. start < arrived'
        BY <1>0, <2>1
      <3>2. i \in 1..Len(frames) => End(i) <= start
        BY <1>3
      <3>3. End(i) \in Nat
        BY DEF StreamInv
      <3> QED BY <1>0, <2>3, <3>1, <3>2, <3>3
    <2>5. i = Len(ends)
      BY <1>0, <1>3, <2>4
    <2> QED BY <2>1, <2>3, <2>5 DEF Sent
  <1>8. CASE \E n \in Lengths : Write(n)
    BY <1>5, <1>6, <1>8
  <1>9. CASE \E n \in 1..Sent - arrived : Deliver(n)
    <2>1. arrived' = Sent /\ UNCHANGED <<ends, frames, start, consumed, pc>>
      BY <1>7, <1>9
    <2>2. Sent' = Sent
      BY <2>1 DEF Sent, End
    <2> QED BY <1>3, <1>5, <2>1, <2>2
  <1>10. CASE Hangup \/ Idle \/ ReadEnd \/ UNCHANGED vars
    <2>1. UNCHANGED <<ends, arrived, frames, start, consumed>> /\ (pc' = "process" => pc = "process")
      BY <1>10 DEF Hangup, Idle, ReadEnd, vars
    <2>2. Sent' = Sent
      BY <2>1 DEF Sent, End
    <2> QED BY <1>3, <1>5, <2>1, <2>2
  <1>11. CASE Read
    <2> DEFINE n == Least(BUF, arrived - consumed)
    <2>1. /\ n > 0 /\ consumed' = consumed + n
          /\ pc' = IF n < BUF THEN "process" ELSE "read"
          /\ UNCHANGED <<ends, arrived, frames, start>>
      BY <1>11 DEF Read
    <2>2. n \in {BUF, arrived - consumed}
      BY DEF Least
    <2>3. Sent' = Sent
      BY <2>1 DEF Sent, End
    <2>4. arrived # consumed
      <3>1. n > 0
        BY <2>1
      <3>2. BUF > 0 /\ BUF \in Nat
        BY BUFAssumption
      <3>3. arrived = consumed => arrived - consumed = 0
        BY <1>0
      <3>4. arrived = consumed => n = 0
        BY <3>2, <3>3 DEF Least
      <3> QED BY <3>1, <3>4
    <2> HIDE DEF n
    <2>5. arrived = Sent /\ start < Sent
      BY <1>0, <1>3, <2>4
    <2>6. Len(ends) = Len(frames) + 1
      <3>1. Len(ends) # Len(frames)
        <4>1. start = End(Len(frames)) /\ start # Sent
          BY <1>0, <1>3, <2>5
        <4> QED BY <4>1 DEF Sent
      <3> QED BY <1>0, <1>3, <3>1
    <2>7. pc' = "process" => consumed' = Sent
      <3>1. pc' = "process" => n < BUF
        BY <2>1
      <3>2. n < BUF => n = arrived - consumed
        BY <2>2, BUFAssumption
      <3> QED BY <1>0, <2>1, <2>5, <3>1, <3>2
    <2> QED BY <1>3, <1>5, <2>1, <2>3, <2>5, <2>6, <2>7
  <1>12. CASE Process
    <2>1. /\ pc = "process" /\ pc' = "read" /\ start' = consumed
          /\ frames' = Append(frames, [from |-> start, to |-> consumed])
          /\ UNCHANGED <<ends, arrived, consumed>>
      BY <1>12 DEF Process
    <2>2. Sent' = Sent
      BY <2>1 DEF Sent, End
    <2>3. /\ Len(frames') = Len(frames) + 1
          /\ frames'[Len(frames) + 1] = [from |-> start, to |-> consumed]
          /\ \A i \in 1..Len(frames) : frames'[i] = frames[i]
      BY <2>1, <1>0 DEF CInv, TypeOK
    <2>4. Len(ends) = Len(frames) + 1 /\ consumed = Sent /\ arrived = Sent
      BY <1>0, <1>3, <2>1
    <2>5. ASSUME NEW n \in Nat, n = Len(frames')
          PROVE  /\ End(n)' = Sent /\ End(n - 1)' = start /\ n = Len(ends)
      <3>1. n = Len(ends) /\ n - 1 = Len(frames) /\ n \in 0..Len(ends) /\ n - 1 \in 0..Len(ends)
        BY <1>0, <2>3, <2>4, <2>5
      <3> QED BY <1>3, <1>4, <3>1 DEF Sent
    <2>6. ASSUME NEW i \in 1..Len(frames')
          PROVE  frames'[i].from = End(i - 1)' /\ frames'[i].to = End(i)' /\ End(i)' <= start'
      <3>1. CASE i \in 1..Len(frames)
        <4>1. i - 1 \in 0..Len(ends) /\ i \in 0..Len(ends) /\ i \in 1..Len(ends)
          BY <1>0, <1>3, <3>1
        <4>2. End(i - 1)' = End(i - 1) /\ End(i)' = End(i)
          BY <1>4, <4>1
        <4>3. End(i) <= Sent
          BY <4>1 DEF StreamInv
        <4> QED BY <1>3, <2>1, <2>3, <2>4, <3>1, <4>2, <4>3
      <3>2. CASE i = Len(frames) + 1
        <4>1. End(i)' = Sent /\ End(i - 1)' = start
          BY <1>0, <2>3, <2>5, <3>2
        <4> QED BY <1>0, <2>1, <2>3, <2>4, <3>2, <4>1
      <3> QED BY <1>0, <2>3, <3>1, <3>2
    <2>7. \A n \in Nat : n = Len(frames') => start' = End(n)'
      BY <2>1, <2>4, <2>5
    <2> QED BY <1>0, <2>1, <2>2, <2>3, <2>4, <2>6, <2>7
  <1>13. CASE ReadError
    BY <1>13 DEF ReadError
  <1> QED BY <1>1, <1>8, <1>9, <1>10, <1>11, <1>12, <1>13 DEF Next, Handle

-----------------------------------------------------------------------------
(* The words that a text has *)

PP == INSTANCE ProtocolProofs WITH pc <- at, Texts <- {}, Commands <- {}, meant <- Nil

\* The place of the first '=' in s, if there is one.
EqualsIn(s) == SelectInSeq(s, LAMBDA x : x = "=")

\* Without an equals sign the parser finds none,
LEMMA NoEquals ==
  ASSUME NEW s \in Seq(Piece), \A i \in 1..Len(s) : s[i] # "="
  PROVE  EqualsIn(s) = 0
  BY DEF EqualsIn, SelectInSeq

\* and otherwise the first.
LEMMA FirstEquals ==
  ASSUME NEW s \in Seq(Piece), NEW k \in 1..Len(s), s[k] = "=", \A i \in 1..k - 1 : s[i] # "="
  PROVE  EqualsIn(s) = k
  <1> DEFINE I == {i \in 1..Len(s) : s[i] = "="}
  <1>1. k \in I /\ \A i \in I : k <= i
    OBVIOUS
  <1>2. \A i \in I : i \in Nat
    OBVIOUS
  <1> HIDE DEF I
  <1>3. Min(I) = k
    <2>1. Min(I) \in I /\ \A y \in I : Min(I) <= y
      BY <1>1 DEF Min
    <2>2. Min(I) \in Nat /\ k \in Nat /\ Min(I) <= k /\ k <= Min(I)
      BY <1>1, <1>2, <2>1
    <2> QED BY <2>2
  <1>4. EqualsIn(s) = IF I # {} THEN Min(I) ELSE 0
    BY DEF EqualsIn, SelectInSeq, I
  <1> QED BY <1>1, <1>3, <1>4

\* A quote at the start of a value, and one at its end.
Opens(v) == v # <<>> /\ Head(v) = Quote
Closes(v) == v # <<>> /\ Last(v) = Quote

\* The fields of a word, with and without an equals sign.
LEMMA WordOfIs ==
  ASSUME NEW s \in Seq(Piece)
  PROVE  /\ EqualsIn(s) = 0 =>
              WordOf(s) = [name  |-> Join(SubSeq(s, 1, Len(s))), eq |-> FALSE,
                           value |-> [open  |-> Opens(SubSeq(s, 1, Len(s))), text |-> "",
                                      close |-> Closes(SubSeq(s, 1, Len(s)))]]
         /\ EqualsIn(s) # 0 =>
              WordOf(s) = [name  |-> Join(SubSeq(s, 1, EqualsIn(s) - 1)), eq |-> TRUE,
                           value |-> [open  |-> Opens(SubSeq(s, EqualsIn(s) + 1, Len(s))),
                                      text  |-> Join(SubSeq(s, EqualsIn(s) + 1, Len(s))),
                                      close |-> Closes(SubSeq(s, EqualsIn(s) + 1, Len(s)))]]
  <1>1. ASSUME EqualsIn(s) = 0
        PROVE  WordOf(s) = [name  |-> Join(SubSeq(s, 1, Len(s))), eq |-> FALSE,
                            value |-> [open  |-> Opens(SubSeq(s, 1, Len(s))), text |-> "",
                                       close |-> Closes(SubSeq(s, 1, Len(s)))]]
    <2>1. 0 + 1 = 1
      OBVIOUS
    <2> QED BY <1>1, <2>1 DEF WordOf, EqualsIn, Opens, Closes
  <1>2. ASSUME EqualsIn(s) # 0
        PROVE  WordOf(s) = [name  |-> Join(SubSeq(s, 1, EqualsIn(s) - 1)), eq |-> TRUE,
                            value |-> [open  |-> Opens(SubSeq(s, EqualsIn(s) + 1, Len(s))),
                                       text  |-> Join(SubSeq(s, EqualsIn(s) + 1, Len(s))),
                                       close |-> Closes(SubSeq(s, EqualsIn(s) + 1, Len(s)))]]
    BY <1>2 DEF WordOf, EqualsIn, Opens, Closes
  <1> QED BY <1>1, <1>2

\* A value with no quote in it neither opens nor closes one.
LEMMA QuotesOfValue ==
  ASSUME NEW v \in Seq(Piece), \A i \in 1..Len(v) : v[i] # Quote
  PROVE  Opens(v) = FALSE /\ Closes(v) = FALSE
  <1>1. CASE v = <<>>
    BY <1>1 DEF Opens, Closes
  <1>2. CASE v # <<>>
    <2>1. 1 \in 1..Len(v) /\ Len(v) \in 1..Len(v) /\ Head(v) = v[1]
      BY <1>2
    <2> QED BY <2>1 DEF Opens, Closes, Last
  <1> QED BY <1>1, <1>2

\* A word without '=' and without quotes.
LEMMA BareWord ==
  ASSUME NEW s \in Seq(Piece), \A i \in 1..Len(s) : s[i] # "=" /\ s[i] # Quote
  PROVE  WordOf(s) = P!Bare(Join(s))
  <1>1. SubSeq(s, 1, Len(s)) = s
    BY SubSeqFull
  <1>2. EqualsIn(s) = 0
    BY NoEquals
  <1>3. Opens(s) = FALSE /\ Closes(s) = FALSE
    BY QuotesOfValue
  <1>4. WordOf(s) = [name |-> Join(s), eq |-> FALSE,
                     value |-> [open |-> Opens(s), text |-> "", close |-> Closes(s)]]
    BY <1>1, <1>2, WordOfIs
  <1> QED BY <1>3, <1>4 DEF P!Bare, P!Plain

\* A name without '=', a '=' and a value.
LEMMA PairWord ==
  ASSUME NEW f \in Seq(Piece), \A i \in 1..Len(f) : f[i] # "=", NEW v \in Seq(Piece)
  PROVE  WordOf((f \o <<"=">>) \o v) =
           [name  |-> Join(f), eq |-> TRUE,
            value |-> [open |-> Opens(v), text |-> Join(v), close |-> Closes(v)]]
  <1> DEFINE s == f \o <<"=">>
             t == s \o v
             k == Len(f) + 1
  <1>0. k \in Nat /\ k - 1 = Len(f) /\ Len(v) \in Nat
    OBVIOUS
  <1>1. s \in Seq(Piece) /\ Len(s) = k /\ s[k] = "=" /\ \A i \in 1..Len(f) : s[i] = f[i]
    BY EqualsType
  <1> HIDE DEF k, s
  <1>2. /\ t \in Seq(Piece) /\ Len(t) = k + Len(v)
        /\ \A i \in 1..k + Len(v) : t[i] = IF i <= k THEN s[i] ELSE v[i - k]
    BY <1>1, ConcatProperties
  <1> HIDE DEF t
  <1>3. EqualsIn(t) = k
    <2>1. k \in 1..Len(t) /\ t[k] = "="
      BY <1>0, <1>1, <1>2 DEF k
    <2>2. ASSUME NEW i \in 1..k - 1 PROVE t[i] # "="
      <3>1. i \in 1..Len(f) /\ i \in 1..k + Len(v) /\ i <= k
        BY <1>0 DEF k
      <3>2. t[i] = f[i]
        BY <1>1, <1>2, <3>1
      <3> QED BY <1>0, <3>1, <3>2
    <2> QED BY <1>2, <2>1, <2>2, FirstEquals
  <1>4. SubSeq(t, 1, k - 1) = f
    <2>1. /\ SubSeq(t, 1, k - 1) \in Seq(Piece) /\ Len(SubSeq(t, 1, k - 1)) = k - 1
          /\ \A i \in 1..k - 1 : SubSeq(t, 1, k - 1)[i] = t[i]
      BY <1>0, <1>2
    <2>2. \A i \in 1..k - 1 : t[i] = f[i]
      BY <1>0, <1>1, <1>2
    <2> QED BY <1>0, <2>1, <2>2, SeqEqual
  <1>5. SubSeq(t, k + 1, Len(t)) = v
    <2>1. CASE v = <<>>
      <3>1. Len(t) = k
        BY <1>0, <1>2, <2>1
      <3> QED BY <1>0, <2>1, <3>1, SubSeqEmpty
    <2>2. CASE v # <<>>
      <3>1. /\ SubSeq(t, k + 1, Len(t)) \in Seq(Piece) /\ Len(SubSeq(t, k + 1, Len(t))) = Len(v)
            /\ \A i \in 1..Len(v) : SubSeq(t, k + 1, Len(t))[i] = t[k + i]
        BY <1>0, <1>2, <2>2
      <3>2. \A i \in 1..Len(v) : t[k + i] = v[i]
        <4> SUFFICES ASSUME NEW i \in 1..Len(v) PROVE t[k + i] = v[i]
          OBVIOUS
        <4>1. k + i \in 1..k + Len(v) /\ ~(k + i <= k) /\ (k + i) - k = i
          BY <1>0 DEF k
        <4> QED BY <1>2, <4>1
      <3> QED BY <3>1, <3>2, SeqEqual
    <2> QED BY <2>1, <2>2
  <1>6. EqualsIn(t) # 0
    BY <1>0, <1>3 DEF k
  <1> QED BY <1>2, <1>3, <1>4, <1>5, <1>6, WordOfIs DEF t, s

\* A quote at the end is left out.
LEMMA QuoteLast ==
  ASSUME NEW s \in Seq(Piece)
  PROVE  s \o <<Quote>> = Append(s, Quote) /\ Join(s \o <<Quote>>) = Join(s)
  <1>1. Quote \in Piece
    BY PieceTypes
  <1>2. s \o <<Quote>> = Append(s, Quote)
    BY <1>1
  <1> QED BY <1>1, <1>2, JoinAppend DEF Glue

\* Quotes in front and around are left out.
LEMMA JoinQuoted ==
  ASSUME NEW s \in Seq(Piece)
  PROVE  /\ <<Quote>> \o s \in Seq(Piece) /\ (<<Quote>> \o s) \o <<Quote>> \in Seq(Piece)
         /\ Join(<<Quote>> \o s) = Join(s)
         /\ Join((<<Quote>> \o s) \o <<Quote>>) = Join(s)
         /\ Len(<<Quote>> \o s) = Len(s) + 1 /\ (<<Quote>> \o s)[1] = Quote
         /\ \A i \in 1..Len(s) : (<<Quote>> \o s)[i + 1] = s[i]
         /\ Len((<<Quote>> \o s) \o <<Quote>>) = Len(s) + 2
         /\ ((<<Quote>> \o s) \o <<Quote>>)[1] = Quote
         /\ ((<<Quote>> \o s) \o <<Quote>>)[Len(s) + 2] = Quote
  <1>1. Quote \in Piece
    BY PieceTypes
  <1>2. /\ <<Quote>> \o s \in Seq(Piece) /\ Len(<<Quote>> \o s) = Len(s) + 1 /\ (<<Quote>> \o s)[1] = Quote
        /\ \A i \in 1..Len(s) : (<<Quote>> \o s)[i + 1] = s[i]
    BY <1>1
  <1> DEFINE t == <<Quote>> \o s
  <1>3. Join(t) = Join(s)
    BY QuoteFirst
  <1> HIDE DEF t
  <1>4. t \in Seq(Piece) /\ Len(t) = Len(s) + 1 /\ t[1] = Quote
    BY <1>2 DEF t
  <1>5. t \o <<Quote>> = Append(t, Quote) /\ Join(t \o <<Quote>>) = Join(t)
    BY <1>4, QuoteLast
  <1>6. /\ t \o <<Quote>> \in Seq(Piece) /\ Len(t \o <<Quote>>) = Len(s) + 2
        /\ (t \o <<Quote>>)[1] = Quote /\ (t \o <<Quote>>)[Len(s) + 2] = Quote
    BY <1>1, <1>4
  <1> QED BY <1>2, <1>3, <1>5, <1>6 DEF t

\* The value of a, as it is written.
Valued(a) == Quotes(a) \o a.value \o Quotes(a)

\* A value as it is written, with its quotes or without.
LEMMA ValuedIs ==
  ASSUME NEW a \in Argument
  PROVE  /\ Valued(a) \in Seq(Piece) /\ a.value \in Seq(Piece) /\ a.quoted \in BOOLEAN
         /\ a.quoted => Valued(a) = (<<Quote>> \o a.value) \o <<Quote>>
         /\ ~a.quoted => Valued(a) = a.value
         /\ \A i \in 1..Len(a.value) : a.value[i] # Quote
  <1>1. a.value \in Seq(Letter) /\ a.quoted \in BOOLEAN
    BY DEF Argument
  <1>2. a.value \in Seq(Piece) /\ \A i \in 1..Len(a.value) : a.value[i] # Quote
    BY <1>1, LettersAre
  <1>3. CASE a.quoted
    <2>1. Quotes(a) = <<Quote>>
      BY <1>3 DEF Quotes
    <2>2. (<<Quote>> \o a.value) \o <<Quote>> \in Seq(Piece)
      BY <1>2, JoinQuoted
    <2> QED BY <1>1, <1>2, <1>3, <2>1, <2>2 DEF Valued
  <1>4. CASE ~a.quoted
    <2>1. Quotes(a) = <<>>
      BY <1>4 DEF Quotes
    <2>2. <<>> \o a.value \o <<>> = a.value
      BY <1>2, ConcatEmptySeq
    <2> QED BY <1>1, <1>2, <1>4, <2>1, <2>2 DEF Valued
  <1> QED BY <1>3, <1>4

\* As it was meant.
LEMMA WholeValue ==
  ASSUME NEW a \in Argument
  PROVE  /\ Opens(Valued(a)) = a.quoted /\ Closes(Valued(a)) = a.quoted
         /\ Join(Valued(a)) = Join(a.value)
  <1> DEFINE v == Valued(a)
  <1>1. CASE a.quoted
    <2>1. v = (<<Quote>> \o a.value) \o <<Quote>>
      BY <1>1, ValuedIs
    <2>2. /\ v \in Seq(Piece) /\ Len(v) = Len(a.value) + 2 /\ v[1] = Quote /\ v[Len(a.value) + 2] = Quote
          /\ Join(v) = Join(a.value) /\ Len(a.value) \in Nat
      BY <2>1, ValuedIs, JoinQuoted
    <2> HIDE DEF v
    <2>3. v # <<>> /\ Head(v) = Quote /\ v[Len(v)] = Quote
      BY <2>2
    <2>4. Opens(v) = TRUE /\ Closes(v) = TRUE
      BY <2>3 DEF Opens, Closes, Last
    <2> QED BY <1>1, <2>2, <2>4, ValuedIs DEF v
  <1>2. CASE ~a.quoted
    <2>1. Valued(a) = a.value /\ a.quoted = FALSE
      BY <1>2, ValuedIs
    <2>2. Opens(a.value) = FALSE /\ Closes(a.value) = FALSE
      BY ValuedIs, QuotesOfValue
    <2> QED BY <2>1, <2>2
  <1> QED BY <1>1, <1>2

\* What a cut can leave of the value of a: see CutValue.
CutValues(a) ==
  {P!Plain("")} \cup {[open |-> a.quoted, text |-> p, close |-> FALSE] : p \in Beginnings(a.value)}

LEMMA PartOfValue ==
  ASSUME NEW a \in Argument, NEW r \in 0..Len(Valued(a))
  PROVE  LET v == SubSeq(Valued(a), 1, r)
             x == PP!Unquote([open |-> Opens(v), text |-> Join(v), close |-> Closes(v)])
         IN  x = P!Plain(Join(a.value)) \/ x \in CutValues(a)
  <1> DEFINE v == SubSeq(Valued(a), 1, r)
             x == PP!Unquote([open |-> Opens(v), text |-> Join(v), close |-> Closes(v)])
             n == Len(a.value)
  <1> SUFFICES x = P!Plain(Join(a.value)) \/ x \in CutValues(a)
    OBVIOUS
  <1>0. n \in Nat
    BY ValuedIs
  <1>4. Quote \in Piece /\ <<Quote>> \in Seq(Piece) /\ Len(<<Quote>>) = 1
    BY PieceTypes, SinglePiece
  <1>1. CASE r = 0
    <2>1. v = <<>>
      BY <1>1
    <2>2. Opens(v) = FALSE /\ Closes(v) = FALSE /\ Join(v) = ""
      BY <2>1, JoinEmpty DEF Opens, Closes, NoText
    <2>3. x = P!Plain("")
      BY <2>2 DEF PP!Unquote, P!Plain
    <2> QED BY <2>3 DEF CutValues
  <1>2. CASE r # 0 /\ ~a.quoted
    <2>1. Valued(a) = a.value /\ r \in 1..n /\ a.quoted = FALSE
      BY <1>2, ValuedIs
    <2>2. v = SubSeq(a.value, 1, r)
      BY <2>1
    <2>3. Opens(v) = FALSE /\ Closes(v) = FALSE
      <3>1. v \in Seq(Piece) /\ Len(v) = r /\ \A i \in 1..r : v[i] = a.value[i]
        BY <2>1, <2>2, ValuedIs
      <3>2. \A i \in 1..r : v[i] # Quote
        BY <2>1, <3>1, ValuedIs
      <3> HIDE DEF v
      <3> QED BY <3>1, <3>2, QuotesOfValue
    <2>4. x = [open |-> a.quoted, text |-> Join(v), close |-> FALSE]
      <3> HIDE DEF v
      <3> QED BY <2>1, <2>3 DEF PP!Unquote
    <2>5. Join(v) \in Beginnings(a.value)
      BY <2>1, <2>2 DEF Beginnings
    <2> HIDE DEF x
    <2> QED BY <2>4, <2>5 DEF CutValues
  <1>3. CASE r # 0 /\ a.quoted
    <2> DEFINE t == <<Quote>> \o a.value
    <2>1. /\ Valued(a) = t \o <<Quote>> /\ t \in Seq(Piece) /\ Len(t) = n + 1 /\ t[1] = Quote
          /\ (\A i \in 1..n : t[i + 1] = a.value[i]) /\ Len(t \o <<Quote>>) = n + 2
          /\ a.quoted = TRUE
      BY <1>3, ValuedIs, JoinQuoted
    <2>2. CASE r = n + 2
      <3>1. v = Valued(a)
        BY <2>1, <2>2, ValuedIs, SubSeqFull
      <3>2. /\ Opens(v) = TRUE /\ Closes(v) = TRUE /\ Join(v) = Join(a.value)
        BY <2>1, <3>1, WholeValue
      <3> HIDE DEF v
      <3> QED BY <3>2 DEF PP!Unquote, PP!Plain, P!Plain
    <2>3. CASE r # n + 2
      <3>1. r \in 1..n + 1 /\ r - 1 \in 0..n
        BY <1>0, <1>3, <2>1, <2>3
      <3>2. v = SubSeq(t, 1, r)
        <4> HIDE DEF t
        <4>1. r \in 0..Len(t)
          BY <1>0, <2>1, <3>1
        <4> QED BY <1>4, <2>1, <4>1, PrefixOfFirst
      <3>3. SubSeq(t, 1, r) = <<Quote>> \o SubSeq(a.value, 1, r - 1)
        <4>1. a.value \in Seq(Piece) /\ 1 + (r - 1) = r
          BY <3>1, ValuedIs
        <4>2. SubSeq(<<Quote>> \o a.value, 1, Len(<<Quote>>) + (r - 1)) = <<Quote>> \o SubSeq(a.value, 1, r - 1)
          BY <1>4, <3>1, <4>1, PrefixBeyond
        <4> QED BY <1>4, <4>1, <4>2
      <3> DEFINE u == SubSeq(a.value, 1, r - 1)
      <3>4. u \in Seq(Piece) /\ Len(u) = r - 1 /\ \A i \in 1..r - 1 : u[i] # Quote
        <4>1. u \in Seq(Piece) /\ Len(u) = r - 1 /\ \A i \in 1..r - 1 : u[i] = a.value[i]
          BY <3>1, ValuedIs
        <4> QED BY <3>1, <4>1, ValuedIs
      <3>5. Join(u) \in Beginnings(a.value)
        BY <3>1 DEF Beginnings
      <3> HIDE DEF u, t
      <3>6. /\ v \in Seq(Piece) /\ Len(v) = r /\ v[1] = Quote /\ Join(v) = Join(u)
            /\ \A i \in 1..r - 1 : v[i + 1] = u[i]
        <4>1. v = <<Quote>> \o u
          BY <3>2, <3>3 DEF u
        <4> HIDE DEF v
        <4> QED BY <3>1, <3>4, <4>1, JoinQuoted
      <3> HIDE DEF v
      <3>7. Opens(v) = TRUE
        <4>1. v # <<>> /\ Head(v) = Quote
          BY <3>1, <3>6
        <4> QED BY <4>1 DEF Opens
      <3>8. CASE r = 1
        <4>1. u = <<>>
          BY <3>4, <3>8
        <4>2. Closes(v) = TRUE
          <5>1. v # <<>> /\ v[Len(v)] = Quote
            <6>1. Len(v) = 1 /\ v[1] = Quote /\ v \in Seq(Piece)
              BY <3>6, <3>8
            <6> QED BY <6>1
          <5> QED BY <5>1 DEF Closes, Last
        <4>3. Join(v) = ""
          BY <3>6, <4>1, JoinEmpty DEF NoText
        <4>4. x = P!Plain("")
          BY <3>7, <4>2, <4>3 DEF PP!Unquote, PP!Plain, P!Plain
        <4> HIDE DEF x
        <4> QED BY <4>4 DEF CutValues
      <3>9. CASE r # 1
        <4>1. v[r] = u[r - 1] /\ u[r - 1] # Quote
          <5>1. r - 1 \in 1..r - 1 /\ (r - 1) + 1 = r
            BY <3>1, <3>9
          <5> QED BY <3>4, <3>6, <5>1
        <4>2. Closes(v) = FALSE
          BY <3>6, <4>1 DEF Closes, Last
        <4>3. x = [open |-> a.quoted, text |-> Join(u), close |-> FALSE]
          BY <2>1, <3>6, <3>7, <4>2 DEF PP!Unquote
        <4> HIDE DEF x
        <4> QED BY <3>5, <4>3 DEF CutValues
      <3> QED BY <3>8, <3>9
    <2> QED BY <2>2, <2>3
  <1> QED BY <1>1, <1>2, <1>3

-----------------------------------------------------------------------------
(* The parser of a session is that of Protocol. *)

LEMMA SameWords ==
  /\ P!Types = PP!Types /\ P!Value = PP!Value /\ P!Word = PP!Word
  /\ \A t : P!Bare(t) = PP!Bare(t) /\ P!Plain(t) = PP!Plain(t)
  BY DEF P!Types, PP!Types, P!Value, PP!Value, P!Word, PP!Word, P!Bare, PP!Bare, P!Plain, PP!Plain

LEMMA SameSteps ==
  P!TakeCommand \/ P!TakeKey \/ P!TakePair \/ P!TakeName \/ P!TakeNoMore => PP!Next
  <1>0. (P!More <=> PP!More) /\ P!Next1 = PP!Next1
    BY DEF P!More, PP!More, P!Next1, PP!Next1
  <1>1. P!TakeCommand => PP!TakeCommand
    BY <1>0, SameWords DEF P!TakeCommand, PP!TakeCommand
  <1>2. P!TakeKey => PP!TakeKey
    BY <1>0 DEF P!TakeKey, PP!TakeKey
  <1>3. P!TakePair => PP!TakePair
    <2>1. P!Unquote(P!Next1.value) = PP!Unquote(PP!Next1.value)
      BY <1>0, SameWords DEF P!Unquote, PP!Unquote
    <2> QED BY <1>0, <2>1, SameWords DEF P!TakePair, PP!TakePair
  <1>4. P!TakeName => PP!TakeName
    BY <1>0 DEF P!TakeName, PP!TakeName
  <1>5. P!TakeNoMore => PP!TakeNoMore
    BY <1>0 DEF P!TakeNoMore, PP!TakeNoMore
  <1> QED BY <1>1, <1>2, <1>3, <1>4, <1>5 DEF PP!Next

\* What ProtocolProofs assumes: tokens, and no texts and commands of its own.
LEMMA ParserAssumptions ==
  /\ PP!Types \cup {""} \subseteq Token
  /\ Nil \notin PP!Value \cup {}
  /\ {} \subseteq Seq(PP!Word)
  BY SameWords, SessionTokenAssumption

LEMMA ParserKept ==
  PP!PInv /\ PP!WordsTaken /\ PP!NamesTaken /\ [PP!Next]_PP!vars =>
    PP!PInv' /\ PP!WordsTaken' /\ PP!NamesTaken'
  BY ParserAssumptions, PP!PInvStep, PP!WordsTakenStep, PP!NamesTakenStep

-----------------------------------------------------------------------------
\* The bytes of the command that is under way.
Data == SubSeq(stream, start + 1, consumed)

\* Outside of deserialize its locals are as at the start; inside, they are what
\* module Protocol makes of the words of the bytes.
ParserInv ==
  /\ at = "none" =>
       /\ text = <<>> /\ read = 0 /\ type = "INVALID" /\ key = P!Bare("")
       /\ fields = NoFields /\ fieldNames = <<>>
  /\ at # "none" =>
       /\ pc = "process" /\ text = Words(Data)
       /\ PP!PInv /\ PP!WordsTaken /\ PP!NamesTaken

LEMMA ParserInit == SessionInit => ParserInv
  BY DEF SessionInit, ParserInv

LEMMA BytesInStream ==
  ASSUME CInv, StreamInv
  PROVE  /\ start \in Nat /\ consumed \in Nat /\ start <= consumed
         /\ consumed <= Len(stream) /\ Len(stream) \in Nat
  BY DEF CInv, TypeOK, StreamInv

\* What is cut out of the stream are words.
LEMMA DataIsWords ==
  ASSUME CInv, StreamInv
  PROVE  Words(Data) \in Seq(PP!Word)
  <1>1. /\ Len(said) \in 0..MaxMessages
        /\ said \in [1..Len(said) -> Messages]
    <2>1. Len(said) \in Nat /\ said \in Seq(Messages)
      BY DEF StreamInv
    <2>2. Len(said) <= MaxMessages
      BY DEF StreamInv, CInv, TypeOK
    <2> QED BY <2>1, <2>2, MaxMessagesAssumption, LenProperties
  <1>2. start \in 0..Len(stream) /\ consumed \in start..Len(stream)
    BY BytesInStream
  <1>3. stream = StreamOf(said)
    BY DEF StreamInv
  <1>4. Words(SubSeq(stream, start + 1, consumed)) \in Seq(P!Word)
    BY <1>1, <1>2, <1>3, CutsAssumption
  <1> QED BY <1>4, SameWords DEF Data

LEMMA BeginStep ==
  ASSUME CInv, StreamInv, ParserInv, BeginProcess
  PROVE  ParserInv'
  <1>1. /\ pc = "process" /\ at = "none" /\ at' = "command"
        /\ UNCHANGED <<vars, stream, said, read, type, key, fields, fieldNames>>
    BY DEF BeginProcess, request
  <1>2. text' = Words(Data)
    BY DEF BeginProcess, Words, Data
  <1>3. Data' = Data /\ pc' = pc
    BY <1>1 DEF Data, vars
  <1>4. /\ read' = 0 /\ type' = "INVALID" /\ key' = PP!Bare("")
        /\ fields' = [t \in Token |-> Nil] /\ fieldNames' = <<>>
    BY <1>1, SameWords DEF ParserInv, NoFields
  <1>5. text' \in Seq(PP!Word) /\ Len(text') \in Nat
    BY <1>2, DataIsWords
  <1>6. PP!TypeOK'
    <2>1. PP!Bare("") \in PP!Word
      BY ParserAssumptions, PP!BareType
    <2>2. fields' \in [Token -> PP!Value \cup {Nil}]
      BY <1>4
    <2>3. fieldNames' \in Seq(PP!Word)
      BY <1>4, EmptySeq
    <2>4. read' \in 0..Len(text')
      <3>1. read' = 0
        BY <1>4
      <3> QED BY <1>5, <3>1
    <2>5. type' \in PP!Types \cup {"INVALID"} /\ key' \in PP!Word
      BY <1>4, <2>1
    <2>6. at' \in {"command", "key", "arguments", "done"} /\ Nil \in {} \cup {Nil}
      BY <1>1
    <2> QED BY <1>5, <2>2, <2>3, <2>4, <2>5, <2>6 DEF PP!TypeOK
  <1>7. PP!BeforeArguments'
    BY <1>1, <1>4 DEF PP!BeforeArguments
  <1>8. PP!LastAssignmentWins' /\ PP!NamesAreFields'
    BY <1>4 DEF PP!LastAssignmentWins, PP!NamesAreFields
  <1>9. PP!WordsTaken' /\ PP!NamesTaken'
    BY <1>1, <1>4 DEF PP!WordsTaken, PP!NamesTaken
  <1>10. PP!PInv'
    BY <1>6, <1>7, <1>8 DEF PP!PInv
  <1> QED BY <1>1, <1>2, <1>3, <1>9, <1>10 DEF ParserInv

LEMMA ParserStep ==
  CInv /\ StreamInv /\ ParserInv /\ [SessionNext]_svars => ParserInv'
  <1> SUFFICES ASSUME CInv, StreamInv, ParserInv, [SessionNext]_svars PROVE ParserInv'
    OBVIOUS
  <1>1. CASE BeginProcess
    BY <1>1, BeginStep
  <1>2. CASE Deserialize
    <2>1. UNCHANGED <<vars, stream>> /\ PP!Next
      BY <1>2, SameSteps DEF Deserialize
    <2>2. at # "none" /\ at' # "none"
      BY <1>2 DEF Deserialize, P!TakeCommand, P!TakeKey, P!TakePair, P!TakeName, P!TakeNoMore
    <2>3. PP!PInv' /\ PP!WordsTaken' /\ PP!NamesTaken'
      BY <2>1, <2>2, ParserKept DEF ParserInv
    <2>4. text' = text
      BY <1>2 DEF Deserialize, P!TakeCommand, P!TakeKey, P!TakePair, P!TakeName, P!TakeNoMore
    <2>5. Data' = Data /\ pc' = pc
      BY <2>1 DEF Data, vars
    <2> QED BY <2>2, <2>3, <2>4, <2>5 DEF ParserInv
  <1>3. CASE EndProcess
    BY <1>3 DEF EndProcess, ParserInv
  <1>4. CASE ~BeginProcess /\ ~Deserialize /\ ~EndProcess
    <2>1. UNCHANGED parser
      BY <1>4 DEF SessionNext, svars, Send, Segment, Thread
    <2>2. UNCHANGED <<text, read, at, type, key, fields, fieldNames>>
      BY <2>1 DEF parser, request
    <2>3. CASE at = "none"
      BY <2>2, <2>3 DEF ParserInv
    <2>4. CASE at # "none"
      <3>1. pc = "process"
        BY <2>4 DEF ParserInv
      <3>2. pc' = pc /\ UNCHANGED <<start, consumed>>
        BY <1>4, <3>1 DEF SessionNext, svars, vars, Send, Segment, Thread, Write, Deliver, Hangup,
                          Idle, Read, ReadError, ReadEnd
      <3>3. Data' = Data
        <4>1. CASE \E m \in Messages : Send(m)
          <5>1. PICK m \in Messages : stream' = stream \o Text(m)
            BY <4>1 DEF Send
          <5>2. start + 1 \in Nat \ {0} /\ consumed \in Nat /\ consumed <= Len(stream)
            BY BytesInStream
          <5>3. SubSeq(stream', start + 1, consumed) = SubSeq(stream, start + 1, consumed)
            BY <5>1, <5>2, StreamStays
          <5> QED BY <3>2, <5>3 DEF Data
        <4>2. CASE ~(\E m \in Messages : Send(m))
          <5>1. stream' = stream
            BY <1>4, <4>2 DEF SessionNext, svars, Segment, Thread
          <5> QED BY <3>2, <5>1 DEF Data
        <4> QED BY <4>1, <4>2
      <3>4. PP!PInv' /\ PP!WordsTaken' /\ PP!NamesTaken'
        <4>1. UNCHANGED PP!vars
          BY <2>2 DEF PP!vars
        <4> QED BY <2>4, <4>1, ParserKept DEF ParserInv
      <3> QED BY <2>2, <2>4, <3>1, <3>2, <3>3, <3>4 DEF ParserInv
    <2> QED BY <2>3, <2>4
  <1> QED BY <1>1, <1>2, <1>3, <1>4

-----------------------------------------------------------------------------
(* What is executed is what the bytes say. *)

\* Request e has what module Protocol makes of its bytes in stream s.
SaysIn(s, e) ==
  PP!Parsed(Words(SubSeq(s, e.from + 1, e.to)), e.type, e.key, e.fields, e.names)

\* The commands executed come one after the other in the stream, before the one that
\* is under way, and each was read from its bytes.
ExecutedInv ==
  /\ executed \in Seq(Request)
  /\ \A i \in 1..Len(executed) : executed[i].from <= executed[i].to /\ executed[i].to <= start
  /\ \A i, k \in 1..Len(executed) : i < k => executed[i].to <= executed[k].from
  /\ \A i \in 1..Len(executed) : SaysIn(stream, executed[i])

LEMMA ExecutedInit == SessionInit => ExecutedInv
  <1>1. <<>> \in Seq(Request) /\ Len(<<>>) = 0
    BY EmptySeq
  <1>2. SessionInit => executed = <<>>
    BY DEF SessionInit
  <1> QED BY <1>1, <1>2 DEF ExecutedInv

\* The command that ends.
Ended == [from |-> start, to |-> consumed, type |-> type,
          key |-> key, fields |-> fields, names |-> fieldNames]

LEMMA EndedIs ==
  ASSUME CInv, StreamInv, ParserInv, at = "done", type # "INVALID"
  PROVE  Ended \in Request /\ SaysIn(stream, Ended)
  <1>1. /\ text = Words(Data) /\ PP!TypeOK /\ PP!PInv /\ PP!WordsTaken /\ PP!NamesTaken
    BY DEF ParserInv, PP!PInv
  <1>2. PP!Parsed(text, type, key, fields, fieldNames)
    BY <1>1, ParserAssumptions, PP!ParsedWhenDone
  <1>3. start \in Nat /\ consumed \in Nat
    BY BytesInStream
  <1>4. type \in PP!Types /\ key \in PP!Word /\ fields \in [Token -> PP!Value \cup {Nil}]
        /\ fieldNames \in Seq(PP!Word)
    BY <1>1 DEF PP!TypeOK
  <1>5. Ended \in Request
    BY <1>3, <1>4, SameWords DEF Ended, Request
  <1>6. /\ Ended.from = start /\ Ended.to = consumed /\ Ended.type = type /\ Ended.key = key
        /\ Ended.fields = fields /\ Ended.names = fieldNames
    BY DEF Ended
  <1> QED BY <1>1, <1>2, <1>5, <1>6 DEF SaysIn, Data

LEMMA ExecutedStep ==
  CInv /\ StreamInv /\ ParserInv /\ ExecutedInv /\ [SessionNext]_svars => ExecutedInv'
  <1> SUFFICES ASSUME CInv, StreamInv, ParserInv, ExecutedInv, [SessionNext]_svars
               PROVE  ExecutedInv'
    OBVIOUS
  <1>0. executed \in Seq(Request) /\ Len(executed) \in Nat
    BY DEF ExecutedInv
  <1>1. ASSUME NEW i \in 1..Len(executed)
        PROVE  /\ executed[i].from \in Nat /\ executed[i].to \in Nat
               /\ executed[i].from <= executed[i].to /\ executed[i].to <= start
               /\ executed[i].to <= Len(stream)
    <2>1. executed[i] \in Request
      BY <1>0, ElementOfSeq
    <2>2. executed[i].from \in Nat /\ executed[i].to \in Nat
      BY <2>1 DEF Request
    <2> QED BY <2>2, BytesInStream DEF ExecutedInv
  <1>2. CASE EndProcess /\ type # "INVALID"
    <2>1. /\ executed' = Append(executed, Ended) /\ start' = consumed /\ stream' = stream
          /\ at = "done"
      BY <1>2 DEF EndProcess, Process, Ended
    <2>2. Ended \in Request /\ SaysIn(stream, Ended)
      BY <1>2, <2>1, EndedIs
    <2>3. Ended.from = start /\ Ended.to = consumed
      BY DEF Ended
    <2>4. /\ executed' \in Seq(Request) /\ Len(executed') = Len(executed) + 1
          /\ executed'[Len(executed) + 1] = Ended
          /\ \A i \in 1..Len(executed) : executed'[i] = executed[i]
      BY <1>0, <2>1, <2>2
    <2>5. start <= consumed /\ start \in Nat /\ consumed \in Nat
      BY BytesInStream
    <2>6. ASSUME NEW i \in 1..Len(executed')
          PROVE  /\ executed'[i].from <= executed'[i].to /\ executed'[i].to <= start'
                 /\ SaysIn(stream', executed'[i])
      <3>1. CASE i \in 1..Len(executed)
        BY <3>1, <1>1, <2>1, <2>4, <2>5 DEF ExecutedInv
      <3>2. CASE i = Len(executed) + 1
        BY <3>2, <2>1, <2>2, <2>3, <2>4, <2>5
      <3> QED BY <3>1, <3>2, <1>0, <2>4
    <2>7. ASSUME NEW i \in 1..Len(executed'), NEW k \in 1..Len(executed'), i < k
          PROVE  executed'[i].to <= executed'[k].from
      <3>1. i \in 1..Len(executed)
        BY <1>0, <2>4, <2>7
      <3>2. CASE k \in 1..Len(executed)
        BY <3>1, <3>2, <2>4, <2>7 DEF ExecutedInv
      <3>3. CASE k = Len(executed) + 1
        BY <3>1, <3>3, <1>1, <2>3, <2>4
      <3> QED BY <3>2, <3>3, <1>0, <2>4
    <2> QED BY <2>4, <2>6, <2>7 DEF ExecutedInv
  <1>3. CASE ~(EndProcess /\ type # "INVALID")
    <2>1. executed' = executed
      BY <1>3 DEF SessionNext, svars, Send, Segment, Thread, BeginProcess, Deserialize, EndProcess
    <2>2. start' \in Nat /\ start <= start'
      <3>1. start' \in {start, consumed}
        BY <1>3 DEF SessionNext, svars, vars, Send, Segment, Thread, BeginProcess, Deserialize,
                    EndProcess, Write, Deliver, Hangup, Idle, Read, ReadError, ReadEnd, Process
      <3> QED BY <3>1, BytesInStream
    <2>3. ASSUME NEW i \in 1..Len(executed) PROVE SaysIn(stream', executed[i])
      <3>1. CASE \E m \in Messages : Send(m)
        <4>1. PICK m \in Messages : stream' = stream \o Text(m)
          BY <3>1 DEF Send
        <4>2. executed[i].from + 1 \in Nat \ {0}
          BY <1>1
        <4>3. SubSeq(stream', executed[i].from + 1, executed[i].to) =
                SubSeq(stream, executed[i].from + 1, executed[i].to)
          <5>1. executed[i].to \in Nat /\ executed[i].to <= Len(stream)
            BY <1>1
          <5> QED BY <4>1, <4>2, <5>1, StreamStays
        <4> QED BY <4>3 DEF ExecutedInv, SaysIn
      <3>2. CASE ~(\E m \in Messages : Send(m))
        <4>1. stream' = stream
          BY <3>2 DEF SessionNext, svars, Segment, Thread, BeginProcess, Deserialize, EndProcess
        <4> QED BY <4>1 DEF ExecutedInv
      <3> QED BY <3>1, <3>2
    <2>4. ASSUME NEW i \in 1..Len(executed) PROVE executed[i].to <= start'
      BY <1>1, <2>2, BytesInStream
    <2> QED BY <2>1, <2>3, <2>4 DEF ExecutedInv
  <1> QED BY <1>2, <1>3

\* The inductive invariant of Session.
SInv == CInv /\ StreamInv /\ ParserInv /\ ExecutedInv

\* A connection with its text keeps all of SInv, wherever TCP cuts the stream.
THEOREM SessionInvariant == SessionSpec => []SInv
  <1>1. SessionInit => SInv
    BY CInvInit, StreamInit, ParserInit, ExecutedInit DEF SInv, SessionInit
  <1>2. SInv /\ [SessionNext]_svars => SInv'
    BY SessionStep, CInvStep, StreamStep, ParserStep, ExecutedStep DEF SInv
  <1> QED BY <1>1, <1>2, PTL DEF SessionSpec

\* The connection, the parser's locals and the commands executed keep their types.
THEOREM SessionTypes == SessionSpec => []SessionTypeOK
  <1>1. ASSUME SInv PROVE SessionTypeOK
    <2>1. TypeOK /\ Len(stream) = Sent /\ said \in Seq(Messages) /\ Len(said) = Len(ends)
          /\ cuts \in 0..MaxCuts /\ executed \in Seq(Request)
      BY <1>1 DEF SInv, CInv, StreamInv, ExecutedInv
    <2>2. /\ text \in Seq(P!Word) /\ read \in 0..Len(text)
          /\ at \in {"none", "command", "key", "arguments", "done"}
          /\ at # "none" => pc = "process"
      <3>1. CASE at = "none"
        <4>1. text = <<>> /\ read = 0
          BY <1>1, <3>1 DEF SInv, ParserInv
        <4> QED BY <3>1, <4>1, EmptySeq
      <3>2. CASE at # "none"
        <4>1. PP!TypeOK /\ pc = "process"
          BY <1>1, <3>2 DEF SInv, ParserInv, PP!PInv
        <4> QED BY <4>1, SameWords DEF PP!TypeOK
      <3> QED BY <3>1, <3>2
    <2> QED BY <2>1, <2>2 DEF SessionTypeOK
  <1>2. SInv => SessionTypeOK
    BY <1>1
  <1> QED BY <1>2, SessionInvariant, PTL

\* However TCP cuts or joins the commands, no byte is executed in two of them, and
\* what is executed is what the bytes between its ends say: the first word is the
\* command, the second the key, and each field has its last value (Server::handleClient,
\* Protocol::deserialize).
THEOREM ExecutesItsBytes ==
  SessionSpec =>
    [](/\ \A i \in 1..Len(executed) : SaysIn(stream, executed[i])
       /\ \A i, k \in 1..Len(executed) : i < k => executed[i].to <= executed[k].from)
  <1>1. SInv => /\ \A i \in 1..Len(executed) : SaysIn(stream, executed[i])
                /\ \A i, k \in 1..Len(executed) : i < k => executed[i].to <= executed[k].from
    BY DEF SInv, ExecutedInv
  <1> QED BY <1>1, SessionInvariant, PTL

\* No two commands that are executed start with the same message (the second half of
\* HeadsOnce).
THEOREM NoneTwice ==
  SessionSpec =>
    [](\A j \in 1..Len(said) : \A i, k \in 1..Len(executed) :
         StartsWith(executed[i], j) /\ StartsWith(executed[k], j) => i = k)
  <1>1. ASSUME SInv, NEW j \in 1..Len(said), NEW i \in 1..Len(executed), NEW k \in 1..Len(executed),
               StartsWith(executed[i], j), StartsWith(executed[k], j), i < k
        PROVE  FALSE
    <2>1. executed[i].to <= executed[k].from
      BY <1>1 DEF SInv, ExecutedInv
    <2>2. executed[i] \in Request /\ executed[k] \in Request
      BY <1>1, ElementOfSeq DEF SInv, ExecutedInv
    <2>3. executed[i].to \in Nat /\ executed[k].from \in Nat
      BY <2>2 DEF Request
    <2>4. End(j - 1) \in Nat
      BY <1>1 DEF SInv, StreamInv
    <2>5. executed[k].from <= End(j - 1) /\ End(j - 1) < executed[i].to
      BY <1>1 DEF StartsWith
    <2> QED BY <2>1, <2>3, <2>4, <2>5
  <1>2. SInv => \A j \in 1..Len(said) : \A i, k \in 1..Len(executed) :
                  StartsWith(executed[i], j) /\ StartsWith(executed[k], j) => i = k
    <2> SUFFICES ASSUME SInv, NEW j \in 1..Len(said), NEW i \in 1..Len(executed),
                        NEW k \in 1..Len(executed),
                        StartsWith(executed[i], j), StartsWith(executed[k], j)
                 PROVE  i = k
      OBVIOUS
    <2>1. ~(i < k) /\ ~(k < i)
      BY <1>1
    <2>2. Len(executed) \in Nat
      BY DEF SInv, ExecutedInv
    <2> QED BY <2>1, <2>2
  <1> QED BY <1>2, SessionInvariant, PTL

-----------------------------------------------------------------------------
(* What a message means, as words. *)

LEMMA SameMax == \A S : PP!Max(S) = Max(S)
  BY DEF Max, PP!Max

\* What the fold of FieldsOf is: g is a function on sets of arguments, and g[s] has
\* the fields after those of s, from the first on.
Assign(f, a) == [f EXCEPT ![Join(a.field)] = P!Plain(Join(a.value))]
AssignAll(g, args) ==
  g = [s \in SUBSET (DOMAIN args) |->
         IF s = {} THEN NoFields ELSE Assign(g[s \ {Max(s)}], args[Max(s)])]

LEMMA FieldsUnfolded ==
  ASSUME NEW m, NEW k, m.type = "SET_FIELDS"
  PROVE  FieldsOf(m, k) = (CHOOSE g : AssignAll(g, SubSeq(m.args, 1, k)))[DOMAIN SubSeq(m.args, 1, k)]
  BY DEF FieldsOf, FoldLeft, MapThenFoldSet, AssignAll, Assign

\* Which of the arguments in s are for field t, and the fields that they give.
Of(args, s, t) == {i \in s : Join(args[i].field) = t}
FieldsBy(args, s) ==
  [t \in Token |-> IF Of(args, s, t) = {} THEN Nil
                   ELSE P!Plain(Join(args[Max(Of(args, s, t))].value))]

\* The fold of assignments takes one argument more.
LEMMA AssignOne ==
  ASSUME NEW args, NEW n \in Nat, NEW s \in SUBSET (1..n), NEW j \in s, \A i \in s : i <= j
  PROVE  Assign(FieldsBy(args, s \ {j}), args[j]) = FieldsBy(args, s)
  <1> DEFINE r == s \ {j}
             f == Assign(FieldsBy(args, r), args[j])
  <1>1. f = [FieldsBy(args, r) EXCEPT ![Join(args[j].field)] = P!Plain(Join(args[j].value))]
    BY DEF Assign
  <1>2. ASSUME NEW t \in Token PROVE f[t] = FieldsBy(args, s)[t]
    <2>1. CASE t = Join(args[j].field)
      <3>1. f[t] = P!Plain(Join(args[j].value))
        <4>1. t \in DOMAIN FieldsBy(args, r)
          BY DEF FieldsBy
        <4> QED BY <1>1, <2>1, <4>1
      <3>2. j \in Of(args, s, t) /\ Of(args, s, t) \in SUBSET (1..n)
        BY <2>1 DEF Of
      <3>3. \A i \in Of(args, s, t) : i <= j
        BY DEF Of
      <3>4. Max(Of(args, s, t)) = j
        BY <3>2, <3>3, MaxIs
      <3> QED BY <3>1, <3>2, <3>4 DEF FieldsBy
    <2>2. CASE t # Join(args[j].field)
      <3>1. f[t] = FieldsBy(args, r)[t]
        <4>1. t \in DOMAIN FieldsBy(args, r)
          BY DEF FieldsBy
        <4> QED BY <1>1, <2>2, <4>1
      <3>2. Of(args, r, t) = Of(args, s, t)
        BY <2>2 DEF Of
      <3> QED BY <3>1, <3>2 DEF FieldsBy
    <2> QED BY <2>1, <2>2
  <1>3. DOMAIN f = Token /\ f = [t \in DOMAIN f |-> f[t]]
    BY <1>1 DEF FieldsBy
  <1>4. FieldsBy(args, s) = [t \in Token |-> FieldsBy(args, s)[t]]
    BY DEF FieldsBy
  <1> HIDE DEF f
  <1>5. f = FieldsBy(args, s)
    BY <1>2, <1>3, <1>4
  <1> QED BY <1>5 DEF f

\* The fields of the first n arguments of a message: each has the value of its last.
LEMMA FieldsOfIs ==
  ASSUME NEW S, NEW m, m.type = "SET_FIELDS", m.args \in Seq(S), NEW n \in 0..Len(m.args)
  PROVE  FieldsOf(m, n) = FieldsBy(m.args, 1..n)
  <1> DEFINE args == SubSeq(m.args, 1, n)
             g == [s \in SUBSET (1..n) |-> FieldsBy(args, s)]
  <1>1. \A i \in 1..n : args[i] = m.args[i]
    OBVIOUS
  <1>0. n \in Nat /\ DOMAIN args = 1..n
    OBVIOUS
  <1> HIDE DEF args
  <1>2. ASSUME NEW s \in SUBSET (1..n), s # {}
        PROVE  Max(s) \in s /\ (\A y \in s : y <= Max(s)) /\ Max(s) \in Nat
    <2>1. Max(s) \in s /\ (\A y \in s : y <= Max(s))
      BY <1>0, <1>2, GreatestOf
    <2>2. Max(s) \in 1..n
      BY <2>1
    <2> QED BY <2>1, <2>2
  <1>3. FieldsBy(args, {}) = NoFields
    BY DEF FieldsBy, Of, NoFields
  <1>4. AssignAll(g, args)
    <2>1. ASSUME NEW s \in SUBSET (1..n)
          PROVE  g[s] = IF s = {} THEN NoFields ELSE Assign(g[s \ {Max(s)}], args[Max(s)])
      <3>1. CASE s = {}
        BY <1>3, <3>1
      <3>2. CASE s # {}
        <4>1. Max(s) \in s /\ \A y \in s : y <= Max(s)
          BY <1>2, <3>2
        <4>2. g[s \ {Max(s)}] = FieldsBy(args, s \ {Max(s)})
          OBVIOUS
        <4> QED BY <1>0, <3>2, <4>1, <4>2, AssignOne
      <3> QED BY <3>1, <3>2
    <2> QED BY <1>0, <2>1 DEF AssignAll
  <1>5. PICK f : f = (CHOOSE h : AssignAll(h, args)) /\ AssignAll(f, args)
    BY <1>4
  <1>6. ASSUME NEW s \in SUBSET (1..n)
        PROVE  f[s] = IF s = {} THEN NoFields ELSE Assign(f[s \ {Max(s)}], args[Max(s)])
    <2>1. f = [r \in SUBSET (DOMAIN args) |->
                 IF r = {} THEN NoFields ELSE Assign(f[r \ {Max(r)}], args[Max(r)])]
      BY <1>5 DEF AssignAll
    <2>2. s \in SUBSET (DOMAIN args)
      BY <1>0
    <2> HIDE <1>5
    <2> QED BY <2>1, <2>2
  <1>7. \A s \in SUBSET (1..n) : f[s] = FieldsBy(args, s)
    <2> DEFINE Bad == {s \in SUBSET (1..n) : f[s] # FieldsBy(args, s)}
               T   == {Max(s) : s \in Bad}
    <2> SUFFICES ASSUME Bad # {} PROVE FALSE
      OBVIOUS
    <2>1. {} \notin Bad
      BY <1>3, <1>6
    <2>2. T \in SUBSET Nat /\ T # {}
      BY <1>2, <2>1
    <2>3. PICK t \in T : \A u \in T : t <= u
      <3> HIDE DEF T
      <3> QED BY <2>2, LeastOf
    <2>4. PICK s \in Bad : t = Max(s)
      OBVIOUS
    <2>5. s # {} /\ s \in SUBSET (1..n)
      BY <2>1
    <2>6. Max(s) \in s /\ (\A y \in s : y <= Max(s)) /\ Max(s) \in Nat
      BY <1>2, <2>5
    <2>7. s \ {Max(s)} \notin Bad
      <3> DEFINE r == s \ {Max(s)}
      <3>1. CASE r = {}
        BY <2>1, <3>1
      <3>2. CASE r # {}
        <4>1. Max(r) \in r /\ r \in SUBSET (1..n) /\ Max(r) \in Nat
          BY <1>2, <2>5, <3>2
        <4>2. Max(r) < Max(s)
          BY <2>6, <4>1
        <4>3. r \in Bad => Max(s) <= Max(r)
          <5>1. r \in Bad => Max(r) \in T
            OBVIOUS
          <5> HIDE DEF T, Bad, r
          <5> QED BY <2>3, <2>4, <5>1
        <4>4. ~(Max(s) <= Max(r))
          BY <2>6, <4>1, <4>2
        <4> QED BY <4>3, <4>4
      <3> QED BY <3>1, <3>2
    <2>8. f[s \ {Max(s)}] = FieldsBy(args, s \ {Max(s)})
      BY <2>5, <2>7
    <2>9. f[s] = Assign(f[s \ {Max(s)}], args[Max(s)])
      BY <1>6, <2>5
    <2>10. f[s] = FieldsBy(args, s)
      BY <1>0, <2>5, <2>6, <2>8, <2>9, AssignOne
    <2> QED BY <2>4, <2>10
  <1>8. FieldsBy(args, 1..n) = FieldsBy(m.args, 1..n)
    <2>1. ASSUME NEW t \in Token
          PROVE  /\ Of(args, 1..n, t) = Of(m.args, 1..n, t)
                 /\ Of(args, 1..n, t) # {} =>
                      args[Max(Of(args, 1..n, t))] = m.args[Max(Of(args, 1..n, t))]
      <3>1. Of(args, 1..n, t) = Of(m.args, 1..n, t)
        BY <1>1 DEF Of
      <3>2. Of(args, 1..n, t) \in SUBSET (1..n)
        BY DEF Of
      <3>3. Of(args, 1..n, t) # {} => Max(Of(args, 1..n, t)) \in 1..n
        BY <1>2, <3>2
      <3> QED BY <1>1, <3>1, <3>3
    <2> QED BY <2>1 DEF FieldsBy
  <1> QED BY <1>0, <1>5, <1>7, <1>8, FieldsUnfolded DEF args

\* The words of an argument as it was meant.
MeantWord(m, a) ==
  IF m.type = "SET_FIELDS"
  THEN [name |-> Join(a.field), eq |-> TRUE,
        value |-> [open |-> a.quoted, text |-> Join(a.value), close |-> a.quoted]]
  ELSE P!Bare(Join(a.field))

\* The words that a message means, one by one.
LEMMA MeantWordsAre ==
  ASSUME NEW m \in Messages
  PROVE  /\ m.type \in P!Types /\ Len(m.args) \in Nat
         /\ \A i \in 1..Len(m.args) : m.args[i].quoted \in BOOLEAN
         /\ Len(MeantWords(m)) = Len(m.args) + 2
         /\ MeantWords(m) = [i \in 1..Len(m.args) + 2 |-> MeantWords(m)[i]]
         /\ MeantWords(m)[1] = P!Bare(m.type) /\ MeantWords(m)[2] = P!Bare(Join(m.key))
         /\ \A i \in 1..Len(m.args) : MeantWords(m)[i + 2] = MeantWord(m, m.args[i])
  <1> DEFINE n == Len(m.args)
             W == [i \in 1..n |-> MeantWord(m, m.args[i])]
             S == {W[i] : i \in 1..n} \cup {P!Bare(m.type), P!Bare(Join(m.key))}
             first == <<P!Bare(m.type), P!Bare(Join(m.key))>>
  <1>1. m.type \in P!Types /\ n \in Nat /\ \A i \in 1..n : m.args[i] \in Argument
    BY MessageType
  <1>2. n \in Nat
    BY <1>1
  <1>3. \A i \in 1..n : m.args[i].quoted \in BOOLEAN
    BY <1>1 DEF Argument
  <1>4. W \in Seq(S) /\ Len(W) = n
    <2>1. W = [i \in 1..n |-> W[i]] /\ \A i \in 1..n : W[i] \in S
      OBVIOUS
    <2> HIDE DEF W, S
    <2>2. \A k \in Nat : \A f : f = [i \in 1..k |-> f[i]] /\ (\A i \in 1..k : f[i] \in S)
                            => f \in Seq(S)
      OBVIOUS
    <2>3. W \in Seq(S) /\ DOMAIN W = 1..n
      BY <1>2, <2>1, <2>2
    <2> QED BY <1>2, <2>3, LenProperties
  <1>5. first \in Seq(S) /\ Len(first) = 2
        /\ first[1] = P!Bare(m.type) /\ first[2] = P!Bare(Join(m.key))
    OBVIOUS
  <1>6. MeantWords(m) = first \o W
    BY DEF MeantWords, MeantWord
  <1>7. \A i \in 1..n : W[i] = MeantWord(m, m.args[i])
    OBVIOUS
  <1> HIDE DEF W, S, first
  <1>8. /\ Len(MeantWords(m)) = 2 + n
        /\ \A i \in 1..2 + n : MeantWords(m)[i] = IF i <= 2 THEN first[i] ELSE W[i - 2]
    <2>1. /\ Len(first \o W) = Len(first) + Len(W)
          /\ \A i \in 1..Len(first) + Len(W) :
               (first \o W)[i] = IF i <= Len(first) THEN first[i] ELSE W[i - Len(first)]
      <3>1. first \in Seq(S) /\ W \in Seq(S)
        BY <1>4, <1>5
      <3> QED BY <3>1, ConcatProperties
    <2> QED BY <1>4, <1>5, <1>6, <2>1, Zenon
  <1>9. MeantWords(m)[1] = first[1] /\ MeantWords(m)[2] = first[2]
    BY <1>2, <1>8
  <1>10. ASSUME NEW i \in 1..n PROVE MeantWords(m)[i + 2] = W[i]
    BY <1>2, <1>8
  <1>11. MeantWords(m) = [i \in 1..n + 2 |-> MeantWords(m)[i]]
    <2>1. MeantWords(m) \in Seq(S) /\ Len(MeantWords(m)) = n + 2
      BY <1>2, <1>4, <1>5, <1>6, <1>8
    <2> QED BY <2>1, LenProperties
  <1>12. Len(MeantWords(m)) = n + 2 /\ \A i \in 1..n : MeantWords(m)[i + 2] = MeantWord(m, m.args[i])
    BY <1>2, <1>7, <1>8, <1>10
  <1> QED BY <1>1, <1>3, <1>5, <1>9, <1>11, <1>12

\* The first n pairs of a SET_FIELDS, as words: whose they are, and what they give.
PairsOf(w, n, t) == {i \in 3..n + 2 : w[i].eq /\ w[i].name = t}

LEMMA PairsMeant ==
  ASSUME NEW m \in Messages, m.type = "SET_FIELDS", NEW n \in 0..Len(m.args),
         NEW w, Len(w) \in Nat, n + 2 <= Len(w),
         \A i \in 1..n : w[i + 2] = MeantWord(m, m.args[i]), NEW t
  PROVE  LET A == PairsOf(w, n, t)
             B == Of(m.args, 1..n, t)
         IN  /\ A = {} <=> B = {}
             /\ B # {} => /\ Max(A) \in A /\ (\A i \in A : i <= Max(A)) /\ Max(A) \in 3..n + 2
                          /\ PP!Unquote(w[Max(A)].value) = P!Plain(Join(m.args[Max(B)].value))
  <1> DEFINE A == PairsOf(w, n, t)
             B == Of(m.args, 1..n, t)
             args == m.args
  <1> SUFFICES /\ A = {} <=> B = {}
               /\ B # {} => /\ Max(A) \in A /\ (\A i \in A : i <= Max(A)) /\ Max(A) \in 3..n + 2
                            /\ PP!Unquote(w[Max(A)].value) = P!Plain(Join(args[Max(B)].value))
    OBVIOUS
  <1>0. n \in Nat
    BY MessageType
  <1>1. ASSUME NEW i \in 1..n
        PROVE  /\ w[i + 2].eq = TRUE /\ w[i + 2].name = Join(args[i].field)
               /\ PP!Unquote(w[i + 2].value) = P!Plain(Join(args[i].value))
    <2> DEFINE v == [open |-> args[i].quoted, text |-> Join(args[i].value),
                     close |-> args[i].quoted]
    <2>1. w[i + 2] = [name |-> Join(args[i].field), eq |-> TRUE, value |-> v]
      BY DEF MeantWord
    <2>2. PP!Unquote(v) = P!Plain(Join(args[i].value))
      <3>1. args[i].quoted \in BOOLEAN
        BY <1>0, MeantWordsAre
      <3> QED BY <3>1 DEF PP!Unquote, PP!Plain, P!Plain
    <2> HIDE DEF v
    <2> QED BY <2>1, <2>2
  <1>2. A \in SUBSET (1..n + 2) /\ B \in SUBSET (1..n) /\ A \in SUBSET Nat
    BY <1>0 DEF Of, PairsOf
  <1>3. ASSUME NEW i \in 1..n PROVE i + 2 \in A <=> i \in B
    <2>1. i + 2 \in 3..n + 2
      BY <1>0
    <2> QED BY <1>1, <2>1 DEF Of, PairsOf
  <1>4. \A i \in A : i - 2 \in B
    <2> SUFFICES ASSUME NEW i \in A PROVE i - 2 \in B
      OBVIOUS
    <2>1. i \in 3..n + 2
      BY DEF PairsOf
    <2>2. i - 2 \in 1..n /\ (i - 2) + 2 = i
      BY <1>0, <2>1
    <2> HIDE DEF A, B
    <2> QED BY <1>3, <2>2
  <1> HIDE DEF A, B
  <1>5. A = {} <=> B = {}
    <2>1. \A i \in B : i \in 1..n /\ i + 2 \in A
      BY <1>2, <1>3
    <2> QED BY <1>4, <2>1
  <1>6. ASSUME B # {}
        PROVE  /\ Max(A) \in A /\ (\A i \in A : i <= Max(A)) /\ Max(A) \in 3..n + 2
               /\ PP!Unquote(w[Max(A)].value) = P!Plain(Join(args[Max(B)].value))
    <2>1. Max(B) \in B /\ \A i \in B : i <= Max(B)
      BY <1>0, <1>2, <1>6, GreatestOf
    <2>2. Max(B) \in 1..n /\ Max(B) + 2 \in A
      BY <1>2, <1>3, <2>1
    <2>3. ASSUME NEW i \in A PROVE i <= Max(B) + 2
      <3>1. i - 2 <= Max(B) /\ i \in Nat
        BY <1>2, <1>4, <2>1
      <3> QED BY <1>0, <2>2, <3>1
    <2>4. Max(A) = Max(B) + 2
      BY <1>2, <2>2, <2>3, MaxIs
    <2>5. Max(B) + 2 \in 3..n + 2
      BY <1>0, <2>2
    <2> QED BY <1>1, <2>2, <2>3, <2>4, <2>5
  <1> QED BY <1>5, <1>6

\* What the last '=' gives each field, in words w: see PP!Parsed.
LastGives(w, fs) ==
  /\ fs = [t \in Token |-> fs[t]]
  /\ \A t \in Token : fs[t] = IF PP!Assigning(w, t) = {} THEN Nil
                              ELSE PP!Unquote(w[Max(PP!Assigning(w, t))].value)

\* The fields are those of the first n arguments, if their words come first and no
\* other has a '=', or one more does.
LEMMA PairsGive ==
  ASSUME NEW m \in Messages, m.type = "SET_FIELDS", NEW n \in 0..Len(m.args),
         NEW w, Len(w) \in Nat, n + 2 <= Len(w),
         \A i \in 1..n : w[i + 2] = MeantWord(m, m.args[i]), NEW fs, LastGives(w, fs)
  PROVE  /\ (\A i \in n + 3..Len(w) : w[i].eq = FALSE) => fs = FieldsOf(m, n)
         /\ Len(w) = n + 3 /\ w[n + 3].eq = TRUE =>
              fs = [FieldsOf(m, n) EXCEPT ![w[n + 3].name] = PP!Unquote(w[n + 3].value)]
  <1> DEFINE A(t) == PairsOf(w, n, t)
             B(t) == Of(m.args, 1..n, t)
             F == FieldsBy(m.args, 1..n)
  <1>0. n \in Nat /\ FieldsOf(m, n) = F
    <2>1. m.args \in Seq(Argument) /\ n \in Nat
      BY MessageType
    <2> QED BY <2>1, FieldsOfIs
  <1>1. ASSUME NEW t
        PROVE  /\ A(t) = {} <=> B(t) = {}
               /\ B(t) # {} => /\ Max(A(t)) \in A(t) /\ (\A i \in A(t) : i <= Max(A(t)))
                               /\ Max(A(t)) \in 3..n + 2
                               /\ PP!Unquote(w[Max(A(t))].value) = P!Plain(Join(m.args[Max(B(t))].value))
    <2> HIDE DEF F
    <2> QED BY PairsMeant
  <1>2. \A t \in Token : F[t] = IF A(t) = {} THEN Nil ELSE PP!Unquote(w[Max(A(t))].value)
    <2>1. \A t \in Token : F[t] = IF B(t) = {} THEN Nil ELSE P!Plain(Join(m.args[Max(B(t))].value))
      BY DEF FieldsBy
    <2> HIDE DEF A, B, F
    <2> QED BY <1>1, <2>1
  <1>3. fs = [t \in Token |-> fs[t]] /\ F = [t \in Token |-> F[t]]
    BY DEF LastGives, FieldsBy
  <1>4. \A t \in Token : fs[t] = IF PP!Assigning(w, t) = {} THEN Nil
                                 ELSE PP!Unquote(w[Max(PP!Assigning(w, t))].value)
    BY DEF LastGives
  <1>5. ASSUME \A i \in n + 3..Len(w) : w[i].eq = FALSE PROVE fs = F
    <2>1. ASSUME NEW t PROVE PP!Assigning(w, t) = A(t)
      <3>1. \A i \in 3..Len(w) : i \in 3..n + 2 \/ i \in n + 3..Len(w)
        BY <1>0
      <3>2. \A i \in 3..n + 2 : i \in 3..Len(w)
        BY <1>0
      <3> QED BY <1>5, <3>1, <3>2 DEF PP!Assigning, PairsOf
    <2> HIDE DEF A, B, F
    <2>2. \A t \in Token : fs[t] = F[t]
      BY <1>2, <1>4, <2>1
    <2> QED BY <1>3, <2>2
  <1>6. ASSUME Len(w) = n + 3, w[n + 3].eq = TRUE
        PROVE  fs = [F EXCEPT ![w[n + 3].name] = PP!Unquote(w[n + 3].value)]
    <2> DEFINE last == w[n + 3]
               G == [F EXCEPT ![last.name] = PP!Unquote(last.value)]
    <2>1. ASSUME NEW t
          PROVE  PP!Assigning(w, t) = IF last.name = t THEN A(t) \cup {n + 3} ELSE A(t)
      <3>1. \A i : i \in 3..Len(w) <=> i \in 3..n + 2 \/ i = n + 3
        BY <1>0, <1>6
      <3> QED BY <1>6, <3>1 DEF PP!Assigning, PairsOf
    <2>2. ASSUME NEW t, last.name = t PROVE Max(PP!Assigning(w, t)) = n + 3
      <3>1. \A i \in A(t) : i \in Nat /\ i <= n + 3
        BY <1>0 DEF PairsOf
      <3> HIDE DEF A
      <3>2. PP!Assigning(w, t) \in SUBSET Nat /\ n + 3 \in PP!Assigning(w, t)
            /\ \A i \in PP!Assigning(w, t) : i <= n + 3
        BY <1>0, <2>1, <2>2, <3>1
      <3> QED BY <3>2, MaxIs
    <2>3. DOMAIN G = Token /\ G = [t \in Token |-> G[t]]
      BY <1>3
    <2>4. ASSUME NEW t \in Token
          PROVE  G[t] = IF last.name = t THEN PP!Unquote(last.value) ELSE F[t]
      BY <1>3
    <2> HIDE DEF A, B, F, G, last
    <2>5. ASSUME NEW t \in Token PROVE fs[t] = G[t]
      <3>1. CASE last.name = t
        <4>1. PP!Assigning(w, t) # {}
          BY <2>1, <3>1
        <4> QED BY <1>4, <2>2, <2>4, <3>1, <4>1 DEF last
      <3>2. CASE last.name # t
        <4>1. PP!Assigning(w, t) = A(t)
          BY <2>1, <3>2
        <4> QED BY <1>2, <1>4, <2>4, <3>2, <4>1
      <3> QED BY <3>1, <3>2
    <2>6. fs = G
      BY <1>3, <2>3, <2>5
    <2> QED BY <2>6 DEF G, last
  <1> QED BY <1>0, <1>5, <1>6

\* The pairs that m writes for SET_FIELDS, and its parts.
LEMMA PairIs ==
  ASSUME NEW m, m.type = "SET_FIELDS", NEW a \in Argument
  PROVE  /\ WrittenWord(m, a) = (a.field \o <<"=">>) \o Valued(a)
         /\ a.field \in Seq(Piece) /\ a.field \o <<"=">> \in Seq(Piece)
         /\ Len(a.field) \in Nat /\ Len(a.field \o <<"=">>) = Len(a.field) + 1
         /\ \A i \in 1..Len(a.field) : a.field[i] # "=" /\ a.field[i] # Quote
  <1>1. a.field \in Seq(Letter)
    BY DEF Argument
  <1>2. a.field \in Seq(Piece) /\ \A i \in 1..Len(a.field) : a.field[i] # "=" /\ a.field[i] # Quote
    BY <1>1, LettersAre
  <1> DEFINE f == a.field \o <<"=">>
             q == Quotes(a)
             v == a.value
  <1>3. f \in Seq(Piece) /\ Len(f) = Len(a.field) + 1 /\ Len(a.field) \in Nat
    BY <1>2, EqualsType
  <1>4. q \in Seq(Piece) /\ v \in Seq(Piece)
    BY QuotesType, ValuedIs
  <1>5. WrittenWord(m, a) = ((f \o q) \o v) \o q
    BY DEF WrittenWord, Quotes
  <1>6. Valued(a) = (q \o v) \o q
    BY DEF Valued
  <1> HIDE DEF f, q, v
  <1>7. ((f \o q) \o v) \o q = f \o ((q \o v) \o q)
    <2>0. f \in Seq(Piece)
      BY <1>3
    <2>1. (f \o q) \o v = f \o (q \o v)
      BY <1>4, <2>0, ConcatAssociative
    <2>2. q \o v \in Seq(Piece)
      BY <1>4, ConcatProperties
    <2>3. (f \o (q \o v)) \o q = f \o ((q \o v) \o q)
      BY <1>4, <2>0, <2>2, ConcatAssociative
    <2> QED BY <2>1, <2>3
  <1> QED BY <1>2, <1>3, <1>5, <1>6, <1>7 DEF f

\* What is written is read as it was meant, word by word,
LEMMA WrittenMeant ==
  ASSUME NEW m \in Messages
  PROVE  /\ WordOf(Written(m)[1]) = P!Bare(m.type)
         /\ WordOf(Written(m)[2]) = P!Bare(Join(m.key))
         /\ \A i \in 1..Len(m.args) : WordOf(Written(m)[i + 2]) = MeantWord(m, m.args[i])
  <1>1. WordOf(Pieces(m.type)) = P!Bare(m.type)
    <2>1. m.type \in P!Types
      BY MessageType
    <2>2. Join(Pieces(m.type)) = m.type
      BY <2>1, PiecesAssumption
    <2>3. /\ Pieces(m.type) \in Seq(Piece)
          /\ \A i \in 1..Len(Pieces(m.type)) : Pieces(m.type)[i] # "=" /\ Pieces(m.type)[i] # Quote
      BY <2>1, PiecesType
    <2> QED BY <2>2, <2>3, BareWord
  <1>2. WordOf(m.key) = P!Bare(Join(m.key))
    <2>1. m.key \in Seq(Piece) /\ \A i \in 1..Len(m.key) : m.key[i] # "=" /\ m.key[i] # Quote
      BY MessageType, LettersAre
    <2> QED BY <2>1, BareWord
  <1>3. ASSUME NEW i \in 1..Len(m.args) PROVE WordOf(WrittenWord(m, m.args[i])) = MeantWord(m, m.args[i])
    <2> DEFINE a == m.args[i]
    <2>1. a \in Argument
      BY MessageType
    <2> HIDE DEF a
    <2>2. CASE m.type = "SET_FIELDS"
      <3>1. /\ WrittenWord(m, a) = (a.field \o <<"=">>) \o Valued(a)
            /\ a.field \in Seq(Piece) /\ \A k \in 1..Len(a.field) : a.field[k] # "="
        BY <2>1, <2>2, PairIs
      <3>2. Valued(a) \in Seq(Piece)
        BY <2>1, ValuedIs
      <3>3. WordOf(WrittenWord(m, a)) =
              [name |-> Join(a.field), eq |-> TRUE,
               value |-> [open |-> Opens(Valued(a)), text |-> Join(Valued(a)), close |-> Closes(Valued(a))]]
        BY <3>1, <3>2, PairWord
      <3> QED BY <2>1, <2>2, <3>3, WholeValue DEF MeantWord, a
    <2>3. CASE m.type # "SET_FIELDS"
      <3>1. WrittenWord(m, a) = a.field
        BY <2>3 DEF WrittenWord
      <3>2. a.field \in Seq(Letter)
        BY <2>1 DEF Argument
      <3>3. a.field \in Seq(Piece) /\ \A k \in 1..Len(a.field) : a.field[k] # "=" /\ a.field[k] # Quote
        BY <3>2, LettersAre
      <3>4. WordOf(a.field) = P!Bare(Join(a.field))
        BY <3>3, BareWord
      <3> QED BY <2>3, <3>1, <3>4 DEF MeantWord, a
    <2> QED BY <2>2, <2>3
  <1> QED BY <1>1, <1>2, <1>3, WrittenIs

\* and so is the whole text: what a client writes, with quotes or without, is split
\* and parsed into the words that it means (Protocol::deserialize).
THEOREM WrittenAsMeant == \A m \in Messages : Words(Text(m)) = MeantWords(m)
  <1> SUFFICES ASSUME NEW m \in Messages PROVE Words(Text(m)) = MeantWords(m)
    OBVIOUS
  <1> DEFINE n == Len(m.args)
             W == Written(m)
             M == MeantWords(m)
  <1>1. n \in Nat /\ Len(W) = n + 2 /\ W \in Seq(Seq(Piece))
    BY WrittenIs, MessageType
  <1>2. Len(M) = n + 2 /\ M[1] = P!Bare(m.type) /\ M[2] = P!Bare(Join(m.key))
        /\ \A i \in 1..n : M[i + 2] = MeantWord(m, m.args[i])
    BY MeantWordsAre
  <1>3. Words(Text(m)) = [k \in 1..n + 2 |-> WordOf(W[k])]
    BY <1>1, TextRuns DEF Words, WordsOf
  <1>4. M = [k \in 1..n + 2 |-> M[k]]
    BY MeantWordsAre
  <1> HIDE DEF W, M
  <1>5. ASSUME NEW k \in 1..n + 2 PROVE WordOf(W[k]) = M[k]
    <2>1. CASE k = 1
      BY <1>2, <2>1, WrittenMeant DEF W
    <2>2. CASE k = 2
      BY <1>2, <2>2, WrittenMeant DEF W
    <2>3. CASE k \notin {1, 2}
      <3>1. k - 2 \in 1..n /\ (k - 2) + 2 = k
        BY <1>1, <2>3
      <3>2. \A i \in 1..n : WordOf(W[i + 2]) = M[i + 2]
        BY <1>2, WrittenMeant DEF W
      <3> QED BY <3>1, <3>2
    <2> QED BY <2>1, <2>2, <2>3
  <1> QED BY <1>3, <1>4, <1>5 DEF M

\* Words that begin as those of m do: its command, its key and n arguments.
BeginsAs(w, m, n) ==
  /\ Len(w) \in Nat /\ n + 2 <= Len(w)
  /\ w[1] = P!Bare(m.type) /\ w[2] = P!Bare(Join(m.key))
  /\ \A i \in 1..n : w[i + 2] = MeantWord(m, m.args[i])

\* The names are the words after the key; fields and names are those of the first n
\* arguments of m; or they are those, and the field of one more word, x.
NamesWords(e, w)   == Len(e.names) = Len(w) - 2 /\ \A i \in 1..Len(w) - 2 : e.names[i] = w[i + 2]
HasArgs(e, m, n)   == e.fields = FieldsOf(m, n) /\ e.names = NamesOf(m, n)
HasMore(e, m, n, x) ==
  /\ e.fields = [FieldsOf(m, n) EXCEPT ![x.name] = PP!Unquote(x.value)]
  /\ Len(e.names) = n + 1
  /\ \A i \in 1..n : e.names[i] = P!Bare(Join(m.args[i].field))
  /\ e.names[n + 1] = P!Bare(x.name)

\* A valid request for such words, and at most one more, has what m means up to there.
LEMMA PartParsed ==
  ASSUME NEW m \in Messages, NEW n \in 0..Len(m.args), NEW w, BeginsAs(w, m, n),
         Len(w) <= n + 3,
         NEW e \in Request, PP!Parsed(w, e.type, e.key, e.fields, e.names)
  PROVE  /\ e.type = m.type /\ e.key = P!Bare(Join(m.key))
         /\ m.type # "SET_FIELDS" => e.fields = NoFields
         /\ m.type = "GETALL" => e.names = <<>>
         /\ m.type = "GET_FIELDS" => NamesWords(e, w)
         /\ m.type = "SET_FIELDS" /\ (Len(w) = n + 3 => w[n + 3].eq = FALSE) => HasArgs(e, m, n)
         /\ m.type = "SET_FIELDS" /\ Len(w) = n + 3 /\ w[n + 3].eq = TRUE => HasMore(e, m, n, w[n + 3])
  <1>0. n \in Nat /\ Len(w) \in Nat /\ Len(w) \in {n + 2, n + 3}
    BY MessageType DEF BeginsAs
  <1>1. /\ w[1] = P!Bare(e.type)
        /\ e.key = IF Len(w) > 1 THEN w[2] ELSE P!Bare("")
        /\ \A t \in Token :
             e.fields[t] = IF e.type # "SET_FIELDS" \/ PP!Assigning(w, t) = {} THEN Nil
                           ELSE PP!Unquote(w[Max(PP!Assigning(w, t))].value)
        /\ e.type = "GETALL" => e.names = <<>>
        /\ e.type = "GET_FIELDS" => /\ Len(e.names) = PP!Rest(Len(w))
                                    /\ \A i \in 1..PP!Rest(Len(w)) : e.names[i] = w[i + 2]
        /\ e.type = "SET_FIELDS" =>
             \A k \in Nat : PP!FirstPairs(w, Len(w), k) =>
               Len(e.names) = k /\ \A i \in 1..k : e.names[i] = P!Bare(w[i + 2].name)
    BY SameWords, SameMax DEF PP!Parsed
  <1>2. e.fields = [t \in Token |-> e.fields[t]] /\ e.names \in Seq(P!Word)
    BY DEF Request
  <1>3. e.type = m.type /\ e.key = P!Bare(Join(m.key))
    <2>1. P!Bare(e.type).name = e.type /\ P!Bare(m.type).name = m.type
      BY DEF P!Bare
    <2>2. Len(w) > 1
      BY <1>0
    <2> QED BY <1>1, <2>1, <2>2 DEF BeginsAs
  <1>4. PP!Rest(Len(w)) = Len(w) - 2
    <2>1. \A k \in Nat : k >= 2 => PP!Rest(k) = k - 2
      BY DEF PP!Rest
    <2> QED BY <1>0, <2>1
  <1>5. ASSUME m.type # "SET_FIELDS" PROVE e.fields = NoFields
    <2>1. \A t \in Token : e.fields[t] = Nil
      BY <1>1, <1>3, <1>5
    <2> QED BY <1>2, <2>1 DEF NoFields
  <1>6. ASSUME m.type = "SET_FIELDS"
        PROVE  /\ LastGives(w, e.fields)
               /\ \A i \in 1..n : w[i + 2].eq = TRUE /\ w[i + 2].name = Join(m.args[i].field)
    <2>1. LastGives(w, e.fields)
      BY <1>1, <1>2, <1>3, <1>6 DEF LastGives
    <2>2. \A i \in 1..n : MeantWord(m, m.args[i]).eq = TRUE /\ MeantWord(m, m.args[i]).name = Join(m.args[i].field)
      BY <1>6 DEF MeantWord
    <2> QED BY <2>1, <2>2 DEF BeginsAs
  <1>7. ASSUME m.type = "SET_FIELDS", Len(w) = n + 3 => w[n + 3].eq = FALSE
        PROVE  HasArgs(e, m, n)
    <2>1. \A i \in n + 3..Len(w) : w[i].eq = FALSE
      BY <1>0, <1>7
    <2>2. e.fields = FieldsOf(m, n)
      BY <1>6, <1>7, <2>1, PairsGive DEF BeginsAs
    <2>3. PP!FirstPairs(w, Len(w), n)
      <3>1. \A i \in n + 1..Len(w) - 2 : w[i + 2].eq = FALSE
        BY <1>0, <1>7
      <3>2. \A i \in 1..n : w[i + 2].eq = TRUE
        BY <1>6, <1>7
      <3>3. n \in 0..PP!Rest(Len(w))
        BY <1>0, <1>4
      <3> QED BY <1>4, <3>1, <3>2, <3>3 DEF PP!FirstPairs
    <2>4. Len(e.names) = n /\ \A i \in 1..n : e.names[i] = P!Bare(Join(m.args[i].field))
      BY <1>0, <1>1, <1>3, <1>6, <1>7, <2>3
    <2>5. e.names = [i \in 1..n |-> e.names[i]]
      BY <1>2, <2>4, LenProperties
    <2> QED BY <2>2, <2>4, <2>5 DEF NamesOf, HasArgs
  <1>8. ASSUME m.type = "SET_FIELDS", Len(w) = n + 3, w[n + 3].eq = TRUE
        PROVE  HasMore(e, m, n, w[n + 3])
    <2>1. e.fields = [FieldsOf(m, n) EXCEPT ![w[n + 3].name] = PP!Unquote(w[n + 3].value)]
      BY <1>6, <1>8, PairsGive DEF BeginsAs
    <2>2. PP!FirstPairs(w, Len(w), n + 1)
      <3>1. \A i \in 1..n + 1 : w[i + 2].eq
        <4> SUFFICES ASSUME NEW i \in 1..n + 1 PROVE w[i + 2].eq
          OBVIOUS
        <4>1. CASE i = n + 1
          <5>1. i + 2 = n + 3
            BY <1>0, <4>1
          <5> QED BY <1>8, <5>1
        <4>2. CASE i \in 1..n
          BY <1>6, <1>8, <4>2
        <4> QED BY <1>0, <4>1, <4>2
      <3>2. PP!Rest(Len(w)) = n + 1
        BY <1>0, <1>4, <1>8
      <3> QED BY <1>0, <3>1, <3>2 DEF PP!FirstPairs
    <2>3. n + 1 \in Nat
      BY <1>0
    <2>4. Len(e.names) = n + 1 /\ \A i \in 1..n + 1 : e.names[i] = P!Bare(w[i + 2].name)
      BY <1>1, <1>3, <1>8, <2>2, <2>3
    <2>5. (n + 1) + 2 = n + 3 /\ n + 1 \in 1..n + 1 /\ \A i \in 1..n : i \in 1..n + 1
      BY <1>0
    <2>6. \A i \in 1..n : e.names[i] = P!Bare(Join(m.args[i].field))
      BY <1>6, <1>8, <2>4, <2>5
    <2>7. e.names[n + 1] = P!Bare(w[n + 3].name)
      BY <2>4, <2>5
    <2> QED BY <2>1, <2>4, <2>6, <2>7 DEF HasMore
  <1>9. m.type = "GETALL" => e.names = <<>>
    BY <1>1, <1>3
  <1>10. m.type = "GET_FIELDS" => NamesWords(e, w)
    BY <1>1, <1>3, <1>4 DEF NamesWords
  <1> QED BY <1>3, <1>5, <1>7, <1>8, <1>9, <1>10

\* The names of the first n arguments.
LEMMA NamesAre ==
  ASSUME NEW m, NEW n \in Nat, NEW s \in Seq(P!Word), Len(s) = n,
         \A i \in 1..n : s[i] = P!Bare(Join(m.args[i].field))
  PROVE  s = NamesOf(m, n)
  <1>1. s = [i \in 1..n |-> s[i]]
    BY LenProperties
  <1> QED BY <1>1 DEF NamesOf

\* A valid request for all the words of m has what m means.
LEMMA MeantParsed ==
  ASSUME NEW m \in Messages, NEW e \in Request,
         PP!Parsed(MeantWords(m), e.type, e.key, e.fields, e.names)
  PROVE  /\ e.type = m.type /\ e.key = P!Bare(Join(m.key))
         /\ e.fields = FieldsOf(m, Len(m.args))
         /\ m.type # "GETALL" => e.names = NamesOf(m, Len(m.args))
  <1> DEFINE w == MeantWords(m)
             n == Len(m.args)
  <1>0. n \in Nat /\ n \in 0..n /\ m.type \in P!Types
    BY MessageType
  <1>1. BeginsAs(w, m, n) /\ Len(w) = n + 2
    BY <1>0, MeantWordsAre DEF BeginsAs
  <1> HIDE DEF w, n
  <1>2. Len(w) <= n + 3 /\ Len(w) # n + 3 /\ Len(w) - 2 = n
    BY <1>0, <1>1
  <1>3. PP!Parsed(w, e.type, e.key, e.fields, e.names) /\ n \in 0..Len(m.args)
    BY <1>0 DEF w, n
  <1>4. e.type = m.type /\ e.key = P!Bare(Join(m.key))
    BY <1>1, <1>2, <1>3, PartParsed
  <1>5. CASE m.type = "SET_FIELDS"
    <2>1. HasArgs(e, m, n)
      BY <1>1, <1>2, <1>3, <1>5, PartParsed
    <2> QED BY <1>4, <2>1 DEF n, HasArgs
  <1>6. CASE m.type # "SET_FIELDS"
    <2>1. e.fields = FieldsOf(m, n)
      <3>1. e.fields = NoFields
        BY <1>1, <1>2, <1>3, <1>6, PartParsed
      <3> QED BY <1>6, <3>1 DEF FieldsOf
    <2>2. ASSUME m.type # "GETALL" PROVE e.names = NamesOf(m, n)
      <3>1. m.type = "GET_FIELDS"
        BY <1>0, <1>6, <2>2 DEF P!Types
      <3>2. Len(e.names) = n /\ \A i \in 1..n : e.names[i] = w[i + 2]
        <4>1. NamesWords(e, w)
          BY <1>1, <1>2, <1>3, <3>1, PartParsed
        <4> QED BY <1>2, <4>1 DEF NamesWords
      <3>3. \A i \in 1..n : e.names[i] = P!Bare(Join(m.args[i].field))
        BY <1>1, <3>1, <3>2 DEF BeginsAs, MeantWord
      <3>4. e.names \in Seq(P!Word)
        BY DEF Request
      <3> QED BY <1>0, <3>2, <3>3, <3>4, NamesAre
    <2> QED BY <1>4, <2>1, <2>2 DEF n
  <1> QED BY <1>5, <1>6

-----------------------------------------------------------------------------
\* The commands of a polite client that ended were executed, each from its message.
PoliteInv ==
  polite /\ peer # "broken" =>
    /\ Len(executed) = Len(frames)
    /\ \A i \in 1..Len(executed) : executed[i].from = End(i - 1) /\ executed[i].to = End(i)

\* The words of a message are those that it means.
LEMMA WordsOfMessage ==
  ASSUME StreamInv, NEW i \in 1..Len(ends)
  PROVE  /\ said[i] \in Messages
         /\ Words(SubSeq(stream, End(i - 1) + 1, End(i))) = MeantWords(said[i])
  <1>1. said[i] \in Messages
    BY ElementOfSeq DEF StreamInv
  <1>2. SubSeq(stream, End(i - 1) + 1, End(i)) = Text(said[i])
    BY DEF StreamInv
  <1> QED BY <1>1, <1>2, WrittenAsMeant

LEMMA PoliteStep ==
  ASSUME CInv, StreamInv, ParserInv, ExecutedInv, Aligned, PoliteInv, [SessionNext]_svars
  PROVE  PoliteInv'
  <1> SUFFICES ASSUME polite', peer' # "broken"
               PROVE  /\ Len(executed') = Len(frames')
                      /\ \A i \in 1..Len(executed') :
                           executed'[i].from = End(i - 1)' /\ executed'[i].to = End(i)'
    BY DEF PoliteInv
  <1>1. [Next]_vars
    BY SessionStep
  <1>2. polite /\ peer # "broken"
    BY <1>1 DEF Next, vars, Write, Deliver, Hangup, Handle, Idle, Read, ReadError, ReadEnd, Process
  <1>3. /\ Len(executed) = Len(frames) /\ Len(frames) \in Nat /\ Len(ends) \in Nat
        /\ Len(frames) <= Len(ends)
        /\ \A i \in 1..Len(executed) : executed[i].from = End(i - 1) /\ executed[i].to = End(i)
    BY <1>2 DEF PoliteInv, Aligned, CInv, TypeOK
  <1>4. \A i \in 0..Len(ends) : End(i)' = End(i)
    BY EndsStay
  <1>5. ASSUME NEW i \in 1..Len(executed)
        PROVE  executed[i].from = End(i - 1)' /\ executed[i].to = End(i)'
    <2>1. i - 1 \in 0..Len(ends) /\ i \in 0..Len(ends)
      BY <1>3
    <2> QED BY <1>3, <1>4, <2>1
  <1>6. CASE EndProcess
    <2> DEFINE n == Len(frames) + 1
    <2>1. pc = "process" /\ at = "done" /\ frames' = Append(frames, [from |-> start, to |-> consumed])
      BY <1>6 DEF EndProcess, Process
    <2>2. Len(ends) = n /\ consumed = End(n) /\ start = End(n - 1) /\ n \in 1..Len(ends)
      <3>1. Len(ends) = n /\ consumed = Sent /\ start = End(Len(frames))
        BY <1>2, <2>1 DEF Aligned
      <3>2. n - 1 = Len(frames)
        BY <1>3
      <3> QED BY <1>3, <3>1, <3>2 DEF Sent
    <2>3. type # "INVALID"
      <3>1. text = MeantWords(said[n])
        <4>1. text = Words(Data)
          BY <2>1 DEF ParserInv
        <4> QED BY <2>2, <4>1, WordsOfMessage DEF Data
      <3>2. said[n] \in Messages
        BY <2>2, WordsOfMessage
      <3>3. Len(text) > 0 /\ text[1] = PP!Bare(said[n].type) /\ said[n].type \in PP!Types
        BY <3>1, <3>2, MeantWordsAre, SameWords
      <3>4. PP!WordsTaken
        BY <2>1 DEF ParserInv
      <3> QED BY <2>1, <3>3, <3>4 DEF PP!WordsTaken
    <2>4. executed' = Append(executed, Ended)
      BY <1>6, <2>3 DEF EndProcess, Ended
    <2>5. Ended \in Request /\ Ended.from = start /\ Ended.to = consumed
      BY <2>1, <2>3, EndedIs DEF Ended
    <2>6. /\ Len(executed') = n /\ executed'[n] = Ended
          /\ \A i \in 1..Len(executed) : executed'[i] = executed[i]
      BY <1>3, <2>4, <2>5 DEF ExecutedInv
    <2>7. Len(frames') = n
      BY <2>1 DEF CInv, TypeOK
    <2>8. ASSUME NEW i \in 1..Len(executed')
          PROVE  executed'[i].from = End(i - 1)' /\ executed'[i].to = End(i)'
      <3>1. CASE i \in 1..Len(executed)
        BY <1>5, <2>6, <3>1
      <3>2. CASE i = n
        <4>1. n - 1 \in 0..Len(ends) /\ n \in 0..Len(ends)
          BY <1>3, <2>2
        <4>2. i - 1 = n - 1
          BY <3>2
        <4>3. End(i - 1)' = End(n - 1) /\ End(i)' = End(n)
          BY <1>4, <3>2, <4>1
        <4> QED BY <2>2, <2>5, <2>6, <3>2, <4>3
      <3> QED BY <1>3, <2>6, <3>1, <3>2
    <2> QED BY <2>6, <2>7, <2>8
  <1>7. CASE ~EndProcess
    <2>1. executed' = executed /\ frames' = frames
      BY <1>7 DEF SessionNext, svars, vars, Send, Segment, Thread, BeginProcess, Deserialize,
                  Write, Deliver, Hangup, Idle, Read, ReadError, ReadEnd
    <2> QED BY <1>3, <1>5, <2>1
  <1> QED BY <1>6, <1>7

LEMMA PoliteInit == SessionInit => PoliteInv
  <1>1. SessionInit => executed = <<>> /\ frames = <<>>
    BY DEF SessionInit, Init
  <1> QED BY <1>1 DEF PoliteInv

\* What is executed for a client that waits for each reply, and whose messages TCP
\* does not cut, are its messages, each once, in order and as it was meant.  Each that
\* is not of whole buffers is executed by the time the thread has read it and reads on
\* (Server::handleClient, Protocol::deserialize).  Messages are as MessagesAssumption
\* says: no blank, no '=' and no quote in a field, a key or a value.
THEOREM ExecutesThePolite == SessionSpec => []PoliteExecuted
  <1>1. ASSUME SInv, Aligned, PoliteInv PROVE PoliteExecuted
    <2> SUFFICES ASSUME polite, peer # "broken"
                 PROVE  /\ Len(executed) = Len(frames) /\ Len(frames) <= Len(said)
                        /\ \A i \in 1..Len(executed) :
                             LET e == executed[i]  m == said[i] IN
                             /\ e.from = End(i - 1) /\ e.to = End(i)
                             /\ e.type = m.type /\ e.key = P!Bare(Join(m.key))
                             /\ e.fields = FieldsOf(m, Len(m.args))
                             /\ m.type # "GETALL" => e.names = NamesOf(m, Len(m.args))
                        /\ pc = "read" /\ consumed = Sent /\ Len(executed) # Len(said) =>
                             /\ Len(said) = Len(executed) + 1
                             /\ (Sent - End(Len(executed))) % BUF = 0
      BY DEF PoliteExecuted
    <2>1. Len(executed) = Len(frames) /\ Len(frames) <= Len(said)
      BY <1>1 DEF Aligned, PoliteInv, SInv, StreamInv
    <2>2. Len(executed) \in Nat /\ Len(said) = Len(ends) /\ Len(ends) \in Nat
      BY <1>1 DEF SInv, CInv, TypeOK, StreamInv, ExecutedInv
    <2>3. ASSUME NEW i \in 1..Len(executed)
          PROVE  LET e == executed[i]  m == said[i] IN
                 /\ e.from = End(i - 1) /\ e.to = End(i)
                 /\ e.type = m.type /\ e.key = P!Bare(Join(m.key))
                 /\ e.fields = FieldsOf(m, Len(m.args))
                 /\ m.type # "GETALL" => e.names = NamesOf(m, Len(m.args))
      <3> DEFINE e == executed[i]
                 m == said[i]
      <3>1. e \in Request /\ SaysIn(stream, e)
        BY <1>1, ElementOfSeq DEF SInv, ExecutedInv
      <3>2. e.from = End(i - 1) /\ e.to = End(i)
        BY <1>1 DEF PoliteInv
      <3>3. i \in 1..Len(ends)
        BY <2>1, <2>2
      <3>4. m \in Messages /\ Words(SubSeq(stream, e.from + 1, e.to)) = MeantWords(m)
        BY <1>1, <3>2, <3>3, WordsOfMessage DEF SInv
      <3>5. PP!Parsed(MeantWords(m), e.type, e.key, e.fields, e.names)
        BY <3>1, <3>4 DEF SaysIn
      <3> HIDE DEF e, m
      <3>6. /\ e.type = m.type /\ e.key = P!Bare(Join(m.key))
            /\ e.fields = FieldsOf(m, Len(m.args))
            /\ m.type # "GETALL" => e.names = NamesOf(m, Len(m.args))
        BY <3>1, <3>4, <3>5, MeantParsed
      <3> QED BY <3>2, <3>6 DEF e, m
    <2>4. ASSUME pc = "read", consumed = Sent, Len(executed) # Len(said)
          PROVE  /\ Len(said) = Len(executed) + 1
                 /\ (Sent - End(Len(executed))) % BUF = 0
      <3>1. Len(said) <= Len(executed) + 1 /\ start = End(Len(executed))
        BY <1>1, <2>1, <2>2 DEF Aligned
      <3>2. (consumed - start) % BUF = 0
        BY <1>1, <2>4, CWaits DEF SInv, WaitsOnWholeBlocks
      <3> QED BY <2>1, <2>2, <2>4, <3>1, <3>2
    <2> QED BY <2>1, <2>3, <2>4
  <1>2. SessionInit => Aligned /\ PoliteInv
    BY AlignedInit, PoliteInit
  <1>3. SInv /\ Aligned /\ PoliteInv /\ [SessionNext]_svars => Aligned' /\ PoliteInv'
    BY AlignedStep, PoliteStep DEF SInv
  <1>4. SInv /\ Aligned /\ PoliteInv => PoliteExecuted
    BY <1>1
  <1> QED BY <1>2, <1>3, <1>4, SessionInvariant, PTL DEF SessionSpec

-----------------------------------------------------------------------------
(* What a cut leaves. *)

\* One word, or two: no fields and no names, whatever the command.
LEMMA FewWords ==
  ASSUME NEW e \in Request, NEW w, Len(w) \in {1, 2}, PP!Parsed(w, e.type, e.key, e.fields, e.names)
  PROVE  /\ e.key = IF Len(w) = 2 THEN w[2] ELSE P!Bare(NoText)
         /\ e.fields = NoFields /\ e.names = <<>>
  <1>0. Len(w) \in Nat /\ Len(w) <= 2 /\ (Len(w) > 1 <=> Len(w) = 2)
    <2>1. \A k \in {1, 2} : k \in Nat /\ k <= 2 /\ (k > 1 <=> k = 2)
      OBVIOUS
    <2> QED BY <2>1
  <1>1. /\ e.key = IF Len(w) > 1 THEN w[2] ELSE P!Bare("")
        /\ \A t \in Token :
             e.fields[t] = IF e.type # "SET_FIELDS" \/ PP!Assigning(w, t) = {} THEN Nil
                           ELSE PP!Unquote(w[Max(PP!Assigning(w, t))].value)
        /\ e.type \in P!Types
        /\ e.type = "GETALL" => e.names = <<>>
        /\ e.type = "GET_FIELDS" => Len(e.names) = PP!Rest(Len(w))
        /\ e.type = "SET_FIELDS" => \A k \in Nat : PP!FirstPairs(w, Len(w), k) => Len(e.names) = k
    BY SameWords, SameMax DEF PP!Parsed
  <1>2. e.fields = [t \in Token |-> e.fields[t]] /\ e.names \in Seq(P!Word)
    BY DEF Request
  <1>3. PP!Rest(Len(w)) = 0
    <2>1. \A k \in Nat : k <= 2 => PP!Rest(k) = 0
      BY DEF PP!Rest
    <2> QED BY <1>0, <2>1
  <1>4. \A t : PP!Assigning(w, t) = {}
    <2>1. 3..Len(w) = {}
      BY <1>0
    <2> QED BY <2>1 DEF PP!Assigning
  <1>5. e.fields = NoFields
    <2>1. \A t \in Token : e.fields[t] = Nil
      BY <1>1, <1>4
    <2> QED BY <1>2, <2>1 DEF NoFields
  <1>6. PP!FirstPairs(w, Len(w), 0)
    BY <1>3 DEF PP!FirstPairs
  <1>7. e.names = <<>>
    <2>1. e.type = "SET_FIELDS" => Len(e.names) = 0
      <3>1. 0 \in Nat
        OBVIOUS
      <3> QED BY <1>1, <1>6, <3>1
    <2>2. e.type = "GET_FIELDS" => Len(e.names) = 0
      BY <1>1, <1>3
    <2>3. e.type \in {"SET_FIELDS", "GETALL", "GET_FIELDS"}
      BY <1>1 DEF P!Types
    <2>4. Len(e.names) = 0 \/ e.names = <<>>
      BY <1>1, <2>1, <2>2, <2>3
    <2> QED BY <1>2, <2>4, EmptySeq
  <1> QED BY <1>0, <1>1, <1>5, <1>7 DEF NoText

\* The words that a cut leaves of m.
LEMMA WordsLeft ==
  ASSUME NEW m \in Messages, NEW i \in 1..Len(Written(m)), NEW q \in 1..Len(Written(m)[i])
  PROVE  LET x == SubSeq(Written(m)[i], 1, q)
             w == WordsOf(Append(Upto(Written(m), i - 1), x))
         IN  /\ Len(w) = i /\ w[i] = WordOf(x)
             /\ \A k \in 1..i - 1 : w[k] = WordOf(Written(m)[k])
  <1> DEFINE W == Written(m)
             x == SubSeq(W[i], 1, q)
             u == Upto(W, i - 1)
             r == Append(u, x)
             w == WordsOf(r)
  <1> SUFFICES Len(w) = i /\ w[i] = WordOf(x) /\ \A k \in 1..i - 1 : w[k] = WordOf(W[k])
    OBVIOUS
  <1>1. W \in Seq(Seq(Piece)) /\ Len(W) \in Nat /\ i \in Nat
    BY WrittenIs, MessageType
  <1> HIDE DEF W
  <1>2. x \in Seq(Piece)
    BY <1>1, ElementOfSeq DEF W
  <1>3. u \in Seq(Seq(Piece)) /\ Len(u) = i - 1 /\ \A k \in 1..i - 1 : u[k] = W[k]
    <2>1. i - 1 \in 0..Len(W)
      BY <1>1 DEF W
    <2> QED BY <1>1, <2>1, UptoType
  <1> HIDE DEF u, x
  <1>4. Len(r) = i /\ r[i] = x /\ \A k \in 1..i - 1 : r[k] = W[k]
    BY <1>1, <1>2, <1>3
  <1> HIDE DEF r
  <1>5. w = [k \in 1..i |-> WordOf(r[k])]
    BY <1>4 DEF WordsOf
  <1> HIDE DEF w
  <1>6. Len(w) = i /\ \A k \in 1..i : w[k] = WordOf(r[k])
    BY <1>1, <1>5
  <1>7. i \in 1..i /\ \A k \in 1..i - 1 : k \in 1..i
    BY <1>1
  <1> QED BY <1>4, <1>6, <1>7

\* The field before a cut, and the '=' and the value.
LEMMA PairLeft ==
  ASSUME NEW m, m.type = "SET_FIELDS", NEW a \in Argument, NEW q \in 1..Len(WrittenWord(m, a))
  PROVE  LET x == WordOf(SubSeq(WrittenWord(m, a), 1, q)) IN
         \/ x.eq = FALSE
         \/ /\ x.eq = TRUE /\ x.name = Join(a.field)
            /\ PP!Unquote(x.value) \in CutValues(a) \cup {P!Plain(Join(a.value))}
  <1> DEFINE f == a.field
             g == f \o <<"=">>
             V == Valued(a)
             s == SubSeq(WrittenWord(m, a), 1, q)
             x == WordOf(s)
  <1> SUFFICES \/ x.eq = FALSE
               \/ /\ x.eq = TRUE /\ x.name = Join(f)
                  /\ PP!Unquote(x.value) \in CutValues(a) \cup {P!Plain(Join(a.value))}
    OBVIOUS
  <1>1. /\ WrittenWord(m, a) = g \o V
        /\ f \in Seq(Piece) /\ g \in Seq(Piece) /\ Len(f) \in Nat /\ Len(g) = Len(f) + 1
        /\ \A k \in 1..Len(f) : f[k] # "=" /\ f[k] # Quote
    BY PairIs
  <1>2. V \in Seq(Piece) /\ Len(V) \in Nat
    BY ValuedIs
  <1>3. s = SubSeq(g \o V, 1, q) /\ q \in 1..(Len(f) + 1) + Len(V)
    <2>1. Len(g \o V) = Len(g) + Len(V)
      BY <1>1, <1>2, ConcatProperties
    <2> QED BY <1>1, <1>2, <2>1
  <1>4. CASE q <= Len(f)
    <2>1. s = SubSeq(f, 1, q)
      <3>1. q \in 0..Len(g) /\ q \in 0..Len(f)
        BY <1>1, <1>4
      <3>2. SubSeq(g \o V, 1, q) = SubSeq(g, 1, q)
        BY <1>1, <1>2, <3>1, PrefixOfFirst
      <3>3. SubSeq(g, 1, q) = SubSeq(f, 1, q)
        BY <1>1, <3>1, EqualsType, PrefixOfFirst
      <3> QED BY <1>3, <3>2, <3>3
    <2> HIDE DEF s
    <2>2. s \in Seq(Piece) /\ \A k \in 1..Len(s) : s[k] # "=" /\ s[k] # Quote
      <3>1. s \in Seq(Piece) /\ Len(s) = q /\ \A k \in 1..q : s[k] = f[k]
        BY <1>1, <1>4, <2>1
      <3> QED BY <1>1, <1>4, <3>1
    <2>3. x = P!Bare(Join(s))
      BY <2>2, BareWord
    <2> HIDE DEF x
    <2> QED BY <2>3 DEF P!Bare
  <1>5. CASE q > Len(f)
    <2> DEFINE r == q - (Len(f) + 1)
               v == SubSeq(V, 1, r)
    <2>1. r \in 0..Len(V) /\ Len(g) + r = q
      <3> HIDE DEF f, g, V
      <3> QED BY <1>1, <1>2, <1>3, <1>5
    <2>2. s = g \o v
      <3> HIDE DEF r, g, V
      <3>1. SubSeq(g \o V, 1, Len(g) + r) = g \o SubSeq(V, 1, r)
        BY <1>1, <1>2, <2>1, PrefixBeyond
      <3> QED BY <1>3, <2>1, <3>1
    <2>3. v \in Seq(Piece)
      BY <1>2, <2>1
    <2> DEFINE y == [open |-> Opens(v), text |-> Join(v), close |-> Closes(v)]
    <2>4. x = [name |-> Join(f), eq |-> TRUE, value |-> y]
      <3> HIDE DEF v, s
      <3>1. \A k \in 1..Len(f) : f[k] # "="
        BY <1>1
      <3> QED BY <1>1, <2>2, <2>3, <3>1, PairWord
    <2>5. PP!Unquote(y) = P!Plain(Join(a.value)) \/ PP!Unquote(y) \in CutValues(a)
      <3> HIDE DEF r
      <3> QED BY <2>1, PartOfValue
    <2> HIDE DEF x, y
    <2> QED BY <2>4, <2>5
  <1>6. q <= Len(f) \/ q > Len(f)
    <2> HIDE DEF f, V
    <2> QED BY <1>1, <1>2, <1>3
  <1> QED BY <1>4, <1>5, <1>6

\* The fields of one more argument.
LEMMA FieldsMore ==
  ASSUME NEW m \in Messages, m.type = "SET_FIELDS", NEW n \in 1..Len(m.args)
  PROVE  FieldsOf(m, n) =
           [FieldsOf(m, n - 1) EXCEPT ![Join(m.args[n].field)] = P!Plain(Join(m.args[n].value))]
  <1>1. m.args \in Seq(Argument) /\ Len(m.args) \in Nat
    BY MessageType
  <1>2. FieldsOf(m, n) = FieldsBy(m.args, 1..n) /\ FieldsOf(m, n - 1) = FieldsBy(m.args, 1..n - 1)
    <2>1. n \in 0..Len(m.args) /\ n - 1 \in 0..Len(m.args)
      BY <1>1
    <2> QED BY <1>1, <2>1, FieldsOfIs
  <1>3. 1..n - 1 = (1..n) \ {n} /\ n \in 1..n /\ (\A i \in 1..n : i <= n) /\ n \in Nat
    BY <1>1
  <1>4. Assign(FieldsBy(m.args, (1..n) \ {n}), m.args[n]) = FieldsBy(m.args, 1..n)
    BY <1>3, AssignOne
  <1> QED BY <1>2, <1>3, <1>4 DEF Assign

\* What CutOnlyTruncates says of a request and its message: it has a beginning of the
\* key and no more, or the key and a beginning of the arguments.
CutInKey(e, m) ==
  e.key \in {P!Bare(p) : p \in Beginnings(m.key)} /\ e.fields = NoFields /\ e.names = <<>>

CutInArgs(e, m) ==
  /\ e.key = P!Bare(Join(m.key))
  /\ \/ \E n \in 0..Len(m.args) :
          e.fields = FieldsOf(m, n) /\ e.names = NamesOf(m, n)
     \/ \E n \in 1..Len(m.args) : e.names = NamesOf(m, n) /\ CutValue(e, m, n)
     \/ /\ m.type = "GET_FIELDS" /\ e.fields = NoFields
        /\ \E n \in 1..Len(m.args) : \E p \in Beginnings(m.args[n].field) :
             e.names = Append(NamesOf(m, n - 1), P!Bare(p))

\* A cut in the command or in the key.
LEMMA KeyLeft ==
  ASSUME NEW m \in Messages, NEW i \in {1, 2}, NEW q \in 1..Len(Written(m)[i]), NEW e \in Request,
         PP!Parsed(WordsOf(Append(Upto(Written(m), i - 1), SubSeq(Written(m)[i], 1, q))),
                   e.type, e.key, e.fields, e.names)
  PROVE  CutInKey(e, m)
  <1> DEFINE w == WordsOf(Append(Upto(Written(m), i - 1), SubSeq(Written(m)[i], 1, q)))
  <1>0. m.key \in Seq(Piece) /\ (\A k \in 1..Len(m.key) : m.key[k] # "=" /\ m.key[k] # Quote)
        /\ Len(m.key) \in Nat
    BY MessageType, LettersAre
  <1>1. i \in 1..Len(Written(m)) /\ Written(m)[2] = m.key
    BY WrittenIs, MessageType
  <1>2. Len(w) = i /\ w[i] = WordOf(SubSeq(Written(m)[i], 1, q))
    BY <1>1, WordsLeft
  <1>3. PP!Parsed(w, e.type, e.key, e.fields, e.names)
    OBVIOUS
  <1> HIDE DEF w
  <1>4. /\ e.key = IF i = 2 THEN w[2] ELSE P!Bare(NoText)
        /\ e.fields = NoFields /\ e.names = <<>>
    <2>1. Len(w) \in {1, 2}
      BY <1>2
    <2>2. /\ e.key = IF Len(w) = 2 THEN w[2] ELSE P!Bare(NoText)
          /\ e.fields = NoFields /\ e.names = <<>>
      BY <1>3, <2>1, FewWords
    <2> QED BY <1>2, <2>2
  <1>5. CASE i = 1
    <2>1. NoText \in Beginnings(m.key)
      <3>1. SubSeq(m.key, 1, 0) = <<>> /\ 0 \in 0..Len(m.key)
        BY <1>0
      <3> QED BY <3>1, JoinEmpty DEF Beginnings
    <2>2. e.key = P!Bare(NoText)
      BY <1>4, <1>5
    <2> QED BY <1>4, <2>1, <2>2 DEF CutInKey
  <1>6. CASE i = 2
    <2> DEFINE s == SubSeq(m.key, 1, q)
    <2>1. q \in 1..Len(m.key)
      BY <1>1, <1>6
    <2>2. Join(s) \in Beginnings(m.key)
      BY <1>0, <2>1 DEF Beginnings
    <2>3. s \in Seq(Piece) /\ \A k \in 1..Len(s) : s[k] # "=" /\ s[k] # Quote
      <3>1. s \in Seq(Piece) /\ Len(s) = q /\ \A k \in 1..q : s[k] = m.key[k]
        BY <1>0, <2>1
      <3> HIDE DEF s
      <3> QED BY <1>0, <2>1, <3>1
    <2>4. w[2] = WordOf(s)
      BY <1>1, <1>2, <1>6
    <2> HIDE DEF s
    <2>5. e.key = P!Bare(Join(s))
      BY <1>4, <1>6, <2>3, <2>4, BareWord
    <2> QED BY <1>4, <2>2, <2>5 DEF CutInKey
  <1> QED BY <1>5, <1>6

\* The names of one argument more.
LEMMA NamesAppend ==
  ASSUME NEW m, NEW n \in Nat, NEW s \in Seq(P!Word), Len(s) = n + 1,
         \A i \in 1..n : s[i] = P!Bare(Join(m.args[i].field))
  PROVE  s = Append(NamesOf(m, n), s[n + 1])
  <1> DEFINE f == NamesOf(m, n)
  <1>1. \A i \in 1..n + 1 : s[i] \in P!Word
    OBVIOUS
  <1>2. f = [i \in 1..n |-> s[i]]
    BY DEF NamesOf
  <1>3. f \in Seq(P!Word) /\ Len(f) = n /\ \A i \in 1..n : f[i] = s[i]
    BY <1>1, <1>2
  <1> HIDE DEF f
  <1> QED BY <1>1, <1>3 DEF f

\* A cut in the arguments.
LEMMA ArgsLeft ==
  ASSUME NEW m \in Messages, NEW n \in 0..Len(m.args) - 1, NEW q \in 1..Len(Written(m)[n + 3]),
         NEW e \in Request,
         PP!Parsed(WordsOf(Append(Upto(Written(m), n + 2), SubSeq(Written(m)[n + 3], 1, q))),
                   e.type, e.key, e.fields, e.names)
  PROVE  e.type = m.type /\ CutInArgs(e, m)
  <1> DEFINE w == WordsOf(Append(Upto(Written(m), n + 2), SubSeq(Written(m)[n + 3], 1, q)))
             a == m.args[n + 1]
             x == WordOf(SubSeq(WrittenWord(m, a), 1, q))
  <1>0. /\ n \in Nat /\ n + 1 \in 1..Len(m.args) /\ n \in 0..Len(m.args) /\ Len(m.args) \in Nat
        /\ a \in Argument /\ m.type \in P!Types /\ (n + 1) + 2 = n + 3 /\ (n + 3) - 1 = n + 2
        /\ (n + 1) - 1 = n
    <2>1. n \in Nat /\ n + 1 \in 1..Len(m.args) /\ n \in 0..Len(m.args) /\ Len(m.args) \in Nat
      BY MessageType
    <2> QED BY <2>1, MessageType
  <1>1. Written(m)[n + 3] = WrittenWord(m, a) /\ n + 3 \in 1..Len(Written(m))
    <2>1. Written(m)[(n + 1) + 2] = WrittenWord(m, a)
      BY <1>0, WrittenIs
    <2>2. n + 3 \in 1..Len(Written(m))
      BY <1>0, WrittenIs
    <2> QED BY <1>0, <2>1, <2>2
  <1>2. q \in 1..Len(WrittenWord(m, a))
    BY <1>1
  <1>3. /\ Len(w) = n + 3 /\ w[n + 3] = x
        /\ \A k \in 1..n + 2 : w[k] = WordOf(Written(m)[k])
    <2>1. LET y == SubSeq(Written(m)[n + 3], 1, q)
              v == WordsOf(Append(Upto(Written(m), (n + 3) - 1), y))
          IN  /\ Len(v) = n + 3 /\ v[n + 3] = WordOf(y)
              /\ \A k \in 1..(n + 3) - 1 : v[k] = WordOf(Written(m)[k])
      BY <1>1, WordsLeft
    <2> QED BY <1>0, <1>1, <2>1
  <1>4. PP!Parsed(w, e.type, e.key, e.fields, e.names)
    OBVIOUS
  <1> HIDE DEF w, x, a
  <1>5. BeginsAs(w, m, n)
    <2>1. w[1] = P!Bare(m.type) /\ w[2] = P!Bare(Join(m.key))
      BY <1>0, <1>3, WrittenMeant
    <2>2. ASSUME NEW i \in 1..n PROVE w[i + 2] = MeantWord(m, m.args[i])
      <3>1. i + 2 \in 1..n + 2 /\ i \in 1..Len(m.args)
        BY <1>0
      <3> QED BY <1>3, <3>1, WrittenMeant
    <2> QED BY <1>0, <1>3, <2>1, <2>2 DEF BeginsAs
  <1>6. Len(w) <= n + 3 /\ Len(w) = n + 3 /\ Len(w) - 2 = n + 1
    BY <1>0, <1>3
  <1>7. e.type = m.type /\ e.key = P!Bare(Join(m.key))
    BY <1>0, <1>4, <1>5, <1>6, PartParsed
  <1>8. e.names \in Seq(P!Word)
    BY DEF Request
  <1>9. CASE m.type = "GETALL"
    <2>1. e.fields = NoFields /\ e.names = <<>>
      BY <1>0, <1>4, <1>5, <1>6, <1>9, PartParsed
    <2>2. FieldsOf(m, 0) = NoFields
      BY <1>9 DEF FieldsOf
    <2>3. NamesOf(m, 0) = <<>>
      BY DEF NamesOf
    <2>4. 0 \in 0..Len(m.args)
      BY <1>0
    <2> QED BY <1>7, <2>1, <2>2, <2>3, <2>4 DEF CutInArgs
  <1>10. CASE m.type = "GET_FIELDS"
    <2> DEFINE s == SubSeq(a.field, 1, q)
    <2>1. e.fields = NoFields /\ NamesWords(e, w)
      BY <1>0, <1>4, <1>5, <1>6, <1>10, PartParsed
    <2>2. WrittenWord(m, a) = a.field
      BY <1>10 DEF WrittenWord
    <2>3. a.field \in Seq(Piece) /\ \A k \in 1..Len(a.field) : a.field[k] # "=" /\ a.field[k] # Quote
      <3>1. a.field \in Seq(Letter)
        BY <1>0 DEF Argument
      <3> QED BY <3>1, LettersAre
    <2>4. q \in 1..Len(a.field) /\ Len(a.field) \in Nat
      BY <1>2, <2>2, <2>3
    <2>5. Join(s) \in Beginnings(a.field)
      BY <2>4 DEF Beginnings
    <2>6. x = P!Bare(Join(s))
      <3>1. s \in Seq(Piece) /\ Len(s) = q /\ \A k \in 1..q : s[k] = a.field[k]
        BY <2>3, <2>4
      <3>2. x = WordOf(s)
        BY <2>2 DEF x
      <3> HIDE DEF s
      <3>3. \A k \in 1..Len(s) : s[k] # "=" /\ s[k] # Quote
        BY <2>3, <2>4, <3>1
      <3> QED BY <3>1, <3>2, <3>3, BareWord
    <2> HIDE DEF s
    <2>7. Len(e.names) = n + 1 /\ \A i \in 1..n + 1 : e.names[i] = w[i + 2]
      BY <1>6, <2>1 DEF NamesWords
    <2>8. \A i \in 1..n : e.names[i] = P!Bare(Join(m.args[i].field))
      <3>1. \A i \in 1..n : i \in 1..n + 1
        BY <1>0
      <3> QED BY <1>5, <1>10, <2>7, <3>1 DEF BeginsAs, MeantWord
    <2>9. e.names[n + 1] = P!Bare(Join(s))
      <3>1. n + 1 \in 1..n + 1
        BY <1>0
      <3> QED BY <1>0, <1>3, <2>6, <2>7, <3>1
    <2>10. e.names = Append(NamesOf(m, n), P!Bare(Join(s)))
      BY <1>0, <1>8, <2>7, <2>8, <2>9, NamesAppend
    <2>11. e.names = Append(NamesOf(m, (n + 1) - 1), P!Bare(Join(s)))
      BY <1>0, <2>10
    <2> QED BY <1>0, <1>7, <1>10, <2>1, <2>5, <2>11 DEF CutInArgs, a
  <1>11. CASE m.type = "SET_FIELDS"
    <2>1. CASE x.eq = FALSE
      <3>1. HasArgs(e, m, n)
        BY <1>0, <1>3, <1>4, <1>5, <1>6, <1>11, <2>1, PartParsed
      <3> QED BY <1>0, <1>7, <3>1 DEF CutInArgs, HasArgs
    <2>2. CASE /\ x.eq = TRUE /\ x.name = Join(a.field)
               /\ PP!Unquote(x.value) \in CutValues(a) \cup {P!Plain(Join(a.value))}
      <3>1. HasMore(e, m, n, x)
        BY <1>0, <1>3, <1>4, <1>5, <1>6, <1>11, <2>2, PartParsed
      <3>2. e.names = NamesOf(m, n + 1)
        <4>1. ASSUME NEW i \in 1..n + 1 PROVE e.names[i] = P!Bare(Join(m.args[i].field))
          <5>1. CASE i = n + 1
            BY <2>2, <3>1, <5>1 DEF HasMore, a
          <5>2. CASE i \in 1..n
            BY <3>1, <5>2 DEF HasMore
          <5> QED BY <1>0, <5>1, <5>2
        <4>2. Len(e.names) = n + 1 /\ n + 1 \in Nat
          BY <1>0, <3>1 DEF HasMore
        <4> QED BY <1>8, <4>1, <4>2, NamesAre
      <3> DEFINE y == PP!Unquote(x.value)
      <3>3. e.fields = [FieldsOf(m, n) EXCEPT ![Join(a.field)] = y]
        BY <2>2, <3>1 DEF HasMore
      <3>4. CASE y = P!Plain(Join(a.value))
        <4>1. FieldsOf(m, n + 1) =
                [FieldsOf(m, (n + 1) - 1) EXCEPT ![Join(m.args[n + 1].field)] = P!Plain(Join(m.args[n + 1].value))]
          BY <1>0, <1>11, FieldsMore
        <4>2. e.fields = FieldsOf(m, n + 1)
          BY <1>0, <3>3, <3>4, <4>1 DEF a
        <4> QED BY <1>0, <1>7, <3>2, <4>2 DEF CutInArgs
      <3>5. CASE y \in CutValues(a)
        <4>1. CutValue(e, m, n + 1)
          <5> HIDE DEF y
          <5> QED BY <1>0, <3>3, <3>5 DEF CutValue, CutValues, a
        <4> QED BY <1>0, <1>7, <3>2, <4>1 DEF CutInArgs
      <3> QED BY <2>2, <3>4, <3>5
    <2> QED BY <1>0, <1>2, <1>11, <2>1, <2>2, PairLeft DEF x
  <1> QED BY <1>0, <1>7, <1>9, <1>10, <1>11 DEF P!Types

\* Where the j-th message is in the stream.
LEMMA PlaceOf ==
  ASSUME StreamInv, NEW j \in 1..Len(said)
  PROVE  /\ said[j] \in Messages /\ End(j - 1) \in Nat /\ End(j) \in Nat
         /\ End(j - 1) < End(j) /\ End(j) <= Len(stream)
         /\ Text(said[j]) = SubSeq(stream, End(j - 1) + 1, End(j))
         /\ Len(Text(said[j])) = End(j) - End(j - 1)
         /\ stream[End(j)] = "\n"
  <1>1. said[j] \in Messages
    BY ElementOfSeq DEF StreamInv
  <1> DEFINE t == Text(said[j])
             a == End(j - 1)
             b == End(j)
  <1>2. /\ a \in Nat /\ b \in Nat /\ a < b /\ b <= Len(stream) /\ stream \in Seq(Piece)
        /\ t = SubSeq(stream, a + 1, b)
    BY DEF StreamInv
  <1>3. t[Len(t)] = "\n"
    BY <1>1, TextEnds
  <1> HIDE DEF t, a, b
  <1>4. Len(t) = b - a /\ \A k \in 1..b - a : t[k] = stream[a + k]
    BY <1>2
  <1>5. b - a \in 1..b - a /\ a + (b - a) = b
    BY <1>2
  <1>6. stream[b] = "\n"
    BY <1>3, <1>4, <1>5
  <1> QED BY <1>1, <1>2, <1>4, <1>6 DEF t, a, b

\* The bytes of a request that ends in the message it starts with: blanks, and a
\* beginning of that message.
LEMMA BytesOfCut ==
  ASSUME StreamInv, NEW e \in Request, NEW j \in 1..Len(said), StartsWith(e, j), e.to <= End(j)
  PROVE  \E b \in Seq(Piece) : \E k \in 0..Len(Text(said[j])) :
           Blanks(b) /\ SubSeq(stream, e.from + 1, e.to) = b \o SubSeq(Text(said[j]), 1, k)
  <1> DEFINE a == e.from
             c == End(j - 1)
             d == e.to
             b == SubSeq(stream, a + 1, c)
             k == d - c
  <1>1. /\ a \in Nat /\ d \in Nat /\ c \in Nat /\ a <= c /\ c < d /\ d <= End(j)
        /\ End(j) \in Nat /\ End(j) <= Len(stream) /\ stream \in Seq(Piece) /\ Len(stream) \in Nat
    BY PlaceOf DEF Request, StartsWith, StreamInv
  <1>2. \A p \in a + 1..c : stream[p] \in Blank
    BY DEF StartsWith
  <1>3. Text(said[j]) = SubSeq(stream, c + 1, End(j)) /\ Len(Text(said[j])) = End(j) - c
    BY PlaceOf
  <1> HIDE DEF a, c, d
  <1>4. b \in Seq(Piece) /\ Blanks(b)
    <2>1. CASE a = c
      <3>1. b = <<>>
        BY <1>1, <2>1, SubSeqEmpty
      <3> HIDE DEF b
      <3>2. Len(b) = 0
        BY <3>1
      <3>3. \A i \in 1..0 : FALSE
        OBVIOUS
      <3>4. Blanks(b)
        BY <3>2, <3>3 DEF Blanks
      <3> QED BY <3>1, <3>4, EmptySeq
    <2>2. CASE a # c
      <3>1. b \in Seq(Piece) /\ Len(b) = c - a /\ \A i \in 1..c - a : b[i] = stream[a + i]
        BY <1>1, <2>2
      <3> HIDE DEF b
      <3>2. ASSUME NEW i \in 1..Len(b) PROVE b[i] \in Blank
        <4>1. a + i \in a + 1..c /\ i \in 1..c - a
          BY <1>1, <3>1
        <4> QED BY <1>2, <3>1, <4>1
      <3> QED BY <3>1, <3>2 DEF Blanks
    <2> QED BY <2>1, <2>2
  <1>5. SubSeq(stream, a + 1, d) = b \o SubSeq(stream, c + 1, d)
    <2>1. /\ a \in Nat /\ c \in Nat /\ d \in Nat /\ a <= c /\ c <= d /\ d <= Len(stream)
          /\ stream \in Seq(Piece)
      BY <1>1
    <2> HIDE DEF a, b, d
    <2> QED BY <2>1, SubSeqSplit DEF b
  <1>6. SubSeq(Text(said[j]), 1, k) = SubSeq(stream, c + 1, d)
    <2>1. k \in Nat /\ 1 <= k /\ c + k <= End(j) /\ c + k = d /\ 1 \in Nat \ {0}
      BY <1>1
    <2> HIDE DEF k
    <2> QED BY <1>1, <1>3, <2>1, SubSeqWithin
  <1>7. k \in 0..Len(Text(said[j]))
    BY <1>1, <1>3
  <1> HIDE DEF b, k
  <1> QED BY <1>4, <1>5, <1>6, <1>7 DEF a, d

\* So it has what m means up to there.
LEMMA CutLeaves ==
  ASSUME StreamInv, NEW e \in Request, SaysIn(stream, e),
         NEW j \in 1..Len(said), StartsWith(e, j), e.to <= End(j)
  PROVE  CutInKey(e, said[j]) \/ CutInArgs(e, said[j])
  <1> DEFINE m == said[j]
             W == Written(m)
  <1>1. m \in Messages
    BY PlaceOf
  <1>2. PICK b \in Seq(Piece), k \in 0..Len(Text(m)) :
          Blanks(b) /\ SubSeq(stream, e.from + 1, e.to) = b \o SubSeq(Text(m), 1, k)
    BY BytesOfCut
  <1> DEFINE r == Runs(b \o SubSeq(Text(m), 1, k))
  <1>3. PP!Parsed(WordsOf(r), e.type, e.key, e.fields, e.names)
    BY <1>2 DEF SaysIn, Words
  <1> HIDE DEF m
  <1>4. CutWords(W, r)
    BY <1>1, <1>2, CutRuns
  <1> HIDE DEF r
  <1>5. r # <<>>
    <2>1. Len(WordsOf(r)) > 0
      BY <1>3 DEF PP!Parsed
    <2>2. r = <<>> => WordsOf(r) = <<>>
      BY DEF WordsOf
    <2> QED BY <2>1, <2>2
  <1>6. PICK i \in 1..Len(W) : \E q \in 1..Len(W[i]) : r = Append(Upto(W, i - 1), SubSeq(W[i], 1, q))
    BY <1>4, <1>5 DEF CutWords
  <1>7. PICK q \in 1..Len(W[i]) : r = Append(Upto(W, i - 1), SubSeq(W[i], 1, q))
    BY <1>6
  <1>8. Len(W) = Len(m.args) + 2 /\ Len(m.args) \in Nat
    BY <1>1, WrittenIs, MessageType
  <1> HIDE DEF W
  <1>9. CASE i \in {1, 2}
    BY <1>1, <1>3, <1>7, <1>9, KeyLeft DEF m, W
  <1>10. CASE i \notin {1, 2}
    <2> DEFINE n == i - 3
    <2>1. n \in 0..Len(m.args) - 1 /\ n + 3 = i /\ n + 2 = i - 1
      BY <1>8, <1>10
    <2> HIDE DEF n
    <2>2. q \in 1..Len(W[n + 3]) /\ r = Append(Upto(W, n + 2), SubSeq(W[n + 3], 1, q))
      BY <1>7, <2>1
    <2> QED BY <1>1, <1>3, <2>1, <2>2, ArgsLeft DEF m, W
  <1> QED BY <1>9, <1>10

\* The text of a message is where the first word of a request is.
LEMMA HeadIs ==
  ASSUME StreamInv, CommandsFirst, NEW e \in Request, SaysIn(stream, e),
         e.from <= e.to, e.to <= Len(stream)
  PROVE  \E j \in 1..Len(said) : StartsWith(e, j) /\ e.type = said[j].type
  <1> DEFINE a == e.from
             d == e.to
             data == SubSeq(stream, a + 1, d)
  <1>0. /\ a \in Nat /\ d \in Nat /\ a <= d /\ d <= Len(stream) /\ stream \in Seq(Piece)
        /\ Len(stream) \in Nat /\ e.type \in P!Types
    BY DEF Request, StreamInv
  <1>1. Runs(data) # <<>> /\ WordOf(Runs(data)[1]) = P!Bare(e.type)
    <2>1. Len(WordsOf(Runs(data))) > 0 /\ WordsOf(Runs(data))[1] = P!Bare(e.type)
      BY SameWords DEF SaysIn, Words, PP!Parsed
    <2>2. Runs(data) = <<>> => WordsOf(Runs(data)) = <<>>
      BY DEF WordsOf
    <2>3. data \in Seq(Piece)
      BY <1>0
    <2> HIDE DEF data
    <2>4. Runs(data) \in Seq(Seq(Piece))
      BY <2>3, RunsType
    <2>5. Runs(data) # <<>>
      BY <2>1, <2>2
    <2>6. 1 \in 1..Len(Runs(data))
      BY <2>4, <2>5
    <2>7. WordsOf(Runs(data))[1] = WordOf(Runs(data)[1])
      BY <2>6 DEF WordsOf
    <2> QED BY <2>1, <2>5, <2>7
  <1> HIDE DEF a, d
  <1>2. a # d
    <2>1. a = d => data = <<>>
      BY <1>0, SubSeqEmpty
    <2> QED BY <1>1, <2>1, RunsEmpty
  <1>3. data \in Seq(Piece) /\ Len(data) = d - a /\ \A i \in 1..d - a : data[i] = stream[a + i]
    BY <1>0, <1>2
  <1> HIDE DEF data
  <1>4. PICK p \in 1..Len(data) : \E q \in p..Len(data) :
          /\ \A i \in 1..p - 1 : data[i] \in Blank
          /\ \A i \in p..q : data[i] \notin Blank
          /\ Runs(data)[1] = SubSeq(data, p, q)
    BY <1>1, <1>3, FirstRun
  <1>5. PICK q \in p..Len(data) :
          /\ \A i \in 1..p - 1 : data[i] \in Blank
          /\ \A i \in p..q : data[i] \notin Blank
          /\ Runs(data)[1] = SubSeq(data, p, q)
    BY <1>4
  <1>6. p \in Nat \ {0} /\ q \in Nat /\ p <= q /\ q <= d - a /\ a + p <= d /\ a + q <= d
    BY <1>0, <1>3
  <1>7. SubSeq(data, p, q) = SubSeq(stream, a + p, a + q)
    BY <1>0, <1>6, SubSeqWithin DEF data
  <1>8. \A x \in a + p..a + q : stream[x] \notin Blank
    <2> SUFFICES ASSUME NEW x \in a + p..a + q PROVE stream[x] \notin Blank
      OBVIOUS
    <2>1. x - a \in p..q /\ x - a \in 1..d - a /\ a + (x - a) = x
      BY <1>0, <1>6
    <2> QED BY <1>3, <1>5, <2>1
  <1>9. \A x \in a + 1..a + p - 1 : stream[x] \in Blank
    <2> SUFFICES ASSUME NEW x \in a + 1..a + p - 1 PROVE stream[x] \in Blank
      OBVIOUS
    <2>1. x - a \in 1..p - 1 /\ x - a \in 1..d - a /\ a + (x - a) = x
      BY <1>0, <1>6
    <2> QED BY <1>3, <1>5, <2>1
  <1> DEFINE T == {j \in 1..Len(said) : a + p <= End(j)}
  <1>10. Len(said) \in Nat /\ Len(said) = Len(ends) /\ Len(stream) = End(Len(said))
    BY DEF StreamInv, Sent
  <1>11. Len(said) \in T
    <2>1. Len(said) # 0
      <3>1. Len(said) = 0 => End(Len(said)) = 0
        BY DEF End
      <3> QED BY <1>0, <1>6, <1>10, <3>1
    <2> QED BY <1>0, <1>6, <1>10, <2>1
  <1>12. T \in SUBSET Nat
    OBVIOUS
  <1>13. PICK j \in T : \A u \in T : j <= u
    <2> HIDE DEF T
    <2> QED BY <1>11, <1>12, LeastOf
  <1>14. j \in 1..Len(said) /\ a + p <= End(j)
    OBVIOUS
  <1> DEFINE c == End(j - 1)
             m == said[j]
             t == Text(m)
  <1>15. /\ m \in Messages /\ c \in Nat /\ End(j) \in Nat /\ c < End(j) /\ End(j) <= Len(stream)
         /\ t = SubSeq(stream, c + 1, End(j)) /\ Len(t) = End(j) - c /\ stream[End(j)] = "\n"
    BY <1>14, PlaceOf
  <1>16. c < a + p
    <2>1. CASE j = 1
      <3>1. c = 0
        BY <2>1 DEF End
      <3> QED BY <1>0, <1>6, <3>1
    <2>2. CASE j # 1
      <3>1. j - 1 \in 1..Len(said) /\ ~(j <= j - 1)
        BY <1>10, <1>14, <2>2
      <3>2. j - 1 \notin T
        BY <1>13, <3>1
      <3>3. ~(a + p <= c)
        BY <3>1, <3>2
      <3> QED BY <1>0, <1>6, <1>15, <3>3
    <2> QED BY <2>1, <2>2
  <1> HIDE DEF T, c, m, t
  <1>17. a + q < End(j)
    <2>1. End(j) \notin a + p..a + q
      BY <1>8, <1>15 DEF Blank
    <2> QED BY <1>0, <1>6, <1>14, <1>15, <2>1
  <1> DEFINE x == (a + p) - c
             y == (a + q) - c
  <1>18. /\ x \in 1..Len(t) /\ y \in 1..Len(t) /\ x <= y /\ c + x = a + p /\ c + y = a + q
         /\ x \in Nat \ {0} /\ y \in Nat /\ c + y <= End(j)
    <2>1. c + x = a + p /\ c + y = a + q /\ x \in Nat \ {0} /\ y \in Nat /\ x <= y
      BY <1>0, <1>6, <1>15, <1>16
    <2>2. c + y <= End(j) /\ y <= End(j) - c /\ End(j) - c \in Nat
      BY <1>0, <1>6, <1>15, <1>17
    <2>3. y <= Len(t) /\ Len(t) \in Nat
      BY <1>15, <2>2
    <2> HIDE DEF x, y
    <2> QED BY <2>1, <2>2, <2>3
  <1> HIDE DEF x, y
  <1>19. SubSeq(t, x, y) = Runs(data)[1]
    <2>1. SubSeq(t, x, y) = SubSeq(stream, c + x, c + y)
      BY <1>0, <1>15, <1>18, SubSeqWithin
    <2> QED BY <1>5, <1>7, <1>18, <2>1
  <1>20. x = 1 /\ e.type = m.type
    <2>1. WordOf(SubSeq(Text(m), x, y)) = P!Bare(e.type)
      BY <1>1, <1>19 DEF t
    <2>2. x \in 1..Len(Text(m)) /\ y \in 1..Len(Text(m))
      BY <1>18 DEF t
    <2> QED BY <1>0, <1>15, <2>1, <2>2 DEF CommandsFirst
  <1>21. a + p = c + 1
    BY <1>18, <1>20
  <1>22. a <= c /\ c < d /\ \A z \in a + 1..c : stream[z] \in Blank
    <2>1. a <= c /\ c < d /\ a + p - 1 = c
      BY <1>0, <1>6, <1>15, <1>21
    <2> QED BY <1>9, <2>1
  <1>23. StartsWith(e, j)
    BY <1>22 DEF StartsWith, a, c, d
  <1> QED BY <1>14, <1>20, <1>23 DEF m

\* However TCP cuts and joins the messages, and whenever the client goes away, a
\* request that ends in the message it starts with has what that message says up to
\* the cut: its words as they were meant, and of the last one a beginning
\* (Server::handleClient, Protocol::deserialize).
THEOREM CutsTruncate == SessionSpec => []CutOnlyTruncates
  <1>1. ASSUME SInv PROVE CutOnlyTruncates
    <2> SUFFICES ASSUME NEW i \in 1..Len(executed), NEW j \in 1..Len(said),
                        StartsWith(executed[i], j), executed[i].to <= End(j)
                 PROVE  CutInKey(executed[i], said[j]) \/ CutInArgs(executed[i], said[j])
      BY DEF CutOnlyTruncates, CutInKey, CutInArgs
    <2>1. executed[i] \in Request /\ SaysIn(stream, executed[i])
      BY <1>1, ElementOfSeq DEF SInv, ExecutedInv
    <2> QED BY <1>1, <2>1, CutLeaves DEF SInv
  <1>2. SInv => CutOnlyTruncates
    BY <1>1
  <1> QED BY <1>2, SessionInvariant, PTL

\* If no part of a word but the first of a message is a command, then what is
\* executed starts with a message of its type, and none is executed twice
\* (Server::handleClient, Protocol::deserialize).
THEOREM HeadsAreCommands == CommandsFirst => (SessionSpec => []HeadsOnce)
  <1> SUFFICES ASSUME CommandsFirst PROVE SessionSpec => []HeadsOnce
    OBVIOUS
  <1>1. ASSUME SInv PROVE HeadsOnce
    <2> SUFFICES ASSUME NEW i \in 1..Len(executed)
                 PROVE  \E j \in 1..Len(said) :
                          /\ StartsWith(executed[i], j) /\ executed[i].type = said[j].type
                          /\ \A k \in 1..i - 1 : ~StartsWith(executed[k], j)
      BY DEF HeadsOnce
    <2>0. /\ executed \in Seq(Request) /\ Len(executed) \in Nat
          /\ \A k \in 1..Len(executed) :
               /\ executed[k] \in Request /\ executed[k].from \in Nat /\ executed[k].to \in Nat
               /\ executed[k].from <= executed[k].to /\ executed[k].to <= start
      <3>1. executed \in Seq(Request)
        BY <1>1 DEF SInv, ExecutedInv
      <3>2. \A k \in 1..Len(executed) : executed[k] \in Request
        BY <3>1, ElementOfSeq
      <3> QED BY <1>1, <3>1, <3>2 DEF SInv, ExecutedInv, Request
    <2>1. executed[i].to <= Len(stream) /\ SaysIn(stream, executed[i]) /\ StreamInv
      <3>1. start <= Len(stream) /\ start \in Nat /\ Len(stream) \in Nat
        BY <1>1, BytesInStream DEF SInv
      <3> QED BY <1>1, <2>0, <3>1 DEF SInv, ExecutedInv
    <2>2. PICK j \in 1..Len(said) : StartsWith(executed[i], j) /\ executed[i].type = said[j].type
      BY <2>0, <2>1, HeadIs
    <2>3. ASSUME NEW k \in 1..i - 1, StartsWith(executed[k], j) PROVE FALSE
      <3>1. k \in 1..Len(executed) /\ k < i
        BY <2>0
      <3>2. executed[k].to <= executed[i].from
        BY <1>1, <3>1 DEF SInv, ExecutedInv
      <3>3. executed[i].from <= End(j - 1) /\ End(j - 1) < executed[k].to
        BY <2>2, <2>3 DEF StartsWith
      <3>4. End(j - 1) \in Nat
        BY <2>1, PlaceOf
      <3> QED BY <2>0, <3>1, <3>2, <3>3, <3>4
    <2> QED BY <2>2, <2>3
  <1>2. SInv => HeadsOnce
    BY <1>1
  <1> QED BY <1>2, SessionInvariant, PTL
=============================================================================
