------------------------- MODULE MCTimingSerializer -------------------------
(* The connections are interchangeable.  After a race no property looks at  *)
(* the CSV file or at the outcome of a reply that is over, and no action at  *)
(* more than whether the file is empty: View has no more of them then.  Of  *)
(* the names found only those count that are still to be read, and whether  *)
(* there were any.                                                          *)
EXTENDS TimingSerializer

Symmetry == Permutations(Conn)

Ahead == [c \in Conn |-> <<found[c] = {}, found[c] \cap NextName(c)..N - 1>>]

View == <<process, IF strayed THEN csv = <<>> ELSE csv, pc, replies,
          IF strayed THEN failed \cap {reply[c] : c \in Conn} ELSE failed,
          reply, Ahead, record, person, stream, history, logger>>
=============================================================================
