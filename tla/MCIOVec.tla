------------------------------ MODULE MCIOVec ------------------------------
(* The connections are interchangeable.                                     *)
EXTENDS IOVec, TLC

Symmetry == Permutations(Conn)
=============================================================================
