--------------------- MODULE MCUniformReliableBroadcast ---------------------
(***************************************************************************)
(* UniformReliableBroadcast for TLC.  The window is one message for two    *)
(* processes with MaxInNetwork = 4, and for three with MaxInNetwork = 8,   *)
(* where the quotient is zero and Add clamps it.                           *)
(***************************************************************************)
EXTENDS UniformReliableBroadcast, TLC

CONSTANTS p1, p2, p3

\* How many messages each process broadcasts.
OneAuthor1 == [p \in Proc |-> IF p = p1 THEN 1 ELSE 0]
OneAuthor2 == [p \in Proc |-> IF p = p1 THEN 2 ELSE 0]
OneAuthor5 == [p \in Proc |-> IF p = p1 THEN 5 ELSE 0]
ThreeAndOne == [p \in Proc |-> IF p = p1 THEN 3 ELSE 1]

\* The processes that broadcast nothing are interchangeable.
Silent == Permutations({p2, p3})
=============================================================================
