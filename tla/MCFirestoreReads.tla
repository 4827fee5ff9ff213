-------------------------- MODULE MCFirestoreReads --------------------------
(***************************************************************************)
(* FirestoreReads for TLC: users are interchangeable, and documents are.   *)
(***************************************************************************)
EXTENDS FirestoreReads, TLC

Symmetry == Permutations(User) \cup Permutations(Key)
=============================================================================
