-------------------------- MODULE MCFirestoreWrites --------------------------
(* FirestoreWrites with two users, who are alike.                          *)
EXTENDS FirestoreWrites, TLC

Symmetry == Permutations(User)
=============================================================================
