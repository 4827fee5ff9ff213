------------------------------ MODULE MCAccount ------------------------------
(* Small instances of Account for TLC.                                      *)
EXTENDS Account, TLC

\* User ids and addresses are interchangeable.
Interchange == Permutations(User) \cup Permutations(Email)
=============================================================================
