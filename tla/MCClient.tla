------------------------------ MODULE MCClient ------------------------------
(* Client, instantiated for TLC.                                            *)
EXTENDS Client, TLC

Symmetric == Permutations(Users) \cup Permutations(Keepers) \cup Permutations(Sockets)

=============================================================================
