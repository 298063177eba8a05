------------------------------ MODULE MCServer ------------------------------
(* Server, instantiated for TLC.                                            *)
EXTENDS Server

Symmetric == Permutations(Handlers) \cup Permutations(Conns) \cup Permutations(Ids)

=============================================================================
