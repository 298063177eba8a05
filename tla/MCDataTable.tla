---------------------------- MODULE MCDataTable -----------------------------
(* DataTable, instantiated for TLC.                                         *)
EXTENDS DataTable, TLC

CONSTANTS t1, t2, t3

(* A SINT and two INTs. *)
Sizes == (t1 :> 1) @@ (t2 :> 2) @@ (t3 :> 2)

(* The INTs may be exchanged. *)
Symmetric == Permutations({t2, t3})

=============================================================================
