----------------------- MODULE MCImplicitSubscription -----------------------
(* ImplicitSubscription, instantiated for TLC.                              *)
EXTENDS ImplicitSubscription, TLC

Symmetric == Permutations(Subs) \cup Permutations(Stoppers)

=============================================================================
