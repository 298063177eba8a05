------------------------- MODULE MCTagSubscription --------------------------
(* TagSubscription, instantiated for TLC.                                   *)
EXTENDS TagSubscription

CONSTANTS t1, t2

TwoBatches == <<{t1}, {t2}>>

=============================================================================
