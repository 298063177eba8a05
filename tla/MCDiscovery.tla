---------------------------- MODULE MCDiscovery -----------------------------
(* Discovery, instantiated for TLC.                                         *)
EXTENDS Discovery

CONSTANTS ctl, p1, a, b, c1, d, e, udt, timer

Symbol(name, kind, template) == [name |-> name, kind |-> kind, template |-> template]

(* A controller with a structure, a hidden symbol and a program. *)
Controllers ==
  (ctl :> <<Symbol(a, "tag", udt), Symbol(b, "tag", None), Symbol(p1, "program", None),
            Symbol(e, "hidden", None), Symbol(c1, "tag", timer)>>)
  @@ (p1 :> <<Symbol(d, "tag", timer), Symbol(e, "hidden", None)>>)

(* The structure has a timer in it. *)
Structures == (udt :> <<timer>>) @@ (timer :> <<None>>)

=============================================================================
