--------------------------- MODULE MCTagProvider ----------------------------
(* TagProvider, instantiated for TLC: an array of three, a scalar and a tag   *)
(* that is not there yet and comes first in the list.                       *)
EXTENDS TagProvider

CONSTANTS a, b, c, h1, h2, v0, v1, v2

Order == <<a, b, c>>

Start == [t \in {a, b, c} |->
           IF t = b THEN [slice |-> TRUE, type |-> "int", cells |-> <<v0, v0, v0>>]
           ELSE IF t = c THEN [slice |-> FALSE, type |-> "string", cells |-> <<v0>>]
           ELSE Absent]

(* A dint of v2 does not fit into an int. *)
Narrowing == [from \in Types |-> [to \in Types |-> [v \in {v0, v1, v2} |->
               IF from = "dint" /\ to = "int" /\ v = v2 THEN v1 ELSE v]]]

Read(t, elem, qty) == [op |-> "read", tag |-> t, elem |-> elem, qty |-> qty, vals |-> <<>>, type |-> "int"]
Write(t, elem, vals, type) == [op |-> "write", tag |-> t, elem |-> elem, qty |-> 1, vals |-> vals, type |-> type]
Ask(via, instance, services) == [via |-> via, instance |-> instance, services |-> services]

Messages ==
  { Ask("unit", 0, <<Read(b, 0, 3)>>),
    Ask("unit", 0, <<Write(b, 0, <<v1, v1, v1>>, "int")>>),
    Ask("rr", 0, <<Read(b, 3, 2)>>),
    Ask("rr", 0, <<Write(a, 0, <<v1, v2>>, "string")>>),
    Ask("rr", 0, <<Write(b, 0, <<v1, v2>>, "string")>>),
    Ask("rr", 0, <<Write(b, 0, <<v2, v2, v0>>, "dint")>>),
    Ask("unit", 0, <<Read(b, 2, 32768)>>),
    Ask("multi", 0, <<Write(b, 3, <<v2>>, "dint"), Write(c, 0, <<>>, "int")>>),
    Ask("attr", 2, <<Write(a, 0, <<>>, "string")>>),
    Ask("multi", 0, <<Write(b, 1, <<v1>>, "int"), Write(b, 2, <<v2>>, "int")>>),
    Ask("multi", 0, <<Read(b, 1, 1), Read(b, 2, 2), Read(a, 0, 2)>>),
    Ask("attr", 1, <<Read(a, 0, 1)>>),
    Ask("attr", 3, <<Read(a, 0, 1)>>),
    Ask("attr", 3, <<Write(a, 0, <<v2>>, "string")>>) }

=============================================================================
