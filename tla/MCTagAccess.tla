---------------------------- MODULE MCTagAccess -----------------------------
(* TagAccess, instantiated for TLC: a message of 504 bytes, paths of which  *)
(* two as names do not fit in one, a path that is shorter as an instance    *)
(* and two that are never sent as one.                                      *)
EXTENDS TagAccess

CONSTANTS a, b, c1, c2

Whole == [tag |-> a, idx |-> NoIdx, name |-> 250]
Indexed == [tag |-> b, idx |-> 40, name |-> 254]
Short == [tag |-> b, idx |-> NoIdx, name |-> 4]

MCPaths == {Whole, Indexed, Short}

As(path, type, size) == [path |-> path, type |-> type, size |-> size]

MCUses == {As(Whole, "DINT", 2), As(Indexed, "BOOL", 1), As(Short, "DINT", 1)}

MCLists == {<<As(Short, "DINT", 1), As(Whole, "DINT", 2)>>,
            <<As(Indexed, "BOOL", 1), As(Whole, "DINT", 2)>>}

MCSymbol == a :> 5 @@ b :> 300

(* One caller makes every call, the other reads. *)
MCKinds == c1 :> {"Read", "ReadMulti", "ReadList", "Write", "WriteMap", "WriteMulti",
                  "GetAttrSingle", "GenericCIPMessage"}
           @@ c2 :> {"Read"}

(* One path used with two types, and one tag asked for twice. *)
MixedUses == MCUses \cup {As(Indexed, "DINT", 1)}

MixedLists == MCLists \cup {<<As(Short, "DINT", 1), As(Short, "DINT", 1)>>}

=============================================================================
