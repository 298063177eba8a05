----------------------------- MODULE MCBatchRead ----------------------------
(* BatchRead, instantiated for TLC: a message of 504 bytes, and tags that   *)
(* are small, large, larger than a message, or larger than declared.        *)
EXTENDS BatchRead

Small == [path |-> 20, size |-> 4, declared |-> 4, frag |-> FALSE]
Large == [path |-> 20, size |-> 300, declared |-> 300, frag |-> TRUE]
Huge == [path |-> 20, size |-> 600, declared |-> 600, frag |-> TRUE]
Unknown == [path |-> 20, size |-> 300, declared |-> 0, frag |-> FALSE]
LongPath == [path |-> 400, size |-> 4, declared |-> 4, frag |-> FALSE]

MCDescs == {Small, Large, Huge, Unknown, LongPath}

=============================================================================
