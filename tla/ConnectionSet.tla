---------------------------- MODULE ConnectionSet ----------------------------
(***************************************************************************)
(* What the server's connection table promises: a set of connections from  *)
(* which a connection that was never there before enters, and from which   *)
(* one connection at a time is closed, never to come back.                 *)
(***************************************************************************)
CONSTANT Conns

VARIABLES connections,  \* the connections the table holds
          known         \* every connection it ever held

Init == connections = {} /\ known = {}

Add(c) ==
  /\ c \notin known
  /\ connections' = connections \cup {c}
  /\ known' = known \cup {c}

Close(c) ==
  /\ c \in connections
  /\ connections' = connections \ {c}
  /\ UNCHANGED known

Next == \E c \in Conns : Add(c) \/ Close(c)

Spec == Init /\ [][Next]_<<connections, known>>

=============================================================================
