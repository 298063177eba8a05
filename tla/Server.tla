------------------------------- MODULE Server -------------------------------
(***************************************************************************)
(* The connections of a gologix Server: one goroutine per accepted TCP     *)
(* connection (a handler), which opens and closes CIP connections and      *)
(* serves requests on them; the table of connections they share; the UDP   *)
(* loop, which hands output data to the provider of a connection's path;   *)
(* and one producing goroutine per I/O connection.                         *)
(*                                                                         *)
(* One step is one critical section of the table's lock, or one message.   *)
(* What a request reads or writes is left to the provider's own model.  A  *)
(* T->O connection id is the originator's own, so it is represented by the *)
(* connection it was agreed for.                                           *)
(***************************************************************************)
EXTENDS Naturals, Sequences, SequencesExt

CONSTANTS
  Handlers,     \* accepted TCP connections, each from an originator of its own
  Conns,        \* identities for serverConnection objects
  Ids,          \* connection serial numbers and connection ids
  Paths,        \* the paths originators ask for
  Routed,       \* the paths the router knows
  MaxSeq,       \* bound: I/O messages an originator sends on a connection
  DistinctIds,  \* do originators number their connections apart from each other?
  None          \* model value: no connection

ASSUME ServerAssumption ==
  /\ Routed \subseteq Paths
  /\ MaxSeq \in Nat
  /\ DistinctIds \in BOOLEAN
  /\ None \notin Conns \cup Ids \cup Paths

VARIABLES
  pc,        \* control state of each handler
  opened,    \* forward opens a handler has answered, in order
  conn,      \* the serverConnection objects
  table,     \* serverConnectionManager.Connections
  producing, \* connections with a running ioConnection goroutine
  sent,      \* sent[c]: number of the originator's last I/O message on c
  datagram,  \* the I/O message in the UDP loop's hands
  out,       \* the I/O message each path's provider last took
  served     \* the last request answered: asked on, looked up as, answered to

vars == <<pc, opened, conn, table, producing, sent, datagram, out, served>>

(* A connection and the serverConnection object the server keeps for it; its *)
(* Open field is state = "open".                                            *)
serverConnection ==
  [state : {"unused", "answered", "open", "closed"}, ID : Ids \cup {None}, OT : Ids \cup {None},
   Path : Paths \cup {None}, io : BOOLEAN]

Unused == [state |-> "unused", ID |-> None, OT |-> None, Path |-> None, io |-> FALSE]

Init ==
  /\ pc = [h \in Handlers |-> "off"]
  /\ opened = [h \in Handlers |-> <<>>]
  /\ conn = [c \in Conns |-> Unused]
  /\ table = <<>>
  /\ producing = {}
  /\ sent = [c \in Conns |-> 0]
  /\ datagram = [from |-> None, seq |-> 0, path |-> None]
  /\ out = [p \in Routed |-> [from |-> None, seq |-> 0]]
  /\ served = [asked |-> None, by |-> None, to |-> None]

-----------------------------------------------------------------------------
(* serverConnectionManager.                                                 *)

ConnAt(i) == conn[table[i]]

(* Mutant: the lookup by O->T id compares serial numbers. *)
GetByOTComparesID(i, OT) ==
  /\ i \in DOMAIN table
  /\ ConnAt(i).ID = OT
  /\ \A j \in 1..(i - 1) : ConnAt(j).ID # OT

(* i is where GetByOT and CloseByID stop: the first match.                  *)
GetByOT(i, OT) ==
  /\ i \in DOMAIN table
  /\ ConnAt(i).OT = OT
  /\ \A j \in 1..(i - 1) : ConnAt(j).OT # OT

(* Mutant: the lookup by serial number compares O->T ids. *)
GetByIDComparesOT(i, ID) ==
  /\ i \in DOMAIN table
  /\ ConnAt(i).OT = ID
  /\ \A j \in 1..(i - 1) : ConnAt(j).OT # ID

GetByID(i, ID) ==
  /\ i \in DOMAIN table
  /\ ConnAt(i).ID = ID
  /\ \A j \in 1..(i - 1) : ConnAt(j).ID # ID

(* Mutant: the entry leaves the table, but Open stays true. *)
CloseAtStaysOpen(i) ==
  /\ table' = Front(ReplaceAt(table, i, Last(table)))
  /\ UNCHANGED conn

(* Mutant: the table is cut at the entry. *)
CloseAtCuts(i) ==
  /\ conn' = [conn EXCEPT ![table[i]].state = "closed"]
  /\ table' = SubSeq(table, 1, i - 1)

(* The last entry moves into the freed place. *)
CloseAt(i) ==
  /\ conn' = [conn EXCEPT ![table[i]].state = "closed"]
  /\ table' = Front(ReplaceAt(table, i, Last(table)))

-----------------------------------------------------------------------------
(* A handler's life.                                                        *)

Accept(h) ==
  /\ pc[h] = "off"
  /\ pc' = [pc EXCEPT ![h] = "reading"]
  /\ UNCHANGED <<opened, conn, table, producing, sent, datagram, out, served>>

(* Every error ends the handler: the originator went away, a reply could    *)
(* not be sent, a message could not be parsed.  Only the socket is closed.  *)
HandlerEnds(h) ==
  /\ pc[h] = "reading"
  /\ pc' = [pc EXCEPT ![h] = "gone"]
  /\ UNCHANGED <<opened, conn, table, producing, sent, datagram, out, served>>

(* The serial number and O->T id of a new connection.  An originator never  *)
(* uses one twice.  If DistinctIds, neither do two originators: that is not *)
(* the server's to decide, which takes the ids it is sent (a gologix Client *)
(* counts on from the time at which it connects) and draws one itself only  *)
(* for an id of 0.  Otherwise two originators may happen on the same.       *)
Agreed(h, ID, OT) ==
  \A c \in Conns : conn[c].state # "unused" /\ (DistinctIds \/ c \in ToSet(opened[h]))
                     => conn[c].OT # OT /\ conn[c].ID # ID

(* A forward open is answered before the connection enters the table.       *)
forwardOpen(h, io) ==
  /\ pc[h] = "reading"
  /\ \E c \in Conns, ID \in Ids, OT \in Ids, p \in Paths :
       /\ conn[c].state = "unused"
       /\ Agreed(h, ID, OT)
       /\ conn' = [conn EXCEPT ![c] =
                     [state |-> "answered", ID |-> ID, OT |-> OT, Path |-> p, io |-> io]]
       /\ opened' = [opened EXCEPT ![h] = Append(@, c)]
  /\ pc' = [pc EXCEPT ![h] = "adding"]
  /\ UNCHANGED <<table, producing, sent, datagram, out, served>>

(* Then it is added, and an I/O connection starts to produce, if its UDP    *)
(* socket can be made; one for a path without a provider ends the handler,  *)
(* with the entry in the table.                                             *)
Add(h) ==
  /\ pc[h] = "adding"
  /\ LET c == Last(opened[h]) IN
       /\ table' = Append(table, c)
       /\ conn' = [conn EXCEPT ![c].state = "open"]
       /\ \/ UNCHANGED producing
          \/ conn[c].io /\ conn[c].Path \in Routed /\ producing' = producing \cup {c}
       /\ pc' = [pc EXCEPT ![h] = IF conn[c].io /\ conn[c].Path \notin Routed
                                  THEN "gone" ELSE "reading"]
  /\ UNCHANGED <<opened, sent, datagram, out, served>>

(* An originator closes a connection it opened, perhaps for the second      *)
(* time.  A serial number that is not in the table ends the handler.        *)
forwardClose(h) ==
  /\ pc[h] = "reading"
  /\ \E c \in ToSet(opened[h]) :
       \/ /\ \E i \in DOMAIN table : GetByID(i, conn[c].ID) /\ CloseAt(i)
          /\ UNCHANGED pc
       \/ /\ \A i \in DOMAIN table : ConnAt(i).ID # conn[c].ID
          /\ pc' = [pc EXCEPT ![h] = "gone"]
          /\ UNCHANGED <<conn, table>>
  /\ UNCHANGED <<opened, producing, sent, datagram, out, served>>

(* Requests on a connection the originator opened.  The connection found by *)
(* its O->T id gives the path, and the path the provider.                   *)
Found(h, c, i) ==
  /\ pc[h] = "reading"
  /\ c \in ToSet(opened[h])
  /\ GetByOT(i, conn[c].OT)

Reply(asked, by, to) ==
  /\ served' = [asked |-> asked, by |-> by, to |-> to]
  /\ UNCHANGED <<pc, opened, conn, table, producing, sent, datagram, out>>

(* Read, FragRead and MultipleService. *)
connectedRead(h) ==
  \E c \in Conns, i \in DOMAIN table :
    Found(h, c, i) /\ ConnAt(i).Path \in Routed /\ Reply(c, table[i], table[i])

(* Write and GetInstanceAttributeList are answered to the T->O id of the    *)
(* handler's latest forward open.                                           *)
cipConnectedWrite(h) ==
  \E c \in Conns, i \in DOMAIN table :
    Found(h, c, i) /\ ConnAt(i).Path \in Routed /\ Reply(c, table[i], Last(opened[h]))

(* GetAttributeSingle asks no provider. *)
connectedGetAttr(h) ==
  \E c \in Conns, i \in DOMAIN table : Found(h, c, i) /\ Reply(c, table[i], table[i])

(* GetAttributeAll, and services the server does not know, are answered     *)
(* without a look at the table.                                             *)
connectedGetAttributeAll(h) ==
  /\ pc[h] = "reading"
  /\ \E c \in ToSet(opened[h]) : Reply(c, None, Last(opened[h]))

(* A connection that is not in the table, or a path without a provider,     *)
(* ends the handler.                                                        *)
ConnectionLost(h) ==
  /\ pc[h] = "reading"
  /\ \E c \in ToSet(opened[h]) :
       \A i \in DOMAIN table : GetByOT(i, conn[c].OT) => ConnAt(i).Path \notin Routed
  /\ pc' = [pc EXCEPT ![h] = "gone"]
  /\ UNCHANGED <<opened, conn, table, producing, sent, datagram, out, served>>

-----------------------------------------------------------------------------
(* I/O.                                                                     *)

(* An originator sends output data as soon as its forward open is answered. *)
OriginatorSends(c) ==
  /\ conn[c].state # "unused"
  /\ sent[c] < MaxSeq
  /\ sent' = [sent EXCEPT ![c] = @ + 1]
  /\ UNCHANGED <<pc, opened, conn, table, producing, datagram, out, served>>

(* The UDP loop takes a datagram: any that was sent, any number of times,   *)
(* in any order; and looks its connection up.  Datagrams without a          *)
(* connection or a provider are dropped.                                    *)
serveUDP(c) ==
  /\ datagram.path = None
  /\ \E n \in 1..sent[c], i \in DOMAIN table :
       /\ GetByOT(i, conn[c].OT)
       /\ ConnAt(i).Path \in Routed
       /\ datagram' = [from |-> c, seq |-> n, path |-> ConnAt(i).Path]
  /\ UNCHANGED <<pc, opened, conn, table, producing, sent, out, served>>

(* Mutant: the address item is stored along with the data. *)
IOWriteWholeItem ==
  /\ datagram.path # None
  /\ out' = [out EXCEPT ![datagram.path] = datagram]
  /\ datagram' = [from |-> None, seq |-> 0, path |-> None]
  /\ UNCHANGED <<pc, opened, conn, table, producing, sent, served>>

(* With the table's lock released, the provider stores it, whatever its     *)
(* sequence number.                                                         *)
IOWrite ==
  /\ datagram.path # None
  /\ out' = [out EXCEPT ![datagram.path] = [from |-> datagram.from, seq |-> datagram.seq]]
  /\ datagram' = [from |-> None, seq |-> 0, path |-> None]
  /\ UNCHANGED <<pc, opened, conn, table, producing, sent, served>>

(* Mutant: the goroutine works on a copy of the connection, made when it    *)
(* was opened.                                                              *)
ioConnectionCopy(c) ==
  /\ c \in producing
  /\ conn[c].state = "answered"
  /\ producing' = producing \ {c}
  /\ UNCHANGED <<pc, opened, conn, table, sent, datagram, out, served>>

(* A producing goroutine looks at Open on every tick. *)
ioConnectionStops(c) ==
  /\ c \in producing
  /\ conn[c].state = "closed"
  /\ producing' = producing \ {c}
  /\ UNCHANGED <<pc, opened, conn, table, sent, datagram, out, served>>

-----------------------------------------------------------------------------
Next ==
  \/ \E h \in Handlers :
       \/ Accept(h) \/ HandlerEnds(h) \/ Add(h) \/ forwardClose(h)
       \/ connectedRead(h) \/ cipConnectedWrite(h) \/ connectedGetAttr(h)
       \/ connectedGetAttributeAll(h) \/ ConnectionLost(h)
       \/ \E io \in BOOLEAN : forwardOpen(h, io)
  \/ \E c \in Conns : OriginatorSends(c) \/ serveUDP(c) \/ ioConnectionStops(c)
  \/ IOWrite

Spec == Init /\ [][Next]_vars

(* Handlers are scheduled and tickers fire; originators need do nothing.    *)
FairSpec ==
  /\ Spec
  /\ \A h \in Handlers : WF_vars(Add(h))
  /\ \A c \in Conns : WF_vars(ioConnectionStops(c))

-----------------------------------------------------------------------------
(* Properties.                                                              *)

(* Every field keeps its type: the table and the handlers' lists name       *)
(* connections, and a provider's output data is whole (serve, IOWrite).     *)
TypeOK ==
  /\ pc \in [Handlers -> {"off", "reading", "adding", "gone"}]
  /\ opened \in [Handlers -> Seq(Conns)]
  /\ conn \in [Conns -> serverConnection]
  /\ table \in Seq(Conns)
  /\ producing \subseteq Conns
  /\ sent \in [Conns -> 0..MaxSeq]
  /\ datagram \in [from : Conns \cup {None}, seq : 0..MaxSeq, path : Routed \cup {None}]
  /\ out \in [Routed -> [from : Conns \cup {None}, seq : 0..MaxSeq]]
  /\ served \in [asked : Conns \cup {None}, by : Conns \cup {None}, to : Conns \cup {None}]

(* The table holds each open connection once and nothing else, so that the  *)
(* swap that closes one never loses or doubles another.                     *)
TableExact ==
  /\ \A i, j \in DOMAIN table : table[i] = table[j] => i = j
  /\ \A c \in Conns : c \in ToSet(table) <=> conn[c].state = "open"

(* A connection belongs to one handler: what is open was opened once.       *)
Opener(h, c) == c \in ToSet(opened[h])

(* The table implements a set of connections, with the order it keeps and   *)
(* disturbs hidden.                                                         *)
Table == INSTANCE ConnectionSet WITH
           connections <- ToSet(table),
           known <- {c \in Conns : conn[c].state \in {"open", "closed"}}

(* serverConnectionManager behaves as that set: Add and CloseByID are its    *)
(* only changes, one connection at a time, and a closed one never returns.  *)
TableIsASet == Table!Spec

(* A goroutine that produces for a connection stops once that is closed.    *)
ProducersStop == \A c \in Conns : conn[c].state = "closed" ~> c \notin producing

(* If connections are numbered apart, a request is served through the       *)
(* connection it was sent on, whatever was opened and closed meanwhile.     *)
ServedByOwner == served.by \in {None, served.asked}

(* If connections are numbered apart, output data reaches only the provider *)
(* of the path its own connection was opened for, and only if that entered  *)
(* the table.                                                               *)
OutputsOwned ==
  [][\A p \in Routed : out'[p] # out[p] =>
       conn[out'[p].from].Path = p /\ conn[out'[p].from].state \in {"open", "closed"}]_vars

(* If connections are numbered apart, only a forward close closes a         *)
(* connection; and although it names it by the serial number alone, it is   *)
(* one that the handler which carries it out has opened.                    *)
OnlyOwnersClose ==
  [][\A c \in Conns : conn[c].state = "open" /\ conn'[c].state = "closed" =>
       /\ \E h \in Handlers : forwardClose(h)
       /\ \A h \in Handlers : forwardClose(h) => Opener(h, c)]_vars

(* Properties that documentation and comments claim and the code breaks.    *)

(* server.go:204 "if this function ends, close and remove ourselves from    *)
(* the server's open connection list": a handler that ended has no entry.   *)
GoneLeavesNothing ==
  \A h \in Handlers : pc[h] = "gone" =>
    \A c \in ToSet(opened[h]) : c \notin ToSet(table)

(* server_connected_connid_test.go:85 "every outbound reply on a connected  *)
(* session must address the connection's Target->Originator ID".            *)
ReplyAddressed == served.to = served.asked

(* server_io.go:86 "returns the most udpated copy of the output data": a    *)
(* provider's data is never replaced by older data of the same connection.  *)
NewestOutput ==
  [][\A p \in Routed : out'[p].from = out[p].from => out'[p].seq >= out[p].seq]_vars

(* server_connected.go:60 "path is part of the forward open we've           *)
(* previously received": a request is served along the path of a forward    *)
(* open of its own handler.                                                 *)
PathFromOwnOpen ==
  served.by # None => \E h \in Handlers : Opener(h, served.asked) /\ Opener(h, served.by)

=============================================================================
