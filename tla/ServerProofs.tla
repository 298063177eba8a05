---------------------------- MODULE ServerProofs ----------------------------
(***************************************************************************)
(* Proofs about the server's connections, for any number of handlers,      *)
(* connections and paths: the table is exact and implements a set, and     *)
(* requests and output data stay with the connection they belong to.       *)
(***************************************************************************)
EXTENDS Server, SequenceTheorems, TLAPS

USE ServerAssumption

(* No sequence element occurs twice. *)
Injective(t) == \A i, j \in DOMAIN t : t[i] = t[j] => i = j

(* Appending what is not there keeps a sequence without repetition.         *)
LEMMA AppendOne ==
  ASSUME NEW S, NEW t \in Seq(S), NEW c \in S, Injective(t), c \notin ToSet(t)
  PROVE  /\ Append(t, c) \in Seq(S)
         /\ Injective(Append(t, c))
         /\ ToSet(Append(t, c)) = ToSet(t) \cup {c}
<1> DEFINE u == Append(t, c)
<1>1. /\ u \in Seq(S)
      /\ DOMAIN u = 1..(Len(t) + 1)
      /\ \A i \in 1..Len(t) : u[i] = t[i]
      /\ u[Len(t) + 1] = c
  OBVIOUS
<1>2. Len(t) \in Nat /\ DOMAIN t = 1..Len(t)
  OBVIOUS
<1> HIDE DEF u
<1>3. Injective(u)
  BY <1>1, <1>2 DEF Injective, ToSet
<1>4. ToSet(u) = ToSet(t) \cup {c}
  BY <1>1, <1>2 DEF ToSet
<1> QED BY <1>1, <1>3, <1>4 DEF u

(* CloseByID's swap removes exactly the entry it found.                     *)
LEMMA SwapOut ==
  ASSUME NEW S, NEW t \in Seq(S), NEW k \in DOMAIN t, Injective(t)
  PROVE  /\ Front(ReplaceAt(t, k, Last(t))) \in Seq(S)
         /\ Injective(Front(ReplaceAt(t, k, Last(t))))
         /\ ToSet(Front(ReplaceAt(t, k, Last(t)))) = ToSet(t) \ {t[k]}
<1> DEFINE n == Len(t)
           r == ReplaceAt(t, k, Last(t))
           u == Front(r)
<1>1. n \in Nat /\ DOMAIN t = 1..n /\ k \in 1..n
  OBVIOUS
<1>2. r \in Seq(S) /\ Len(r) = n /\ \A i \in 1..n : r[i] = IF i = k THEN t[n] ELSE t[i]
  BY <1>1 DEF ReplaceAt, Last
<1>3. /\ u \in Seq(S)
      /\ DOMAIN u = 1..(n - 1)
      /\ \A i \in 1..(n - 1) : u[i] = IF i = k THEN t[n] ELSE t[i]
  <2>1. u = SubSeq(r, 1, n - 1)
    BY <1>2 DEF Front
  <2> HIDE DEF r
  <2>2. u \in Seq(S)
    BY <2>1, <1>1, <1>2
  <2>3. Len(u) = n - 1 /\ \A i \in 1..(n - 1) : u[i] = r[i]
    BY <2>1, <1>1, <1>2
  <2> QED BY <2>2, <2>3, <1>1, <1>2
<1> HIDE DEF n, r, u
<1>4. Injective(u)
  BY <1>1, <1>3 DEF Injective
<1>5. ToSet(u) = ToSet(t) \ {t[k]}
  <2>1. \A x \in ToSet(u) : x \in ToSet(t) \ {t[k]}
    BY <1>1, <1>3 DEF ToSet, Injective
  <2>2. ASSUME NEW j \in 1..n, j # k PROVE t[j] \in ToSet(u)
    <3>1. CASE j = n
      <4>1. k \in DOMAIN u /\ u[k] = t[j]
        BY <2>2, <3>1, <1>1, <1>3
      <4> QED BY <4>1 DEF ToSet
    <3>2. CASE j # n
      <4>1. j \in DOMAIN u /\ u[j] = t[j]
        BY <2>2, <3>2, <1>1, <1>3
      <4> QED BY <4>1 DEF ToSet
    <3> QED BY <3>1, <3>2
  <2>3. ToSet(t) \ {t[k]} \subseteq ToSet(u)
    BY <2>2, <1>1 DEF ToSet
  <2> QED BY <2>1, <2>3
<1> QED BY <1>3, <1>4, <1>5 DEF u, r

-----------------------------------------------------------------------------
(* A connection is opened once, by one handler, and is used from then on.   *)
OpenedOnce ==
  \A h, g \in Handlers : \A i \in DOMAIN opened[h], j \in DOMAIN opened[g] :
    opened[h][i] = opened[g][j] => h = g /\ i = j

OpenedUsed == \A h \in Handlers : \A i \in DOMAIN opened[h] : conn[opened[h][i]].state # "unused"

(* Between a forward open's answer and its Add, the connection waits.       *)
AddingAnswered ==
  \A h \in Handlers : pc[h] = "adding" =>
    opened[h] # <<>> /\ conn[Last(opened[h])].state = "answered"

TableInv == TypeOK /\ TableExact /\ OpenedOnce /\ OpenedUsed /\ AddingAnswered

LEMMA InitTable == Init => TableInv
<1> SUFFICES ASSUME Init PROVE TableInv
  OBVIOUS
<1>1. TypeOK
  BY DEF Init, TypeOK, Unused, serverConnection
<1>2. TableExact
  BY DEF Init, TableExact, ToSet, Unused
<1>3. OpenedOnce /\ OpenedUsed /\ AddingAnswered
  BY DEF Init, OpenedOnce, OpenedUsed, AddingAnswered
<1> QED BY <1>1, <1>2, <1>3 DEF TableInv

(* What the table's invariant depends on; most steps leave it alone.        *)
LEMMA Undisturbed ==
  ASSUME TableInv, TypeOK', UNCHANGED <<opened, conn, table>>,
         \A h \in Handlers : pc'[h] = "adding" => pc[h] = "adding"
  PROVE  TableInv'
<1>1. TableExact'
  BY DEF TableInv, TableExact
<1>2. OpenedOnce' /\ OpenedUsed' /\ AddingAnswered'
  BY DEF TableInv, OpenedOnce, OpenedUsed, AddingAnswered
<1> QED BY <1>1, <1>2 DEF TableInv

LEMMA OpenTable ==
  ASSUME TableInv, NEW h \in Handlers, NEW io \in BOOLEAN, forwardOpen(h, io)
  PROVE  TableInv'
<1>1. PICK c \in Conns, ID \in Ids, OT \in Ids, p \in Paths :
        /\ conn[c].state = "unused"
        /\ conn' = [conn EXCEPT ![c] =
                     [state |-> "answered", ID |-> ID, OT |-> OT, Path |-> p, io |-> io]]
        /\ opened' = [opened EXCEPT ![h] = Append(@, c)]
  BY DEF forwardOpen
<1>2. pc' = [pc EXCEPT ![h] = "adding"] /\ UNCHANGED <<table, producing, sent, datagram, out, served>>
  BY DEF forwardOpen
<1>3. TypeOK /\ opened[h] \in Seq(Conns)
  BY DEF TableInv, TypeOK
<1>4. TypeOK'
  BY <1>1, <1>2, <1>3 DEF TypeOK, serverConnection
<1>5. /\ \A g \in Handlers \ {h} : opened'[g] = opened[g]
      /\ opened'[h] = Append(opened[h], c)
      /\ \A d \in Conns \ {c} : conn'[d] = conn[d]
      /\ conn'[c].state = "answered"
  BY <1>1, <1>3 DEF TypeOK
<1>6. /\ DOMAIN opened[h] = 1..Len(opened[h])
      /\ Len(opened[h]) \in Nat
      /\ DOMAIN opened'[h] = 1..(Len(opened[h]) + 1)
      /\ \A i \in 1..Len(opened[h]) : opened'[h][i] = opened[h][i]
      /\ opened'[h][Len(opened[h]) + 1] = c
  BY <1>3, <1>5
<1>7. \A g \in Handlers : \A i \in DOMAIN opened[g] : opened[g][i] \in Conns \ {c}
  BY <1>1, <1>3 DEF TableInv, OpenedUsed, TypeOK
<1>8. OpenedOnce'
  <2> SUFFICES ASSUME NEW a \in Handlers, NEW b \in Handlers,
                      NEW i \in DOMAIN opened'[a], NEW j \in DOMAIN opened'[b],
                      opened'[a][i] = opened'[b][j]
               PROVE  a = b /\ i = j
    BY DEF OpenedOnce
  <2>1. \A g \in Handlers : \A k \in DOMAIN opened'[g] :
          \/ k \in DOMAIN opened[g] /\ opened'[g][k] = opened[g][k]
          \/ g = h /\ k = Len(opened[h]) + 1 /\ opened'[g][k] = c
    BY <1>5, <1>6
  <2> QED BY <2>1, <1>7 DEF TableInv, OpenedOnce
<1>9. OpenedUsed'
  <2>1. ASSUME NEW g \in Handlers, NEW i \in DOMAIN opened'[g]
        PROVE  conn'[opened'[g][i]].state # "unused"
    <3>1. \/ i \in DOMAIN opened[g] /\ opened'[g][i] = opened[g][i]
          \/ opened'[g][i] = c
      BY <1>5, <1>6
    <3> QED BY <3>1, <1>5, <1>7 DEF TableInv, OpenedUsed
  <2> QED BY <2>1 DEF OpenedUsed
<1>10. AddingAnswered'
  <2> SUFFICES ASSUME NEW g \in Handlers, pc'[g] = "adding"
               PROVE  opened'[g] # <<>> /\ conn'[Last(opened'[g])].state = "answered"
    BY DEF AddingAnswered
  <2>1. CASE g = h
    <3>1. Last(opened'[h]) = c /\ opened'[h] # <<>>
      BY <1>3, <1>5 DEF Last
    <3> QED BY <2>1, <3>1, <1>5
  <2>2. CASE g # h
    <3>1. pc[g] = "adding" /\ opened'[g] = opened[g]
      BY <2>2, <1>2, <1>3, <1>5 DEF TypeOK
    <3>2. opened[g] # <<>> /\ conn[Last(opened[g])].state = "answered"
      BY <3>1 DEF TableInv, AddingAnswered
    <3>3. Last(opened[g]) \in Conns /\ Last(opened[g]) # c
      BY <3>2, <1>1, <1>3 DEF Last, TypeOK
    <3> QED BY <3>1, <3>2, <3>3, <1>5
  <2> QED BY <2>1, <2>2
<1>11. TableExact'
  BY <1>1, <1>2, <1>5 DEF TableInv, TableExact
<1> QED BY <1>4, <1>8, <1>9, <1>10, <1>11 DEF TableInv

LEMMA AddTable ==
  ASSUME TableInv, NEW h \in Handlers, Add(h)
  PROVE  TableInv'
<1> DEFINE c == Last(opened[h])
<1>1. /\ pc[h] = "adding"
      /\ table' = Append(table, c)
      /\ conn' = [conn EXCEPT ![c].state = "open"]
      /\ producing' \in {producing, producing \cup {c}}
      /\ pc' \in {[pc EXCEPT ![h] = "gone"], [pc EXCEPT ![h] = "reading"]}
      /\ UNCHANGED <<opened, sent, datagram, out, served>>
  BY DEF Add
<1>2. TypeOK /\ opened[h] # <<>> /\ conn[c].state = "answered"
  BY <1>1 DEF TableInv, AddingAnswered
<1>3. opened[h] \in Seq(Conns) /\ table \in Seq(Conns)
  BY <1>2 DEF TypeOK
<1>4. Len(opened[h]) \in DOMAIN opened[h] /\ c = opened[h][Len(opened[h])] /\ c \in Conns
  BY <1>2, <1>3 DEF Last
<1> HIDE DEF c
<1>5. Injective(table) /\ c \notin ToSet(table)
  BY <1>2, <1>4 DEF TableInv, TableExact, Injective
<1>6. /\ table' \in Seq(Conns)
      /\ Injective(table')
      /\ ToSet(table') = ToSet(table) \cup {c}
  BY <1>1, <1>3, <1>4, <1>5, AppendOne
<1>7. conn'[c].state = "open" /\ \A d \in Conns \ {c} : conn'[d] = conn[d]
  BY <1>1, <1>2, <1>4 DEF TypeOK
<1>8. TypeOK'
  <2>1. conn' \in [Conns -> serverConnection]
    <3>1. conn \in [Conns -> serverConnection]
      BY <1>2 DEF TypeOK
    <3>2. [conn[c] EXCEPT !.state = "open"] \in serverConnection
      BY <3>1, <1>2, <1>4 DEF serverConnection
    <3> QED BY <1>1, <1>2, <1>4, <3>1, <3>2
  <2>2. pc' \in [Handlers -> {"off", "reading", "adding", "gone"}] /\ producing' \subseteq Conns
    BY <1>1, <1>2, <1>4 DEF TypeOK
  <2> QED BY <1>1, <1>2, <1>6, <2>1, <2>2 DEF TypeOK
<1>9. TableExact'
  BY <1>6, <1>7, <1>4 DEF TableInv, TableExact, Injective
<1>10. OpenedOnce'
  BY <1>1 DEF TableInv, OpenedOnce
<1>11. OpenedUsed'
  <2>1. ASSUME NEW g \in Handlers, NEW i \in DOMAIN opened[g]
        PROVE  conn'[opened[g][i]].state # "unused"
    <3>1. opened[g][i] \in Conns /\ conn[opened[g][i]].state # "unused"
      BY <1>2 DEF TypeOK, TableInv, OpenedUsed
    <3> QED BY <3>1, <1>7
  <2> QED BY <1>1, <2>1 DEF OpenedUsed
<1>12. AddingAnswered'
  <2> SUFFICES ASSUME NEW g \in Handlers, pc'[g] = "adding"
               PROVE  opened[g] # <<>> /\ conn'[Last(opened[g])].state = "answered"
    BY <1>1 DEF AddingAnswered
  <2>1. g # h /\ pc[g] = "adding"
    BY <1>1, <1>2 DEF TypeOK
  <2>2. opened[g] # <<>> /\ conn[Last(opened[g])].state = "answered" /\ opened[g] \in Seq(Conns)
    BY <2>1, <1>2 DEF TableInv, AddingAnswered, TypeOK
  <2>3. /\ Len(opened[g]) \in DOMAIN opened[g]
        /\ Last(opened[g]) = opened[g][Len(opened[g])]
        /\ Last(opened[g]) \in Conns
    BY <2>2 DEF Last
  <2>4. Last(opened[g]) # c
    BY <2>1, <2>3, <1>4 DEF TableInv, OpenedOnce
  <2> QED BY <2>2, <2>3, <2>4, <1>7
<1> QED BY <1>8, <1>9, <1>10, <1>11, <1>12 DEF TableInv

LEMMA CloseTable ==
  ASSUME TableInv, NEW i \in DOMAIN table, CloseAt(i),
         UNCHANGED <<pc, opened, producing, sent, datagram, out, served>>
  PROVE  /\ TableInv'
         /\ ToSet(table') = ToSet(table) \ {table[i]}
         /\ conn'[table[i]].state = "closed"
         /\ \A d \in Conns \ {table[i]} : conn'[d] = conn[d]
<1> DEFINE c == table[i]
<1>1. /\ table' = Front(ReplaceAt(table, i, Last(table)))
      /\ conn' = [conn EXCEPT ![c].state = "closed"]
  BY DEF CloseAt
<1>2. TypeOK /\ table \in Seq(Conns) /\ c \in Conns
  BY DEF TableInv, TypeOK
<1>3. Injective(table) /\ c \in ToSet(table)
  BY DEF TableInv, TableExact, Injective, ToSet
<1>4. /\ table' \in Seq(Conns)
      /\ Injective(table')
      /\ ToSet(table') = ToSet(table) \ {c}
  BY <1>1, <1>2, <1>3, SwapOut
<1> HIDE DEF c
<1>5. conn'[c].state = "closed" /\ conn[c].state = "open" /\ \A d \in Conns \ {c} : conn'[d] = conn[d]
  BY <1>1, <1>2, <1>3 DEF TypeOK, TableInv, TableExact
<1>6. TypeOK'
  <2>1. conn' \in [Conns -> serverConnection]
    <3>1. conn \in [Conns -> serverConnection]
      BY <1>2 DEF TypeOK
    <3>2. [conn[c] EXCEPT !.state = "closed"] \in serverConnection
      BY <3>1, <1>2 DEF serverConnection
    <3> QED BY <1>1, <1>2, <3>1, <3>2
  <2> QED BY <1>2, <1>4, <2>1 DEF TypeOK
<1>7. TableExact'
  BY <1>4, <1>5, <1>2 DEF TableInv, TableExact, Injective
<1>8. OpenedOnce'
  BY DEF TableInv, OpenedOnce
<1>9. OpenedUsed'
  <2>1. ASSUME NEW g \in Handlers, NEW j \in DOMAIN opened[g]
        PROVE  conn'[opened[g][j]].state # "unused"
    <3>1. opened[g][j] \in Conns /\ conn[opened[g][j]].state # "unused"
      BY <1>2 DEF TypeOK, TableInv, OpenedUsed
    <3> QED BY <3>1, <1>5
  <2> QED BY <2>1 DEF OpenedUsed
<1>10. AddingAnswered'
  <2> SUFFICES ASSUME NEW g \in Handlers, pc[g] = "adding"
               PROVE  opened[g] # <<>> /\ conn'[Last(opened[g])].state = "answered"
    BY DEF AddingAnswered
  <2>1. opened[g] # <<>> /\ conn[Last(opened[g])].state = "answered" /\ opened[g] \in Seq(Conns)
    BY <1>2 DEF TableInv, AddingAnswered, TypeOK
  <2>2. Last(opened[g]) \in Conns
    BY <2>1 DEF Last
  <2> QED BY <2>1, <2>2, <1>5
<1> QED BY <1>4, <1>5, <1>6, <1>7, <1>8, <1>9, <1>10 DEF TableInv, c

LEMMA NextTable == TableInv /\ [Next]_vars => TableInv'
<1> SUFFICES ASSUME TableInv, [Next]_vars PROVE TableInv'
  OBVIOUS
<1>1. TypeOK
  BY DEF TableInv
<1>2. ASSUME NEW h \in Handlers,
             Accept(h) \/ HandlerEnds(h) \/ connectedRead(h) \/ cipConnectedWrite(h)
               \/ connectedGetAttr(h) \/ connectedGetAttributeAll(h) \/ ConnectionLost(h)
      PROVE  TableInv'
  <2>1. UNCHANGED <<opened, conn, table, producing, sent, datagram, out>>
    BY <1>2 DEF Accept, HandlerEnds, connectedRead, cipConnectedWrite, connectedGetAttr,
                connectedGetAttributeAll, ConnectionLost, Reply
  <2>2. pc' \in [Handlers -> {"off", "reading", "adding", "gone"}]
        /\ \A g \in Handlers : pc'[g] = "adding" => pc[g] = "adding"
    BY <1>1, <1>2 DEF Accept, HandlerEnds, connectedRead, cipConnectedWrite, connectedGetAttr,
                connectedGetAttributeAll, ConnectionLost, Reply, TypeOK
  <2>3. served' \in [asked : Conns \cup {None}, by : Conns \cup {None}, to : Conns \cup {None}]
    <3>1. CASE UNCHANGED served
      BY <1>1, <3>1 DEF TypeOK
    <3>2. CASE ~UNCHANGED served
      <4>1. connectedRead(h) \/ cipConnectedWrite(h) \/ connectedGetAttr(h)
              \/ connectedGetAttributeAll(h)
        BY <1>2, <3>2 DEF Accept, HandlerEnds, ConnectionLost
      <4>2. opened[h] \in Seq(Conns) /\ table \in Seq(Conns)
        BY <1>1 DEF TypeOK
      <4>3. PICK c \in ToSet(opened[h]), by \in ToSet(table) \cup {None},
                 to \in ToSet(table) \cup {Last(opened[h])} :
              served' = [asked |-> c, by |-> by, to |-> to]
        BY <4>1 DEF connectedRead, cipConnectedWrite, connectedGetAttr,
                    connectedGetAttributeAll, Reply, Found, ToSet
      <4>4. ToSet(opened[h]) \subseteq Conns /\ ToSet(table) \subseteq Conns
        BY <4>2 DEF ToSet
      <4>5. Last(opened[h]) \in Conns
        BY <4>2, <4>3 DEF Last, ToSet
      <4> QED BY <4>3, <4>4, <4>5
    <3> QED BY <3>1, <3>2
  <2>4. TypeOK'
    BY <1>1, <2>1, <2>2, <2>3 DEF TypeOK
  <2> QED BY <2>1, <2>2, <2>4, Undisturbed
<1>3. ASSUME NEW h \in Handlers, forwardClose(h) PROVE TableInv'
  <2>1. CASE \E i \in DOMAIN table : CloseAt(i) /\ UNCHANGED pc
    BY <1>3, <2>1, CloseTable DEF forwardClose
  <2>2. CASE pc' = [pc EXCEPT ![h] = "gone"] /\ UNCHANGED <<conn, table>>
    <3>1. TypeOK' /\ UNCHANGED <<opened, conn, table>>
      BY <1>1, <1>3, <2>2 DEF forwardClose, TypeOK
    <3>2. \A g \in Handlers : pc'[g] = "adding" => pc[g] = "adding"
      BY <1>1, <2>2 DEF TypeOK
    <3> QED BY <3>1, <3>2, Undisturbed
  <2> QED BY <1>3, <2>1, <2>2 DEF forwardClose
<1>4. ASSUME NEW c \in Conns, OriginatorSends(c) \/ serveUDP(c) \/ ioConnectionStops(c)
      PROVE  TableInv'
  <2>1. UNCHANGED <<pc, opened, conn, table, out, served>>
    BY <1>4 DEF OriginatorSends, serveUDP, ioConnectionStops
  <2>2. /\ sent' \in [Conns -> 0..MaxSeq]
        /\ producing' \subseteq Conns
        /\ datagram' \in [from : Conns \cup {None}, seq : 0..MaxSeq, path : Routed \cup {None}]
    BY <1>1, <1>4 DEF OriginatorSends, serveUDP, ioConnectionStops, TypeOK
  <2>3. TypeOK'
    BY <1>1, <2>1, <2>2 DEF TypeOK
  <2> QED BY <2>1, <2>3, Undisturbed
<1>5. ASSUME IOWrite PROVE TableInv'
  <2>1. TypeOK' /\ UNCHANGED <<pc, opened, conn, table>>
    BY <1>1, <1>5 DEF IOWrite, TypeOK
  <2> QED BY <2>1, Undisturbed
<1>6. CASE UNCHANGED vars
  <2>1. TypeOK' /\ UNCHANGED <<pc, opened, conn, table>>
    BY <1>1, <1>6 DEF vars, TypeOK
  <2> QED BY <2>1, Undisturbed
<1> QED BY <1>2, <1>3, <1>4, <1>5, <1>6, OpenTable, AddTable DEF Next

(* The server's variables have their types.                                 *)
THEOREM ServerTypeCorrect == Spec => []TypeOK
<1>1. TableInv => TypeOK
  BY DEF TableInv
<1> QED BY InitTable, NextTable, <1>1, PTL DEF Spec

(* The table of open connections holds each one once, and nothing else.     *)
THEOREM TableIsExact == Spec => []TableExact
<1>1. TableInv => TableExact
  BY DEF TableInv
<1> QED BY InitTable, NextTable, <1>1, PTL DEF Spec

-----------------------------------------------------------------------------
(* Every step of the server is one of the abstract set, or none.            *)
LEMMA TableSteps ==
  ASSUME TableInv, [Next]_vars
  PROVE  \/ UNCHANGED <<ToSet(table), {c \in Conns : conn[c].state \in {"open", "closed"}}>>
         \/ \E c \in Conns : Table!Add(c) \/ Table!Close(c)
<1> DEFINE Known == {c \in Conns : conn[c].state \in {"open", "closed"}}
<1>1. TypeOK
  BY DEF TableInv
<1>2. CASE UNCHANGED <<table, conn>>
  BY <1>2
<1>3. ASSUME NEW h \in Handlers, NEW io \in BOOLEAN, forwardOpen(h, io)
      PROVE  UNCHANGED <<ToSet(table), Known>>
  <2>1. PICK c \in Conns : /\ conn[c].state = "unused"
                           /\ conn'[c].state = "answered"
                           /\ \A d \in Conns \ {c} : conn'[d] = conn[d]
    BY <1>1, <1>3 DEF forwardOpen, TypeOK
  <2>2. UNCHANGED table
    BY <1>3 DEF forwardOpen
  <2>3. \A d \in Conns : conn'[d].state \in {"open", "closed"} <=> conn[d].state \in {"open", "closed"}
    BY <2>1
  <2>4. Known' = Known
    BY <2>3
  <2> QED BY <2>2, <2>4
<1>4. ASSUME NEW h \in Handlers, Add(h) PROVE \E c \in Conns : Table!Add(c)
  <2> DEFINE c == Last(opened[h])
  <2>1. opened[h] \in Seq(Conns) /\ opened[h] # <<>> /\ conn[c].state = "answered"
    BY <1>1, <1>4 DEF TableInv, TypeOK, AddingAnswered, Add
  <2>2. c \in Conns
    BY <2>1 DEF Last
  <2>3. table' = Append(table, c) /\ conn' = [conn EXCEPT ![c].state = "open"]
    BY <1>4 DEF Add
  <2> HIDE DEF c
  <2>4. conn'[c].state = "open" /\ \A d \in Conns \ {c} : conn'[d] = conn[d]
    BY <1>1, <2>2, <2>3 DEF TypeOK
  <2>5. Known' = Known \cup {c} /\ c \notin Known
    BY <2>1, <2>2, <2>4
  <2>6. table \in Seq(Conns) /\ Injective(table) /\ c \notin ToSet(table)
    BY <1>1, <2>1, <2>2 DEF TypeOK, TableInv, TableExact, Injective
  <2>7. ToSet(table') = ToSet(table) \cup {c}
    BY <2>2, <2>3, <2>6, AppendOne
  <2> QED BY <2>2, <2>5, <2>7 DEF Table!Add
<1>5. ASSUME NEW h \in Handlers, forwardClose(h)
      PROVE  UNCHANGED <<table, conn>> \/ \E c \in Conns : Table!Close(c)
  <2>1. CASE \E i \in DOMAIN table : CloseAt(i) /\ UNCHANGED pc
    <3>1. PICK i \in DOMAIN table : CloseAt(i) /\ UNCHANGED pc
      BY <2>1
    <3>2. UNCHANGED <<pc, opened, producing, sent, datagram, out, served>>
      BY <1>5, <3>1 DEF forwardClose
    <3>3. /\ ToSet(table') = ToSet(table) \ {table[i]}
          /\ conn'[table[i]].state = "closed"
          /\ \A d \in Conns \ {table[i]} : conn'[d] = conn[d]
      BY <3>1, <3>2, CloseTable
    <3>4. table[i] \in Conns /\ table[i] \in ToSet(table)
      BY <1>1 DEF TypeOK, ToSet
    <3>5. conn[table[i]].state = "open"
      BY <3>4 DEF TableInv, TableExact
    <3>6. Known' = Known
      BY <3>3, <3>4, <3>5
    <3> QED BY <3>3, <3>4, <3>6 DEF Table!Close
  <2> QED BY <1>5, <2>1 DEF forwardClose
<1>6. ASSUME NEW h \in Handlers,
             Accept(h) \/ HandlerEnds(h) \/ connectedRead(h) \/ cipConnectedWrite(h)
               \/ connectedGetAttr(h) \/ connectedGetAttributeAll(h) \/ ConnectionLost(h)
      PROVE  UNCHANGED <<table, conn>>
  BY <1>6 DEF Accept, HandlerEnds, connectedRead, cipConnectedWrite, connectedGetAttr,
              connectedGetAttributeAll, ConnectionLost, Reply
<1>7. ASSUME NEW c \in Conns, OriginatorSends(c) \/ serveUDP(c) \/ ioConnectionStops(c)
      PROVE  UNCHANGED <<table, conn>>
  BY <1>7 DEF OriginatorSends, serveUDP, ioConnectionStops
<1>8. IOWrite \/ UNCHANGED vars => UNCHANGED <<table, conn>>
  BY DEF IOWrite, vars
<1> QED BY <1>2, <1>3, <1>4, <1>5, <1>6, <1>7, <1>8 DEF Next

(* The slice with its swaps implements the abstract set of connections.     *)
THEOREM TableImplementsSet == Spec => TableIsASet
<1>1. Init => Table!Init
  BY DEF Init, Table!Init, Unused, ToSet
<1>2. TableInv /\ [Next]_vars =>
        [Table!Next]_<<ToSet(table), {c \in Conns : conn[c].state \in {"open", "closed"}}>>
  BY TableSteps DEF Table!Next
<1> QED BY InitTable, NextTable, <1>1, <1>2, PTL DEF Spec, TableIsASet, Table!Spec

-----------------------------------------------------------------------------
(* Numbers of connections in use differ; so the first entry that matches a  *)
(* connection's number is that connection.                                  *)
IdsApart ==
  \A c, d \in Conns :
    /\ conn[c].state # "unused" /\ conn[d].state # "unused"
    /\ conn[c].OT = conn[d].OT \/ conn[c].ID = conn[d].ID
    => c = d

(* Only connections in use carry data, and data is held for its own path.   *)
DataInv ==
  /\ \A c \in Conns : sent[c] # 0 => conn[c].state # "unused"
  /\ datagram.path # None =>
       /\ datagram.from \in Conns
       /\ conn[datagram.from].Path = datagram.path
       /\ conn[datagram.from].state \in {"open", "closed"}

OwnInv == TableInv /\ IdsApart /\ DataInv /\ ServedByOwner

LEMMA FirstMatchIsOwn ==
  ASSUME OwnInv, NEW c \in Conns, conn[c].state # "unused", NEW i \in DOMAIN table,
         GetByOT(i, conn[c].OT) \/ GetByID(i, conn[c].ID)
  PROVE  table[i] = c
<1>1. table[i] \in Conns /\ table[i] \in ToSet(table)
  BY DEF OwnInv, TableInv, TypeOK, ToSet
<1>2. conn[table[i]].state # "unused"
  BY <1>1 DEF OwnInv, TableInv, TableExact
<1> QED BY <1>1, <1>2 DEF OwnInv, IdsApart, GetByOT, GetByID, ConnAt

LEMMA InitOwn == Init => OwnInv
<1> SUFFICES ASSUME Init PROVE OwnInv
  OBVIOUS
<1>1. IdsApart /\ DataInv /\ ServedByOwner
  BY DEF Init, IdsApart, DataInv, ServedByOwner, Unused
<1> QED BY <1>1, InitTable DEF OwnInv

(* A step that keeps every connection's numbers and path, and moves no data *)
(* and no reply, keeps the invariant.                                       *)
LEMMA KeepsOwn ==
  ASSUME OwnInv, TableInv', UNCHANGED <<sent, datagram, served>>,
         \A c \in Conns : /\ conn'[c].OT = conn[c].OT /\ conn'[c].ID = conn[c].ID
                          /\ conn'[c].Path = conn[c].Path
                          /\ conn[c].state = "unused" => conn'[c].state = "unused"
                          /\ conn'[c].state = "unused" => conn[c].state = "unused"
                          /\ conn[c].state \in {"open", "closed"} =>
                               conn'[c].state \in {"open", "closed"}
  PROVE  OwnInv'
<1>1. IdsApart'
  BY DEF OwnInv, IdsApart
<1>2. DataInv'
  BY DEF OwnInv, DataInv
<1>3. ServedByOwner'
  BY DEF OwnInv, ServedByOwner
<1> QED BY <1>1, <1>2, <1>3 DEF OwnInv

LEMMA NextOwn ==
  ASSUME DistinctIds, OwnInv, [Next]_vars
  PROVE  OwnInv'
<1>1. TableInv /\ TableInv' /\ TypeOK /\ TypeOK'
  BY NextTable DEF OwnInv, TableInv
<1>2. CASE UNCHANGED <<conn, sent, datagram, served>>
  BY <1>1, <1>2, KeepsOwn
<1>3. ASSUME NEW h \in Handlers,
             connectedRead(h) \/ cipConnectedWrite(h) \/ connectedGetAttr(h)
               \/ connectedGetAttributeAll(h)
      PROVE  OwnInv'
  <2>1. UNCHANGED <<conn, sent, datagram>>
    BY <1>3 DEF connectedRead, cipConnectedWrite, connectedGetAttr, connectedGetAttributeAll, Reply
  <2>2. ServedByOwner'
    <3>1. CASE connectedGetAttributeAll(h)
      BY <3>1 DEF connectedGetAttributeAll, Reply, ServedByOwner
    <3>2. CASE connectedRead(h) \/ cipConnectedWrite(h) \/ connectedGetAttr(h)
      <4>1. PICK c \in Conns, i \in DOMAIN table :
              Found(h, c, i) /\ served'.asked = c /\ served'.by = table[i]
        BY <3>2 DEF connectedRead, cipConnectedWrite, connectedGetAttr, Reply
      <4>2. conn[c].state # "unused"
        BY <4>1, <1>1 DEF Found, ToSet, TableInv, OpenedUsed
      <4>3. table[i] = c
        BY <4>1, <4>2, FirstMatchIsOwn DEF Found
      <4> QED BY <4>1, <4>3 DEF ServedByOwner
    <3> QED BY <1>3, <3>1, <3>2
  <2>3. IdsApart' /\ DataInv'
    BY <2>1 DEF OwnInv, IdsApart, DataInv
  <2> QED BY <1>1, <2>2, <2>3 DEF OwnInv
<1>4. ASSUME NEW h \in Handlers, NEW io \in BOOLEAN, forwardOpen(h, io) PROVE OwnInv'
  <2>1. PICK c \in Conns, ID \in Ids, OT \in Ids :
          /\ conn[c].state = "unused"
          /\ \A d \in Conns : conn[d].state # "unused" => conn[d].OT # OT /\ conn[d].ID # ID
          /\ conn'[c].state = "answered" /\ conn'[c].OT = OT /\ conn'[c].ID = ID
          /\ \A d \in Conns \ {c} : conn'[d] = conn[d]
    BY <1>1, <1>4 DEF forwardOpen, Agreed, TypeOK
  <2>2. UNCHANGED <<sent, datagram, served>>
    BY <1>4 DEF forwardOpen
  <2>3. IdsApart'
    BY <2>1 DEF OwnInv, IdsApart
  <2>4. DataInv'
    BY <2>1, <2>2 DEF OwnInv, DataInv
  <2>5. ServedByOwner'
    BY <2>2 DEF OwnInv, ServedByOwner
  <2> QED BY <1>1, <2>3, <2>4, <2>5 DEF OwnInv
<1>5. ASSUME NEW h \in Handlers, Add(h) PROVE OwnInv'
  <2> DEFINE c == Last(opened[h])
  <2>1. opened[h] \in Seq(Conns) /\ opened[h] # <<>> /\ conn[c].state = "answered"
    BY <1>1, <1>5 DEF TableInv, TypeOK, AddingAnswered, Add
  <2>2. c \in Conns
    BY <2>1 DEF Last
  <2>3. conn' = [conn EXCEPT ![c].state = "open"] /\ UNCHANGED <<sent, datagram, served>>
    BY <1>5 DEF Add
  <2> HIDE DEF c
  <2>4. /\ \A d \in Conns \ {c} : conn'[d] = conn[d]
        /\ conn'[c].state = "open"
        /\ conn'[c].OT = conn[c].OT /\ conn'[c].ID = conn[c].ID /\ conn'[c].Path = conn[c].Path
    BY <1>1, <2>2, <2>3 DEF TypeOK, serverConnection
  <2> QED BY <1>1, <2>1, <2>3, <2>4, KeepsOwn
<1>6. ASSUME NEW h \in Handlers, forwardClose(h) PROVE OwnInv'
  <2>1. UNCHANGED <<sent, datagram, served>>
    BY <1>6 DEF forwardClose
  <2>2. CASE \E i \in DOMAIN table : CloseAt(i)
    <3>1. PICK i \in DOMAIN table : CloseAt(i)
      BY <2>2
    <3> DEFINE c == table[i]
    <3>2. c \in Conns /\ c \in ToSet(table)
      BY <1>1 DEF TypeOK, ToSet
    <3>3. conn[c].state = "open"
      BY <1>1, <3>2 DEF TableInv, TableExact
    <3>4. conn' = [conn EXCEPT ![c].state = "closed"]
      BY <3>1 DEF CloseAt
    <3> HIDE DEF c
    <3>5. /\ \A d \in Conns \ {c} : conn'[d] = conn[d]
          /\ conn'[c].state = "closed"
          /\ conn'[c].OT = conn[c].OT /\ conn'[c].ID = conn[c].ID /\ conn'[c].Path = conn[c].Path
      BY <1>1, <3>2, <3>4 DEF TypeOK, serverConnection
    <3> QED BY <1>1, <2>1, <3>3, <3>5, KeepsOwn
  <2>3. CASE UNCHANGED conn
    BY <1>2, <2>1, <2>3
  <2> QED BY <1>6, <2>2, <2>3 DEF forwardClose
<1>7. ASSUME NEW c \in Conns, serveUDP(c) PROVE OwnInv'
  <2>1. PICK n \in 1..sent[c], i \in DOMAIN table :
          /\ GetByOT(i, conn[c].OT)
          /\ datagram' = [from |-> c, seq |-> n, path |-> conn[table[i]].Path]
    BY <1>7 DEF serveUDP, ConnAt
  <2>2. UNCHANGED <<conn, table, sent, served>>
    BY <1>7 DEF serveUDP
  <2>3. sent[c] # 0
    BY <1>1, <2>1 DEF TypeOK
  <2>4. conn[c].state # "unused"
    BY <2>3 DEF OwnInv, DataInv
  <2>5. table[i] = c
    BY <2>1, <2>4, FirstMatchIsOwn
  <2>6. conn[c].state = "open"
    BY <1>1, <2>5 DEF TableInv, TableExact, ToSet
  <2>7. DataInv'
    BY <2>1, <2>2, <2>5, <2>6 DEF OwnInv, DataInv
  <2> QED BY <1>1, <2>2, <2>7 DEF OwnInv, IdsApart, ServedByOwner
<1>8. ASSUME NEW c \in Conns, OriginatorSends(c) PROVE OwnInv'
  <2>1. UNCHANGED <<conn, datagram, served>> /\ conn[c].state # "unused"
    BY <1>8 DEF OriginatorSends
  <2>2. \A d \in Conns \ {c} : sent'[d] = sent[d]
    BY <1>1, <1>8 DEF OriginatorSends, TypeOK
  <2>3. DataInv'
    BY <2>1, <2>2 DEF OwnInv, DataInv
  <2> QED BY <1>1, <2>1, <2>3 DEF OwnInv, IdsApart, ServedByOwner
<1>9. ASSUME IOWrite PROVE OwnInv'
  <2>1. UNCHANGED <<conn, sent, served>> /\ datagram'.path = None
    BY <1>9 DEF IOWrite
  <2> QED BY <1>1, <2>1 DEF OwnInv, IdsApart, ServedByOwner, DataInv
<1>10. ASSUME NEW h \in Handlers, Accept(h) \/ HandlerEnds(h) \/ ConnectionLost(h)
       PROVE  OwnInv'
  BY <1>2, <1>10 DEF Accept, HandlerEnds, ConnectionLost
<1>11. ASSUME NEW c \in Conns, ioConnectionStops(c) PROVE OwnInv'
  BY <1>2, <1>11 DEF ioConnectionStops
<1>12. CASE UNCHANGED vars
  BY <1>2, <1>12 DEF vars
<1> QED BY <1>3, <1>4, <1>5, <1>6, <1>7, <1>8, <1>9, <1>10, <1>11, <1>12 DEF Next

(* If originators number their connections apart, a request is always       *)
(* served through the connection it was sent on.                            *)
THEOREM RequestsStayOwned ==
  ASSUME DistinctIds
  PROVE  Spec => []ServedByOwner
<1>1. OwnInv /\ [Next]_vars => OwnInv'
  BY NextOwn
<1>2. OwnInv => ServedByOwner
  BY DEF OwnInv
<1> QED BY InitOwn, <1>1, <1>2, PTL DEF Spec

(* If originators number their connections apart, output data goes to the   *)
(* provider of its own connection's path, even when that was closed between *)
(* the look-up and the write.                                               *)
THEOREM OutputsStayOwned ==
  ASSUME DistinctIds
  PROVE  Spec => OutputsOwned
<1>1. OwnInv /\ [Next]_vars => OwnInv'
  BY NextOwn
<1>2. ASSUME OwnInv, [Next]_vars, NEW p \in Routed, out'[p] # out[p]
      PROVE  conn[out'[p].from].Path = p /\ conn[out'[p].from].state \in {"open", "closed"}
  <2>1. IOWrite
    BY <1>2 DEF Next, vars, Accept, HandlerEnds, Add, forwardClose, connectedRead, cipConnectedWrite,
                connectedGetAttr, connectedGetAttributeAll, ConnectionLost, Reply, forwardOpen,
                OriginatorSends, serveUDP, ioConnectionStops
  <2>2. p = datagram.path /\ out'[p].from = datagram.from /\ datagram.path # None
    BY <1>2, <2>1 DEF IOWrite, OwnInv, TableInv, TypeOK
  <2> QED BY <1>2, <2>2 DEF OwnInv, DataInv
<1>3. OwnInv /\ [Next]_vars =>
        [\A p \in Routed : out'[p] # out[p] =>
           conn[out'[p].from].Path = p /\ conn[out'[p].from].state \in {"open", "closed"}]_vars
  BY <1>2
<1> QED BY InitOwn, <1>1, <1>3, PTL DEF Spec, OutputsOwned

(* If originators number their connections apart, a forward close, which    *)
(* names a connection by its serial number alone, closes one of its own     *)
(* handler's.                                                               *)
THEOREM ClosesStayOwned ==
  ASSUME DistinctIds
  PROVE  Spec => OnlyOwnersClose
<1>1. OwnInv /\ [Next]_vars => OwnInv'
  BY NextOwn
<1>2. ASSUME OwnInv, [Next]_vars, NEW c \in Conns, conn[c].state = "open", conn'[c].state = "closed"
      PROVE  /\ \E h \in Handlers : forwardClose(h)
             /\ \A h \in Handlers : forwardClose(h) => Opener(h, c)
  <2>1. TypeOK
    BY <1>2 DEF OwnInv, TableInv
  <2>2. ASSUME NEW h \in Handlers, NEW io \in BOOLEAN, forwardOpen(h, io) PROVE FALSE
    BY <1>2, <2>1, <2>2 DEF forwardOpen, TypeOK
  <2>3. ASSUME NEW h \in Handlers, Add(h) PROVE FALSE
    <3>1. Last(opened[h]) \in Conns
      <4>1. opened[h] \in Seq(Conns) /\ opened[h] # <<>>
        BY <1>2, <2>1, <2>3 DEF OwnInv, TableInv, TypeOK, AddingAnswered, Add
      <4> QED BY <4>1 DEF Last
    <3>2. conn' = [conn EXCEPT ![Last(opened[h])].state = "open"]
      BY <2>3 DEF Add
    <3> QED BY <1>2, <2>1, <3>1, <3>2 DEF TypeOK, serverConnection
  <2>4. \E h \in Handlers : forwardClose(h)
    BY <1>2, <2>2, <2>3 DEF Next, vars, Accept, HandlerEnds, connectedRead, cipConnectedWrite,
                connectedGetAttr, connectedGetAttributeAll, ConnectionLost, Reply,
                OriginatorSends, serveUDP, ioConnectionStops, IOWrite
  <2>5. ASSUME NEW h \in Handlers, forwardClose(h) PROVE Opener(h, c)
    <3>1. PICK d \in ToSet(opened[h]), i \in DOMAIN table : GetByID(i, conn[d].ID) /\ CloseAt(i)
      BY <1>2, <2>5 DEF forwardClose
    <3>2. table[i] = c
      BY <1>2, <2>1, <3>1 DEF CloseAt, TypeOK
    <3>3. d \in Conns /\ conn[d].state # "unused"
      BY <1>2, <2>1 DEF ToSet, TypeOK, OwnInv, TableInv, OpenedUsed
    <3>4. table[i] = d
      BY <1>2, <3>1, <3>3, FirstMatchIsOwn
    <3> QED BY <3>2, <3>4 DEF Opener
  <2> QED BY <2>4, <2>5
<1>3. OwnInv /\ [Next]_vars =>
        [\A c \in Conns : conn[c].state = "open" /\ conn'[c].state = "closed" =>
           /\ \E h \in Handlers : forwardClose(h)
           /\ \A h \in Handlers : forwardClose(h) => Opener(h, c)]_vars
  BY <1>2
<1> QED BY InitOwn, <1>1, <1>3, PTL DEF Spec, OnlyOwnersClose

=============================================================================
