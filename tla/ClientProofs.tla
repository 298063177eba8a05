---------------------------- MODULE ClientProofs ----------------------------
(***************************************************************************)
(* Proofs about Client, for every number of goroutines, sockets and calls. *)
(***************************************************************************)
EXTENDS Client, SequenceTheorems, TLAPS

(* Labels at which a goroutine has no caller to return to. *)
BaseLabels == {"idle", "op_checked", "op_done", "ka_begin"} \cup KeepAliveBody

(* The labels of a goroutine, callers first: the first is a base label and  *)
(* no other is.  A goroutine that returns therefore finds a return label.   *)
StackOK ==
  \A g \in G :
    /\ pc[g] \in BaseLabels <=> Len(stack[g]) = 0
    /\ \A i \in 1..Len(stack[g]) : stack[g][i] \in BaseLabels <=> i = 1

ControlOK == pc \in [G -> Labels] /\ stack \in [G -> Seq(Labels)] /\ StackOK

USE DEF BaseLabels, KeepAliveBody, ConnectBody, DisconnectBody, ExchangeBody, Labels,
        registerSession, forwardOpenLarge, forwardOpenStandard, forwardClose, GetAttrList

(* Jumping inside a procedure keeps the stacks well formed.                 *)
LEMMA GotoControl ==
  ASSUME ControlOK, NEW g \in G, NEW l \in Labels, Goto(g, l),
         l \in BaseLabels <=> pc[g] \in BaseLabels
  PROVE  ControlOK'
BY DEF ControlOK, StackOK, Goto

(* So does calling a procedure, if the return label belongs to the caller.  *)
LEMMA CallControl ==
  ASSUME ControlOK, NEW g \in G, NEW l \in Labels \ BaseLabels, NEW ret \in Labels,
         Call(g, l, ret), ret \in BaseLabels <=> pc[g] \in BaseLabels
  PROVE  ControlOK'
<1>1. pc' \in [G -> Labels] /\ stack' \in [G -> Seq(Labels)]
  BY DEF ControlOK, Call
<1>2. ASSUME NEW h \in G
      PROVE  /\ pc'[h] \in BaseLabels <=> Len(stack'[h]) = 0
             /\ \A i \in 1..Len(stack'[h]) : stack'[h][i] \in BaseLabels <=> i = 1
  <2>1. CASE h # g
    BY <2>1 DEF ControlOK, StackOK, Call
  <2>2. CASE h = g
    <3>1. stack[g] \in Seq(Labels) /\ stack'[g] = Append(stack[g], ret) /\ pc'[g] = l
      BY DEF ControlOK, Call
    <3>2. Len(stack'[g]) = Len(stack[g]) + 1
      BY <3>1
    <3>3. \A i \in 1..Len(stack[g]) : stack'[g][i] = stack[g][i]
      BY <3>1
    <3>4. stack'[g][Len(stack[g]) + 1] = ret
      BY <3>1
    <3>5. pc[g] \in BaseLabels <=> Len(stack[g]) = 0
      BY DEF ControlOK, StackOK
    <3>6. \A i \in 1..Len(stack[g]) : stack[g][i] \in BaseLabels <=> i = 1
      BY DEF ControlOK, StackOK
    <3>7. Len(stack[g]) \in Nat
      BY <3>1
    <3>8. l \notin BaseLabels
      OBVIOUS
    <3> QED
      <4> HIDE DEF BaseLabels
      <4> QED BY <2>2, <3>1, <3>2, <3>3, <3>4, <3>5, <3>6, <3>7, <3>8
  <2> QED BY <2>1, <2>2
<1> QED BY <1>1, <1>2 DEF ControlOK, StackOK

(* So does returning, and there is a caller to return to.                   *)
LEMMA ReturnControl ==
  ASSUME ControlOK, NEW g \in G, pc[g] \notin BaseLabels, Return(g)
  PROVE  ControlOK' /\ Top(g) \in Labels
<1> DEFINE n == Len(stack[g])
<1>1. stack[g] \in Seq(Labels) /\ n \in Nat /\ n # 0
  BY DEF ControlOK, StackOK
<1>2. Top(g) \in Labels
  BY <1>1 DEF Top
<1>3. /\ stack'[g] = SubSeq(stack[g], 1, n - 1)
      /\ pc'[g] = stack[g][n]
  BY DEF Return, ControlOK, Top
<1>4. /\ stack'[g] \in Seq(Labels) /\ Len(stack'[g]) = n - 1
      /\ \A i \in 1..(n - 1) : stack'[g][i] = stack[g][i]
  BY <1>1, <1>3
<1>5. pc' \in [G -> Labels] /\ stack' \in [G -> Seq(Labels)]
  BY <1>2, <1>3, <1>4 DEF ControlOK, Return
<1>6. ASSUME NEW h \in G
      PROVE  /\ pc'[h] \in BaseLabels <=> Len(stack'[h]) = 0
             /\ \A i \in 1..Len(stack'[h]) : stack'[h][i] \in BaseLabels <=> i = 1
  <2>1. CASE h # g
    BY <2>1 DEF ControlOK, StackOK, Return
  <2>2. CASE h = g
    <3>1. \A i \in 1..n : stack[g][i] \in BaseLabels <=> i = 1
      BY DEF ControlOK, StackOK
    <3> HIDE DEF n, BaseLabels
    <3> QED BY <2>2, <3>1, <1>1, <1>3, <1>4
  <2> QED BY <2>1, <2>2
<1> QED BY <1>2, <1>5, <1>6 DEF ControlOK, StackOK

-----------------------------------------------------------------------------
(* Type correctness.                                                        *)

TypeInv == TypeOK /\ StackOK

(* The part of the type invariant that is not about control.                *)
DataOK ==
  /\ connStatus \in Status
  /\ mutex \in G \cup {Free}
  /\ conn \in Sockets \cup {None}
  /\ large \in BOOLEAN
  /\ open \subseteq Sockets
  /\ pend \in [Sockets -> Seq(G \cup {Stale})]
  /\ snap \in [G -> Status]
  /\ res \in [G -> {"ok", "err"}]
  /\ got \in [G -> {"none", "own", "other"}]
  /\ KeepAliveAutoStart \in BOOLEAN
  /\ keepAliveRunning \in BOOLEAN
  /\ cancel \in Nat
  /\ closed \subseteq 1..cancel
  /\ waitsOn \in [G -> 0..cancel]
  /\ calls \in [Users -> 0..MaxCalls]
  /\ ticks \in 0..MaxTicks
  /\ crash \in Crashes

LEMMA TypeInvParts == TypeInv <=> DataOK /\ ControlOK
BY DEF TypeInv, TypeOK, DataOK, ControlOK

(* Giving up a request leaves a queue of requests.                          *)
LEMMA AbandonType ==
  ASSUME NEW q \in Seq(G \cup {Stale}), NEW g
  PROVE  /\ Abandon(q, g) \in Seq(G \cup {Stale})
         /\ Len(Abandon(q, g)) = Len(q)
         /\ \A i \in 1..Len(q) : Abandon(q, g)[i] = IF q[i] = g THEN Stale ELSE q[i]
BY DEF Abandon

(* A panic changes nothing but the fact that the process died.              *)
LEMMA PanicType ==
  ASSUME TypeInv, NEW why \in Crashes, Panic(why)
  PROVE  TypeInv'
<1>1. /\ UNCHANGED <<connStatus, mutex, conn, open, pend, large, pc, stack, res, snap, got>>
      /\ UNCHANGED <<KeepAliveAutoStart, keepAliveRunning, cancel, closed, waitsOn, calls, ticks>>
      /\ crash' \in Crashes
  BY DEF Panic, sock, ka, ctl
<1> QED BY <1>1 DEF TypeInv, TypeOK, StackOK

LEMMA ExchangeType ==
  ASSUME TypeInv, NEW g \in G, Exchange(g)
  PROVE  TypeInv'
<1> USE ClientAssumption DEF Status, Crashes, sock, ka, ctl
<1>1. DataOK /\ ControlOK
  BY TypeInvParts
<1>2. CASE Lock(g)
  <2>1. DataOK' BY <1>1, <1>2 DEF DataOK, Lock
  <2>2. ControlOK' BY <1>1, <1>2, GotoControl DEF Lock
  <2> QED BY <2>1, <2>2, TypeInvParts DEF TypeInv, TypeOK, DataOK, ControlOK
<1>3. CASE Send(g)
  <2>1. DataOK' BY <1>1, <1>3 DEF DataOK, Send
  <2>2. ControlOK' BY <1>1, <1>3, GotoControl DEF Send
  <2> QED BY <2>1, <2>2 DEF TypeInv, TypeOK, DataOK, ControlOK
<1>4. CASE SendFails(g)
  <2>1. DataOK' BY <1>1, <1>4 DEF DataOK, SendFails, Result
  <2>2. ControlOK' BY <1>1, <1>4, GotoControl DEF SendFails
  <2> QED BY <2>1, <2>2 DEF TypeInv, TypeOK, DataOK, ControlOK
<1>5. CASE Receive(g)
  <2>1. \A s \in Sockets :
          Abandon(IF s = conn THEN Tail(pend[s]) ELSE pend[s], g) \in Seq(G \cup {Stale})
    <3> SUFFICES ASSUME NEW s \in Sockets
                 PROVE  Abandon(IF s = conn THEN Tail(pend[s]) ELSE pend[s], g)
                          \in Seq(G \cup {Stale})
      OBVIOUS
    <3>1. pend[s] \in Seq(G \cup {Stale})
      BY <1>1 DEF DataOK
    <3>2. (IF s = conn THEN Tail(pend[s]) ELSE pend[s]) \in Seq(G \cup {Stale})
      BY <3>1, <1>5 DEF Receive
    <3> QED BY <3>2, AbandonType
  <2>2. DataOK' BY <1>1, <1>5, <2>1 DEF DataOK, Receive, Result, Parsed
  <2>3. ControlOK' BY <1>1, <1>5, ReturnControl DEF Receive
  <2> QED BY <2>2, <2>3 DEF TypeInv, TypeOK, DataOK, ControlOK
<1>6. CASE ReceiveFails(g)
  <2>1. \A s \in Sockets : Abandon(pend[s], g) \in Seq(G \cup {Stale})
    BY <1>1, AbandonType DEF DataOK
  <2>2. DataOK' BY <1>1, <1>6, <2>1 DEF DataOK, ReceiveFails, Result
  <2>3. ControlOK' BY <1>1, <1>6, GotoControl DEF ReceiveFails
  <2> QED BY <2>2, <2>3 DEF TypeInv, TypeOK, DataOK, ControlOK
<1>7. CASE NilConn(g)
  BY <1>7 DEF TypeInv, TypeOK, StackOK, NilConn, Panic
<1> QED BY <1>2, <1>3, <1>4, <1>5, <1>6, <1>7 DEF Exchange

LEMMA ConnectType ==
  ASSUME TypeInv, NEW g \in G, Connect(g)
  PROVE  TypeInv'
<1> USE ClientAssumption DEF Status, Crashes, sock, ka, ctl
<1>1. DataOK /\ ControlOK
  BY TypeInvParts
<1>2. CASE StartConnect(g)
  <2>1. DataOK' BY <1>1, <1>2 DEF DataOK, StartConnect, Result
  <2>2. ControlOK' BY <1>1, <1>2, GotoControl, ReturnControl DEF StartConnect
  <2> QED BY <2>1, <2>2 DEF TypeInv, TypeOK, DataOK, ControlOK
<1>3. CASE Dial(g)
  <2>1. DataOK' BY <1>1, <1>3 DEF DataOK, Dial
  <2>2. ControlOK' BY <1>1, <1>3, GotoControl, CallControl DEF Dial
  <2> QED BY <2>1, <2>2 DEF TypeInv, TypeOK, DataOK, ControlOK
<1>4. CASE Registered(g)
  <2>1. DataOK' BY <1>1, <1>4 DEF DataOK, Registered
  <2>2. ControlOK' BY <1>1, <1>4, GotoControl, CallControl DEF Registered
  <2> QED BY <2>1, <2>2 DEF TypeInv, TypeOK, DataOK, ControlOK
<1>5. CASE LargeOpened(g)
  <2>1. DataOK' BY <1>1, <1>5 DEF DataOK, LargeOpened
  <2>2. ControlOK' BY <1>1, <1>5, GotoControl, CallControl DEF LargeOpened
  <2> QED BY <2>1, <2>2 DEF TypeInv, TypeOK, DataOK, ControlOK
<1>6. CASE StandardOpened(g)
  <2>1. DataOK' BY <1>1, <1>6 DEF DataOK, StandardOpened
  <2>2. ControlOK' BY <1>1, <1>6, GotoControl DEF StandardOpened
  <2> QED BY <2>1, <2>2 DEF TypeInv, TypeOK, DataOK, ControlOK
<1>7. CASE StartKeepAlive(g)
  <2>1. DataOK' BY <1>1, <1>7 DEF DataOK, StartKeepAlive
  <2>2. ControlOK'
    <3>1. CASE Goto(g, "co_done")
      BY <1>1, <1>7, <3>1, GotoControl DEF StartKeepAlive
    <3>2. ASSUME NEW k \in Keepers, pc[k] = "idle", UNCHANGED stack,
                 pc' = [pc EXCEPT ![g] = "co_done", ![k] = "ka_begin"]
          PROVE  ControlOK'
      <4>1. k \in G /\ k # g
        BY <1>7, <3>2 DEF G, StartKeepAlive
      <4>2. \A h \in G : pc'[h] \in Labels /\ (pc'[h] \in BaseLabels <=> pc[h] \in BaseLabels)
        BY <1>1, <1>7, <3>2, <4>1 DEF ControlOK, StartKeepAlive
      <4>3. pc' \in [G -> Labels]
        BY <1>1, <3>2, <4>1 DEF ControlOK
      <4> QED
        <5> HIDE DEF BaseLabels, Labels
        <5> QED BY <1>1, <3>2, <4>2, <4>3 DEF ControlOK, StackOK
    <3> QED BY <1>7, <3>1, <3>2 DEF StartKeepAlive
  <2> QED BY <2>1, <2>2 DEF TypeInv, TypeOK, DataOK, ControlOK
<1>8. CASE ConnectDone(g)
  <2>1. DataOK' BY <1>1, <1>8 DEF DataOK, ConnectDone, Result
  <2>2. ControlOK' BY <1>1, <1>8, ReturnControl DEF ConnectDone
  <2> QED BY <2>1, <2>2 DEF TypeInv, TypeOK, DataOK, ControlOK
<1> QED BY <1>2, <1>3, <1>4, <1>5, <1>6, <1>7, <1>8 DEF Connect

LEMMA DisconnectType ==
  ASSUME TypeInv, NEW g \in G, Disconnect(g)
  PROVE  TypeInv'
<1> USE ClientAssumption DEF Status, Crashes, sock, ka, ctl
<1>1. DataOK /\ ControlOK
  BY TypeInvParts
<1>2. CASE Snapshot(g)
  <2>1. DataOK' BY <1>1, <1>2 DEF DataOK, Snapshot
  <2>2. ControlOK' BY <1>1, <1>2, GotoControl DEF Snapshot
  <2> QED BY <2>1, <2>2 DEF TypeInv, TypeOK, DataOK, ControlOK
<1>3. CASE StartDisconnect(g)
  <2>1. DataOK' BY <1>1, <1>3 DEF DataOK, StartDisconnect
  <2>2. ControlOK' BY <1>1, <1>3, GotoControl, ReturnControl DEF StartDisconnect
  <2> QED BY <2>1, <2>2 DEF TypeInv, TypeOK, DataOK, ControlOK
<1>4. CASE StopKeepAlive(g)
  <2>1. CASE CloseCancelPanics
    BY <2>1, PanicType DEF CloseCancelPanics
  <2>2. CASE ~CloseCancelPanics
    <3>1. closed' \subseteq 1..cancel
      <4>1. closed' = closed \/ (cancel # 0 /\ closed' = closed \cup {cancel})
        BY <1>4, <2>2 DEF StopKeepAlive, CloseCancel
      <4>2. cancel \in Nat /\ closed \subseteq 1..cancel
        BY <1>1 DEF DataOK
      <4>3. cancel # 0 => cancel \in 1..cancel
        BY <4>2
      <4> QED
        <5>1. CASE closed' = closed BY <4>2, <5>1
        <5>2. CASE cancel # 0 /\ closed' = closed \cup {cancel} BY <4>2, <4>3, <5>2, Zenon
        <5> QED BY <4>1, <5>1, <5>2
    <3>2. DataOK' BY <1>1, <1>4, <2>2, <3>1 DEF DataOK, StopKeepAlive
    <3>3. ControlOK' BY <1>1, <1>4, <2>2, GotoControl, CallControl DEF StopKeepAlive
    <3> QED BY <3>2, <3>3 DEF TypeInv, TypeOK, DataOK, ControlOK
  <2> QED BY <2>1, <2>2
<1>5. CASE CloseConn(g)
  <2>1. DataOK' BY <1>1, <1>5 DEF DataOK, CloseConn
  <2>2. ControlOK' BY <1>1, <1>5, GotoControl DEF CloseConn
  <2> QED BY <2>1, <2>2 DEF TypeInv, TypeOK, DataOK, ControlOK
<1>6. CASE DisconnectDone(g)
  <2>1. DataOK' BY <1>1, <1>6 DEF DataOK, DisconnectDone
  <2>2. ControlOK' BY <1>1, <1>6, ReturnControl DEF DisconnectDone
  <2> QED BY <2>1, <2>2 DEF TypeInv, TypeOK, DataOK, ControlOK
<1> QED BY <1>2, <1>3, <1>4, <1>5, <1>6 DEF Disconnect

LEMMA ApplicationType ==
  ASSUME TypeInv, NEW g \in Users, Application(g)
  PROVE  TypeInv'
<1> USE ClientAssumption DEF Status, Crashes, sock, ka, ctl
<1>1. DataOK /\ ControlOK /\ g \in G
  BY TypeInvParts DEF G
<1>2. CASE Operation(g)
  <2>1. DataOK' BY <1>1, <1>2 DEF DataOK, Operation, Spend
  <2>2. ControlOK' BY <1>1, <1>2, CallControl DEF Operation
  <2> QED BY <2>1, <2>2 DEF TypeInv, TypeOK, DataOK, ControlOK
<1>3. CASE CallConnect(g)
  <2>1. DataOK' BY <1>1, <1>3 DEF DataOK, CallConnect, Spend
  <2>2. ControlOK' BY <1>1, <1>3, CallControl DEF CallConnect
  <2> QED BY <2>1, <2>2 DEF TypeInv, TypeOK, DataOK, ControlOK
<1>4. CASE CallDisconnect(g)
  <2>1. DataOK' BY <1>1, <1>4 DEF DataOK, CallDisconnect, Spend
  <2>2. ControlOK' BY <1>1, <1>4, CallControl DEF CallDisconnect
  <2> QED BY <2>1, <2>2 DEF TypeInv, TypeOK, DataOK, ControlOK
<1>5. CASE KeepAliveCancel(g)
  <2>1. CASE CloseCancelPanics
    BY <2>1, PanicType DEF CloseCancelPanics
  <2>2. CASE ~CloseCancelPanics
    <3>1. closed' \subseteq 1..cancel
      <4>1. closed' = closed \/ (cancel # 0 /\ closed' = closed \cup {cancel})
        BY <1>5, <2>2 DEF KeepAliveCancel, CloseCancel
      <4>2. cancel \in Nat /\ closed \subseteq 1..cancel
        BY <1>1 DEF DataOK
      <4>3. cancel # 0 => cancel \in 1..cancel
        BY <4>2
      <4> QED
        <5>1. CASE closed' = closed BY <4>2, <5>1
        <5>2. CASE cancel # 0 /\ closed' = closed \cup {cancel} BY <4>2, <4>3, <5>2, Zenon
        <5> QED BY <4>1, <5>1, <5>2
    <3>2. DataOK' BY <1>1, <1>5, <2>2, <3>1 DEF DataOK, KeepAliveCancel, Spend
    <3>3. ControlOK' BY <1>1, <1>5, <2>2 DEF ControlOK, StackOK, KeepAliveCancel
    <3> QED BY <3>2, <3>3 DEF TypeInv, TypeOK, DataOK, ControlOK
  <2> QED BY <2>1, <2>2
<1> QED BY <1>2, <1>3, <1>4, <1>5 DEF Application

LEMMA OperationType ==
  ASSUME TypeInv, NEW g \in G, OperationChecked(g) \/ OperationDone(g)
  PROVE  TypeInv'
<1> USE ClientAssumption DEF Status, Crashes, sock, ka, ctl
<1>1. DataOK /\ ControlOK
  BY TypeInvParts
<1>2. CASE OperationChecked(g)
  <2>1. DataOK' BY <1>1, <1>2 DEF DataOK, OperationChecked
  <2>2. ControlOK' BY <1>1, <1>2, GotoControl, CallControl DEF OperationChecked
  <2> QED BY <2>1, <2>2 DEF TypeInv, TypeOK, DataOK, ControlOK
<1>3. CASE OperationDone(g)
  <2>1. DataOK' BY <1>1, <1>3 DEF DataOK, OperationDone
  <2>2. ControlOK' BY <1>1, <1>3, GotoControl DEF OperationDone
  <2> QED BY <2>1, <2>2 DEF TypeInv, TypeOK, DataOK, ControlOK
<1> QED BY <1>2, <1>3

LEMMA KeepAliveType ==
  ASSUME TypeInv, NEW k \in G, KeepAlive(k)
  PROVE  TypeInv'
<1> USE ClientAssumption DEF Status, Crashes, sock, ka, ctl
<1>1. DataOK /\ ControlOK
  BY TypeInvParts
<1>2. CASE KeepAliveBegins(k)
  <2>1. DataOK'
    <3>1. cancel \in Nat /\ (cancel' = cancel \/ cancel' = cancel + 1)
      BY <1>1, <1>2 DEF DataOK, KeepAliveBegins
    <3>2. 1..cancel \subseteq 1..cancel' /\ 0..cancel \subseteq 0..cancel' /\ cancel' \in Nat
      BY <3>1
    <3>3. closed \subseteq 1..cancel' /\ waitsOn \in [G -> 0..cancel']
      BY <1>1, <3>2 DEF DataOK
    <3>4. keepAliveRunning' \in BOOLEAN
      BY <1>1, <1>2 DEF DataOK, KeepAliveBegins
    <3> QED BY <1>1, <1>2, <3>2, <3>3, <3>4 DEF DataOK, KeepAliveBegins
  <2>2. ControlOK' BY <1>1, <1>2, GotoControl, CallControl DEF KeepAliveBegins
  <2> QED BY <2>1, <2>2 DEF TypeInv, TypeOK, DataOK, ControlOK
<1>3. CASE KeepAlivePolled(k)
  <2>1. DataOK' BY <1>1, <1>3 DEF DataOK, KeepAlivePolled
  <2>2. ControlOK' BY <1>1, <1>3, GotoControl, CallControl DEF KeepAlivePolled
  <2> QED BY <2>1, <2>2 DEF TypeInv, TypeOK, DataOK, ControlOK
<1>4. CASE Tick(k)
  <2>1. DataOK' BY <1>1, <1>4 DEF DataOK, Tick
  <2>2. ControlOK' BY <1>1, <1>4, GotoControl, CallControl DEF Tick
  <2> QED BY <2>1, <2>2 DEF TypeInv, TypeOK, DataOK, ControlOK
<1>5. CASE Cancelled(k)
  <2>1. DataOK' BY <1>1, <1>5 DEF DataOK, Cancelled
  <2>2. ControlOK' BY <1>1, <1>5, GotoControl DEF Cancelled
  <2> QED BY <2>1, <2>2 DEF TypeInv, TypeOK, DataOK, ControlOK
<1>6. CASE KeepAliveExits(k)
  <2>1. DataOK' BY <1>1, <1>6 DEF DataOK, KeepAliveExits
  <2>2. ControlOK' BY <1>1, <1>6, GotoControl DEF KeepAliveExits
  <2> QED BY <2>1, <2>2 DEF TypeInv, TypeOK, DataOK, ControlOK
<1> QED BY <1>2, <1>3, <1>4, <1>5, <1>6 DEF KeepAlive

LEMMA SilentType ==
  ASSUME TypeInv, NEW s \in Sockets, ControllerSilent(s)
  PROVE  TypeInv'
BY DEF TypeInv, TypeOK, StackOK, ControllerSilent, ka, ctl

LEMMA TypeInvInit == Init => TypeInv
<1> SUFFICES ASSUME Init PROVE TypeInv
  OBVIOUS
<1>1. TypeOK
  <2>1. MaxCalls \in 0..MaxCalls /\ MaxTicks \in 0..MaxTicks
    BY ClientAssumption
  <2>2. /\ pend \in [Sockets -> Seq(G \cup {Stale})]
        /\ stack \in [G -> Seq(Labels)]
    BY DEF Init
  <2>3. closed \subseteq 1..cancel /\ waitsOn \in [G -> 0..cancel]
    BY DEF Init
  <2> QED BY ClientAssumption, <2>1, <2>2, <2>3 DEF Init, TypeOK, Status, Crashes
<1>2. StackOK
  BY DEF Init, StackOK
<1> QED BY <1>1, <1>2 DEF TypeInv

LEMMA TypeInvNext == TypeInv /\ [Next]_vars => TypeInv'
<1> SUFFICES ASSUME TypeInv, [Next]_vars PROVE TypeInv'
  OBVIOUS
<1>1. CASE UNCHANGED vars
  BY <1>1 DEF TypeInv, TypeOK, StackOK, vars
<1>2. ASSUME NEW g \in G, Step(g) PROVE TypeInv'
  BY <1>2, ExchangeType, ConnectType, DisconnectType, OperationType, KeepAliveType DEF Step
<1>3. ASSUME NEW u \in Users, Application(u) PROVE TypeInv'
  BY <1>3, ApplicationType
<1>4. ASSUME NEW s \in Sockets, ControllerSilent(s) PROVE TypeInv'
  BY <1>4, SilentType
<1> QED BY <1>1, <1>2, <1>3, <1>4 DEF Next

(* The type invariant of the client holds in every behaviour, whatever the  *)
(* goroutines, their calls, and the failures of the network: in particular  *)
(* every nested call finds its caller on the stack.                         *)
THEOREM TypeCorrect == Spec => []TypeOK
<1>1. TypeInv => TypeOK BY DEF TypeInv
<1> QED BY <1>1, TypeInvInit, TypeInvNext, PTL DEF Spec

-----------------------------------------------------------------------------
(* The safety invariants of every client, however many goroutines use it.  *)

(* A goroutine never returns into the middle of an exchange.                *)
ReturnsOffWire ==
  \A g \in G : \A i \in 1..Len(stack[g]) : stack[g][i] \notin ExchangeBody

(* The wire invariant is inductive with the types of the state and with the *)
(* fact that an exchange, once left, is not returned to.                    *)
WireInv == TypeInv /\ ReturnsOffWire /\ WireOwned /\ NoCrossTalk

-----------------------------------------------------------------------------
(* What the three ways of transferring control do to a goroutine that is,   *)
(* itself or in a caller, inside a part of the code.                        *)

Keeps(body) == \A h \in G : Within(h, body) => Within(h, body)'

LEMMA GotoKeeps ==
  ASSUME ControlOK, NEW g \in G, NEW l, NEW body, Goto(g, l), pc[g] \in body => l \in body
  PROVE  Keeps(body)
BY DEF ControlOK, Goto, Keeps, Within

LEMMA CallKeeps ==
  ASSUME ControlOK, NEW g \in G, NEW l, NEW ret, NEW body, Call(g, l, ret),
         ret \in Labels, pc[g] \in body => ret \in body
  PROVE  Keeps(body)
<1> SUFFICES ASSUME NEW h \in G, Within(h, body) PROVE Within(h, body)'
  BY DEF Keeps
<1>1. CASE h # g
  BY <1>1 DEF ControlOK, Call, Within
<1>2. CASE h = g
  <2>1. stack[g] \in Seq(Labels) /\ stack'[g] = Append(stack[g], ret)
    BY DEF ControlOK, Call
  <2>2. /\ Len(stack'[g]) = Len(stack[g]) + 1 /\ Len(stack[g]) \in Nat
        /\ stack'[g][Len(stack[g]) + 1] = ret
        /\ \A i \in 1..Len(stack[g]) : stack'[g][i] = stack[g][i]
    BY <2>1
  <2> HIDE DEF Labels
  <2>3. CASE pc[g] \in body
    BY <1>2, <2>2, <2>3 DEF Within
  <2>4. CASE pc[g] \notin body
    <3>1. PICK i \in 1..Len(stack[g]) : stack[g][i] \in body
      BY <1>2, <2>4 DEF Within
    <3> QED BY <1>2, <2>2, <3>1 DEF Within
  <2> QED BY <2>3, <2>4
<1> QED BY <1>1, <1>2

LEMMA ReturnKeeps ==
  ASSUME ControlOK, NEW g \in G, NEW body, Return(g), pc[g] \notin BaseLabels, pc[g] \notin body
  PROVE  Keeps(body)
<1> SUFFICES ASSUME NEW h \in G, Within(h, body) PROVE Within(h, body)'
  BY DEF Keeps
<1>1. CASE h # g
  BY <1>1 DEF ControlOK, Return, Within
<1>2. CASE h = g
  <2>1. PICK i \in 1..Len(stack[g]) : stack[g][i] \in body
    BY <1>2 DEF Within
  <2>2. stack[g] \in Seq(Labels) /\ Len(stack[g]) \in Nat /\ Len(stack[g]) # 0
    BY DEF ControlOK, StackOK
  <2>3. /\ stack'[g] = SubSeq(stack[g], 1, Len(stack[g]) - 1)
        /\ pc'[g] = stack[g][Len(stack[g])]
    BY DEF Return, ControlOK, Top
  <2>4. /\ Len(stack'[g]) = Len(stack[g]) - 1
        /\ \A j \in 1..(Len(stack[g]) - 1) : stack'[g][j] = stack[g][j]
    BY <2>2, <2>3
  <2> HIDE DEF Labels, BaseLabels
  <2>5. CASE i = Len(stack[g])
    BY <1>2, <2>1, <2>3, <2>5 DEF Within
  <2>6. CASE i # Len(stack[g])
    BY <1>2, <2>1, <2>2, <2>4, <2>6 DEF Within
  <2> QED BY <2>5, <2>6
<1> QED BY <1>1, <1>2

-----------------------------------------------------------------------------
(* Connecting and Disconnecting have an owner.                              *)

(* A goroutine leaves Connect, or Disconnect, only by the deferred write of *)
(* the status.                                                              *)
Owned ==
  connStatus' \in {"Connecting", "Disconnecting"} =>
    Keeps(ConnectBody) /\ Keeps(DisconnectBody)

LEMMA PanicKeeps ==
  ASSUME NEW why, NEW body, Panic(why)
  PROVE  Keeps(body) /\ UNCHANGED connStatus
BY DEF Panic, ctl, Keeps, Within

LEMMA ExchangeOwned ==
  ASSUME ControlOK, NEW g \in G, Exchange(g)
  PROVE  Owned /\ UNCHANGED connStatus
<1>1. CASE Lock(g)
  BY <1>1, GotoKeeps DEF Lock, Owned
<1>2. CASE Send(g)
  BY <1>2, GotoKeeps DEF Send, Owned
<1>3. CASE SendFails(g)
  BY <1>3, GotoKeeps DEF SendFails, Owned
<1>4. CASE Receive(g)
  BY <1>4, ReturnKeeps DEF Receive, Owned
<1>5. CASE ReceiveFails(g)
  BY <1>5, GotoKeeps DEF ReceiveFails, Owned
<1>6. CASE NilConn(g)
  BY <1>6, PanicKeeps DEF NilConn, Owned
<1> QED BY <1>1, <1>2, <1>3, <1>4, <1>5, <1>6 DEF Exchange

LEMMA ConnectOwned ==
  ASSUME ControlOK, NEW g \in G, Connect(g)
  PROVE  /\ Owned
         /\ connStatus' \in {"Connecting", "Disconnecting"} =>
              UNCHANGED connStatus \/ (connStatus' = "Connecting" /\ Within(g, ConnectBody)')
<1>1. CASE StartConnect(g)
  BY <1>1, GotoKeeps, ReturnKeeps DEF StartConnect, Owned, Within, Goto, ControlOK
<1>2. CASE Dial(g)
  BY <1>2, GotoKeeps, CallKeeps DEF Dial, Owned
<1>3. CASE Registered(g)
  BY <1>3, GotoKeeps, CallKeeps DEF Registered, Owned
<1>4. CASE LargeOpened(g)
  BY <1>4, GotoKeeps, CallKeeps DEF LargeOpened, Owned
<1>5. CASE StandardOpened(g)
  BY <1>5, GotoKeeps DEF StandardOpened, Owned
<1>6. CASE StartKeepAlive(g)
  <2>1. CASE Goto(g, "co_done")
    BY <1>6, <2>1, GotoKeeps DEF StartKeepAlive, Owned
  <2>2. ASSUME NEW k \in Keepers, pc[k] = "idle", UNCHANGED stack,
               pc' = [pc EXCEPT ![g] = "co_done", ![k] = "ka_begin"]
        PROVE  Keeps(ConnectBody) /\ Keeps(DisconnectBody)
    BY <1>6, <2>2 DEF StartKeepAlive, Keeps, Within, ControlOK, G
  <2> QED BY <1>6, <2>1, <2>2 DEF StartKeepAlive, Owned
<1>7. CASE ConnectDone(g)
  BY <1>7 DEF ConnectDone, Owned
<1> QED BY <1>1, <1>2, <1>3, <1>4, <1>5, <1>6, <1>7 DEF Connect

LEMMA DisconnectOwned ==
  ASSUME ControlOK, NEW g \in G, Disconnect(g)
  PROVE  /\ Owned
         /\ connStatus' \in {"Connecting", "Disconnecting"} =>
              UNCHANGED connStatus \/ (connStatus' = "Disconnecting" /\ Within(g, DisconnectBody)')
<1>1. CASE Snapshot(g)
  BY <1>1, GotoKeeps DEF Snapshot, Owned
<1>2. CASE StartDisconnect(g)
  BY <1>2, GotoKeeps, ReturnKeeps DEF StartDisconnect, Owned, Within, Goto, ControlOK
<1>3. CASE StopKeepAlive(g)
  <2>1. CASE CloseCancelPanics
    BY <2>1, PanicKeeps DEF CloseCancelPanics, Owned
  <2>2. CASE ~CloseCancelPanics
    BY <1>3, <2>2, GotoKeeps, CallKeeps DEF StopKeepAlive, Owned
  <2> QED BY <2>1, <2>2
<1>4. CASE CloseConn(g)
  BY <1>4, GotoKeeps DEF CloseConn, Owned
<1>5. CASE DisconnectDone(g)
  BY <1>5 DEF DisconnectDone, Owned
<1> QED BY <1>1, <1>2, <1>3, <1>4, <1>5 DEF Disconnect

LEMMA OthersOwned ==
  ASSUME ControlOK, NEW g \in G,
         OperationChecked(g) \/ OperationDone(g) \/ KeepAlive(g) \/
         (g \in Users /\ Application(g))
  PROVE  Owned /\ UNCHANGED connStatus
<1>1. CASE OperationChecked(g)
  BY <1>1, GotoKeeps, CallKeeps DEF OperationChecked, Owned
<1>2. CASE OperationDone(g)
  BY <1>2, GotoKeeps DEF OperationDone, Owned
<1>3. CASE KeepAlive(g)
  <2>1. CASE KeepAliveBegins(g)
    BY <2>1, GotoKeeps, CallKeeps DEF KeepAliveBegins, Owned
  <2>2. CASE KeepAlivePolled(g)
    BY <2>2, GotoKeeps, CallKeeps DEF KeepAlivePolled, Owned
  <2>3. CASE Tick(g)
    BY <2>3, GotoKeeps, CallKeeps DEF Tick, Owned
  <2>4. CASE Cancelled(g)
    BY <2>4, GotoKeeps DEF Cancelled, Owned
  <2>5. CASE KeepAliveExits(g)
    BY <2>5, GotoKeeps DEF KeepAliveExits, Owned
  <2> QED BY <1>3, <2>1, <2>2, <2>3, <2>4, <2>5 DEF KeepAlive
<1>4. CASE Application(g)
  <2>1. CASE Operation(g)
    BY <2>1, CallKeeps DEF Operation, Owned
  <2>2. CASE CallConnect(g)
    BY <2>2, CallKeeps DEF CallConnect, Owned
  <2>3. CASE CallDisconnect(g)
    BY <2>3, CallKeeps DEF CallDisconnect, Owned
  <2>4. CASE KeepAliveCancel(g)
    <3>1. CASE CloseCancelPanics
      BY <3>1, PanicKeeps DEF CloseCancelPanics, Owned
    <3>2. CASE ~CloseCancelPanics
      BY <2>4, <3>2 DEF KeepAliveCancel, Owned, Keeps, Within, ctl
    <3> QED BY <3>1, <3>2
  <2> QED BY <1>4, <2>1, <2>2, <2>3, <2>4 DEF Application
<1> QED BY <1>1, <1>2, <1>3, <1>4

LEMMA TransitionOwnedNext ==
  TypeInv /\ TransitionOwned /\ [Next]_vars => TransitionOwned'
<1> SUFFICES ASSUME TypeInv, TransitionOwned, [Next]_vars PROVE TransitionOwned'
  OBVIOUS
<1>1. ControlOK
  BY TypeInvParts
<1>2. ASSUME Owned, UNCHANGED connStatus PROVE TransitionOwned'
  BY <1>2 DEF TransitionOwned, Owned, Keeps
<1>3. ASSUME NEW g \in G, Step(g) PROVE TransitionOwned'
  <2>1. CASE Connect(g)
    BY <1>1, <1>2, <2>1, ConnectOwned DEF TransitionOwned
  <2>2. CASE Disconnect(g)
    BY <1>1, <1>2, <2>2, DisconnectOwned DEF TransitionOwned
  <2>3. CASE ~(Connect(g) \/ Disconnect(g))
    BY <1>1, <1>2, <1>3, <2>3, ExchangeOwned, OthersOwned DEF Step
  <2> QED BY <2>1, <2>2, <2>3
<1>4. ASSUME NEW u \in Users, Application(u) PROVE TransitionOwned'
  BY <1>1, <1>2, <1>4, OthersOwned DEF G
<1>5. ASSUME NEW s \in Sockets, ControllerSilent(s) PROVE TransitionOwned'
  BY <1>5 DEF ControllerSilent, TransitionOwned, Within, ctl
<1>6. CASE UNCHANGED vars
  BY <1>6 DEF vars, TransitionOwned, Within
<1> QED BY <1>3, <1>4, <1>5, <1>6 DEF Next

(* Connecting and Disconnecting are never left without a goroutine that     *)
(* will end them, for any number of goroutines: the status cannot get stuck *)
(* in a state in which every Connect and every Disconnect is refused.       *)
THEOREM TransitionsOwned == Spec => []TransitionOwned
<1>1. Init => TransitionOwned
  BY DEF Init, TransitionOwned
<1> QED BY <1>1, TypeInvInit, TypeInvNext, TransitionOwnedNext, PTL DEF Spec

-----------------------------------------------------------------------------
(* The mutex owns the wire.                                                 *)

(* A step that neither takes nor releases the mutex, nor touches a socket,  *)
(* and that no goroutine uses to enter or leave an exchange.                *)
OffWire ==
  /\ UNCHANGED <<mutex, pend>>
  /\ \A h \in G : /\ pc'[h] \in ExchangeBody <=> pc[h] \in ExchangeBody
                  /\ pc'[h] = "sr_recv" <=> pc[h] = "sr_recv"
  /\ ReturnsOffWire'

LEMMA OffWireKeeps ==
  ASSUME WireInv, OffWire
  PROVE  ReturnsOffWire' /\ WireOwned' /\ NoCrossTalk'
<1>1. WireOwned'
  BY DEF WireInv, OffWire, WireOwned
<1>2. NoCrossTalk'
  <2> SUFFICES ASSUME NEW s \in Sockets, NEW i \in 1..Len(pend[s]), pend[s][i] # Stale
               PROVE  mutex = pend[s][i] /\ pc'[mutex] = "sr_recv" /\ i = Len(pend[s])
    BY DEF NoCrossTalk, OffWire
  <2>1. mutex = pend[s][i] /\ pc[mutex] = "sr_recv" /\ i = Len(pend[s])
    BY DEF WireInv, NoCrossTalk
  <2>2. mutex \in G
    BY <2>1 DEF WireInv, TypeInv, TypeOK
  <2> QED BY <2>1, <2>2 DEF OffWire
<1> QED BY <1>1, <1>2 DEF OffWire

LEMMA GotoReturns ==
  ASSUME ReturnsOffWire, NEW g \in G, NEW l, Goto(g, l)
  PROVE  ReturnsOffWire'
BY DEF ReturnsOffWire, Goto

LEMMA CallReturns ==
  ASSUME ControlOK, ReturnsOffWire, NEW g \in G, NEW l, NEW ret \in Labels \ ExchangeBody,
         Call(g, l, ret)
  PROVE  ReturnsOffWire'
<1> SUFFICES ASSUME NEW h \in G, NEW i \in 1..Len(stack'[h])
             PROVE  stack'[h][i] \notin ExchangeBody
  BY DEF ReturnsOffWire
<1>1. CASE h # g
  BY <1>1 DEF ControlOK, Call, ReturnsOffWire
<1>2. CASE h = g
  <2>1. stack[g] \in Seq(Labels) /\ stack'[g] = Append(stack[g], ret)
    BY DEF ControlOK, Call
  <2>2. /\ Len(stack'[g]) = Len(stack[g]) + 1 /\ Len(stack[g]) \in Nat
        /\ stack'[g][Len(stack[g]) + 1] = ret
        /\ \A j \in 1..Len(stack[g]) : stack'[g][j] = stack[g][j]
    BY <2>1
  <2>3. ret \notin ExchangeBody /\ \A j \in 1..Len(stack[g]) : stack[g][j] \notin ExchangeBody
    BY DEF ReturnsOffWire
  <2> HIDE DEF Labels, ExchangeBody
  <2>4. i \in 1..(Len(stack[g]) + 1)
    BY <1>2, <2>2
  <2>5. CASE i = Len(stack[g]) + 1
    BY <1>2, <2>2, <2>3, <2>5
  <2>6. CASE i # Len(stack[g]) + 1
    BY <1>2, <2>2, <2>3, <2>4, <2>6
  <2> QED BY <2>5, <2>6
<1> QED BY <1>1, <1>2

(* Returning leads to a label that was on the stack.                        *)
LEMMA ReturnReturns ==
  ASSUME ControlOK, ReturnsOffWire, NEW g \in G, pc[g] \notin BaseLabels, Return(g)
  PROVE  ReturnsOffWire' /\ pc'[g] \notin ExchangeBody /\ \A h \in G \ {g} : pc'[h] = pc[h]
<1>1. stack[g] \in Seq(Labels) /\ Len(stack[g]) \in Nat /\ Len(stack[g]) # 0
  BY DEF ControlOK, StackOK
<1>2. /\ stack'[g] = SubSeq(stack[g], 1, Len(stack[g]) - 1)
      /\ pc'[g] = stack[g][Len(stack[g])]
  BY DEF Return, ControlOK, Top
<1>3. /\ Len(stack'[g]) = Len(stack[g]) - 1
      /\ \A j \in 1..(Len(stack[g]) - 1) : stack'[g][j] = stack[g][j]
  BY <1>1, <1>2
<1>4. pc'[g] \notin ExchangeBody
  BY <1>1, <1>2 DEF ReturnsOffWire
<1>5. \A h \in G \ {g} : pc'[h] = pc[h] /\ stack'[h] = stack[h]
  BY DEF Return, ControlOK
<1>6. ASSUME NEW h \in G, NEW i \in 1..Len(stack'[h]) PROVE stack'[h][i] \notin ExchangeBody
  <2>1. CASE h # g
    BY <1>5, <1>6, <2>1 DEF ReturnsOffWire
  <2>2. CASE h = g
    <3>1. i \in 1..(Len(stack[g]) - 1) /\ i \in 1..Len(stack[g])
      BY <1>1, <1>3, <1>6, <2>2
    <3> QED BY <1>3, <2>2, <3>1 DEF ReturnsOffWire
  <2> QED BY <2>1, <2>2
<1> QED BY <1>4, <1>5, <1>6 DEF ReturnsOffWire

(* Every step but those of an exchange, of a close and of the controller is *)
(* off the wire.                                                            *)
LEMMA PanicOffWire ==
  ASSUME WireInv, NEW why, Panic(why)
  PROVE  OffWire
BY DEF WireInv, Panic, OffWire, ReturnsOffWire, sock, ctl

LEMMA JumpOffWire ==
  ASSUME WireInv, UNCHANGED <<mutex, pend>>, NEW g \in G, pc[g] \notin ExchangeBody,
         NEW l \in Labels \ ExchangeBody, NEW ret \in Labels \ ExchangeBody,
         Goto(g, l) \/ Call(g, l, ret)
  PROVE  OffWire
<1>1. ControlOK /\ ReturnsOffWire
  BY TypeInvParts DEF WireInv
<1>2. ReturnsOffWire'
  BY <1>1, GotoReturns, CallReturns
<1>3. pc' = [pc EXCEPT ![g] = l] /\ pc \in [G -> Labels]
  BY <1>1 DEF Goto, Call, ControlOK
<1> QED BY <1>2, <1>3 DEF OffWire

LEMMA ReturnOffWire ==
  ASSUME WireInv, UNCHANGED <<mutex, pend>>, NEW g \in G,
         pc[g] \notin ExchangeBody \cup BaseLabels, Return(g)
  PROVE  OffWire
<1>1. ControlOK /\ ReturnsOffWire
  BY TypeInvParts DEF WireInv
<1> QED BY <1>1, ReturnReturns DEF OffWire

LEMMA ConnectOffWire ==
  ASSUME WireInv, NEW g \in G, Connect(g)
  PROVE  OffWire
<1> USE DEF sock
<1>1. CASE StartConnect(g)
  BY <1>1, JumpOffWire, ReturnOffWire DEF StartConnect
<1>2. CASE Dial(g)
  BY <1>2, JumpOffWire DEF Dial
<1>3. CASE Registered(g)
  BY <1>3, JumpOffWire DEF Registered
<1>4. CASE LargeOpened(g)
  BY <1>4, JumpOffWire DEF LargeOpened
<1>5. CASE StandardOpened(g)
  BY <1>5, JumpOffWire DEF StandardOpened
<1>6. CASE StartKeepAlive(g)
  <2>1. CASE Goto(g, "co_done")
    BY <1>6, <2>1, JumpOffWire DEF StartKeepAlive
  <2>2. ASSUME NEW k \in Keepers, pc[k] = "idle", UNCHANGED stack,
               pc' = [pc EXCEPT ![g] = "co_done", ![k] = "ka_begin"]
        PROVE  OffWire
    BY <1>6, <2>2 DEF StartKeepAlive, OffWire, ReturnsOffWire, WireInv, TypeInv, TypeOK, G
  <2> QED BY <1>6, <2>1, <2>2 DEF StartKeepAlive
<1>7. CASE ConnectDone(g)
  BY <1>7, ReturnOffWire DEF ConnectDone
<1> QED BY <1>1, <1>2, <1>3, <1>4, <1>5, <1>6, <1>7 DEF Connect

LEMMA DisconnectOffWire ==
  ASSUME WireInv, NEW g \in G, Disconnect(g), ~CloseConn(g)
  PROVE  OffWire
<1> USE DEF sock
<1>1. CASE Snapshot(g)
  BY <1>1, JumpOffWire DEF Snapshot
<1>2. CASE StartDisconnect(g)
  BY <1>2, JumpOffWire, ReturnOffWire DEF StartDisconnect
<1>3. CASE StopKeepAlive(g)
  <2>1. CASE CloseCancelPanics
    BY <2>1, PanicOffWire DEF CloseCancelPanics
  <2>2. CASE ~CloseCancelPanics
    BY <1>3, <2>2, JumpOffWire DEF StopKeepAlive
  <2> QED BY <2>1, <2>2
<1>4. CASE DisconnectDone(g)
  BY <1>4, ReturnOffWire DEF DisconnectDone
<1> QED BY <1>1, <1>2, <1>3, <1>4 DEF Disconnect

LEMMA OthersOffWire ==
  ASSUME WireInv, NEW g \in G,
         OperationChecked(g) \/ OperationDone(g) \/ KeepAlive(g) \/
         (g \in Users /\ Application(g))
  PROVE  OffWire
<1> USE DEF sock
<1>1. CASE OperationChecked(g)
  BY <1>1, JumpOffWire DEF OperationChecked
<1>2. CASE OperationDone(g)
  BY <1>2, JumpOffWire DEF OperationDone
<1>3. CASE KeepAlive(g)
  <2>1. CASE KeepAliveBegins(g)
    BY <2>1, JumpOffWire DEF KeepAliveBegins
  <2>2. CASE KeepAlivePolled(g)
    BY <2>2, JumpOffWire DEF KeepAlivePolled
  <2>3. CASE Tick(g)
    BY <2>3, JumpOffWire DEF Tick
  <2>4. CASE Cancelled(g)
    BY <2>4, JumpOffWire DEF Cancelled
  <2>5. CASE KeepAliveExits(g)
    BY <2>5, JumpOffWire DEF KeepAliveExits
  <2> QED BY <1>3, <2>1, <2>2, <2>3, <2>4, <2>5 DEF KeepAlive
<1>4. CASE Application(g)
  <2>1. CASE Operation(g)
    BY <2>1, JumpOffWire DEF Operation
  <2>2. CASE CallConnect(g)
    BY <2>2, JumpOffWire DEF CallConnect
  <2>3. CASE CallDisconnect(g)
    BY <2>3, JumpOffWire DEF CallDisconnect
  <2>4. CASE KeepAliveCancel(g)
    <3>1. CASE CloseCancelPanics
      BY <3>1, PanicOffWire DEF CloseCancelPanics
    <3>2. CASE ~CloseCancelPanics
      BY <2>4, <3>2 DEF KeepAliveCancel, OffWire, WireInv, ReturnsOffWire, ctl
    <3> QED BY <3>1, <3>2
  <2> QED BY <1>4, <2>1, <2>2, <2>3, <2>4 DEF Application
<1> QED BY <1>1, <1>2, <1>3, <1>4

(* The steps on the wire.                                                   *)

(* While nobody reads a reply, nobody waits for one.                        *)
LEMMA AllStale ==
  ASSUME WireInv, mutex = Free \/ pc[mutex] # "sr_recv",
         NEW s \in Sockets, NEW i \in 1..Len(pend[s])
  PROVE  pend[s][i] = Stale
BY ClientAssumption DEF WireInv, TypeInv, TypeOK, NoCrossTalk

LEMMA ExchangeWire ==
  ASSUME WireInv, NEW g \in G, Exchange(g)
  PROVE  ReturnsOffWire' /\ WireOwned' /\ NoCrossTalk'
<1> USE ClientAssumption DEF sock
<1>1. /\ ControlOK /\ ReturnsOffWire /\ WireOwned /\ NoCrossTalk
      /\ pend \in [Sockets -> Seq(G \cup {Stale})] /\ pc \in [G -> Labels]
      /\ conn \in Sockets \cup {None} /\ open \subseteq Sockets
  BY TypeInvParts DEF WireInv, TypeInv, TypeOK
<1>2. pc[g] \in ExchangeBody => mutex = g
  BY <1>1 DEF WireOwned
<1>3. CASE Lock(g)
  <2>1. ReturnsOffWire' BY <1>1, <1>3, GotoReturns DEF Lock
  <2>2. WireOwned' BY <1>1, <1>3 DEF Lock, Goto, WireOwned
  <2>3. NoCrossTalk' BY <1>3, AllStale DEF Lock, NoCrossTalk
  <2> QED BY <2>1, <2>2, <2>3
<1>4. CASE Send(g)
  <2>1. ReturnsOffWire' BY <1>1, <1>4, GotoReturns DEF Send
  <2>2. WireOwned' BY <1>1, <1>4 DEF Send, Goto, WireOwned
  <2>3. mutex = g /\ mutex' = g /\ pc'[g] = "sr_recv" /\ conn \in Sockets
    BY <1>1, <1>2, <1>4 DEF Send, Goto
  <2>4. \A s \in Sockets : \A i \in 1..Len(pend[s]) : pend[s][i] = Stale
    BY <1>4, <2>3, AllStale DEF Send
  <2>5. ASSUME NEW s \in Sockets, NEW i \in 1..Len(pend'[s]), pend'[s][i] # Stale
        PROVE  pend'[s][i] = g /\ i = Len(pend'[s])
    <3>1. CASE s # conn
      BY <1>1, <1>4, <2>4, <2>5, <3>1 DEF Send
    <3>2. CASE s = conn
      <4>1. pend'[s] = Append(pend[s], g) /\ pend[s] \in Seq(G \cup {Stale})
        BY <1>1, <1>4, <3>2 DEF Send
      <4>2. /\ Len(pend'[s]) = Len(pend[s]) + 1 /\ Len(pend[s]) \in Nat
            /\ pend'[s][Len(pend[s]) + 1] = g
            /\ \A j \in 1..Len(pend[s]) : pend'[s][j] = pend[s][j]
        BY <4>1
      <4> QED BY <2>4, <2>5, <4>2
    <3> QED BY <3>1, <3>2
  <2> QED BY <2>1, <2>2, <2>3, <2>5 DEF NoCrossTalk
<1>5. CASE SendFails(g)
  <2>1. ReturnsOffWire' BY <1>1, <1>5, GotoReturns DEF SendFails
  <2>2. WireOwned' BY <1>1, <1>2, <1>5 DEF SendFails, Goto, WireOwned
  <2>3. mutex = g BY <1>2, <1>5 DEF SendFails
  <2>4. NoCrossTalk' BY <1>5, <2>3, AllStale DEF SendFails, NoCrossTalk
  <2> QED BY <2>1, <2>2, <2>4
<1>6. CASE Receive(g)
  <2>1. mutex = g BY <1>2, <1>6 DEF Receive
  <2>2. ReturnsOffWire' /\ pc'[g] \notin ExchangeBody /\ \A h \in G \ {g} : pc'[h] = pc[h]
    BY <1>1, <1>6, ReturnReturns DEF Receive
  <2>3. WireOwned' BY <1>1, <1>6, <2>1, <2>2 DEF Receive, WireOwned
  <2>4. ASSUME NEW s \in Sockets, NEW i \in 1..Len(pend'[s]) PROVE pend'[s][i] = Stale
    <3> DEFINE q == IF s = conn THEN Tail(pend[s]) ELSE pend[s]
    <3>1. pend'[s] = Abandon(q, g) /\ pend[s] \in Seq(G \cup {Stale})
      BY <1>1, <1>6 DEF Receive
    <3>2. s = conn => pend[s] # << >>
      BY <1>6 DEF Receive
    <3>3. q \in Seq(G \cup {Stale}) /\ \A j \in 1..Len(q) : \E k \in 1..Len(pend[s]) : q[j] = pend[s][k]
      <4>1. CASE s = conn
        <5>1. /\ Tail(pend[s]) \in Seq(G \cup {Stale}) /\ Len(Tail(pend[s])) = Len(pend[s]) - 1
              /\ \A j \in 1..(Len(pend[s]) - 1) : Tail(pend[s])[j] = pend[s][j + 1]
          BY <3>1, <3>2, <4>1
        <5>2. Len(pend[s]) \in Nat BY <3>1
        <5>3. \A j \in 1..(Len(pend[s]) - 1) : j + 1 \in 1..Len(pend[s])
          BY <5>2
        <5> QED BY <4>1, <5>1, <5>3
      <4>2. CASE s # conn
        BY <3>1, <4>2
      <4> QED BY <4>1, <4>2
    <3>4. \A k \in 1..Len(pend[s]) : pend[s][k] = Stale \/ pend[s][k] = g
      BY <1>1, <2>1 DEF NoCrossTalk
    <3> HIDE DEF q
    <3>5. Len(pend'[s]) = Len(q) /\ pend'[s][i] = IF q[i] = g THEN Stale ELSE q[i]
      BY <2>4, <3>1, <3>3, AbandonType
    <3> QED BY <2>4, <3>3, <3>4, <3>5
  <2> QED BY <2>2, <2>3, <2>4 DEF NoCrossTalk
<1>7. CASE ReceiveFails(g)
  <2>1. mutex = g BY <1>2, <1>7 DEF ReceiveFails
  <2>2. ReturnsOffWire' BY <1>1, <1>7, GotoReturns DEF ReceiveFails
  <2>3. WireOwned' BY <1>1, <1>7, <2>1 DEF ReceiveFails, Goto, WireOwned
  <2>4. ASSUME NEW s \in Sockets, NEW i \in 1..Len(pend'[s]) PROVE pend'[s][i] = Stale
    <3>1. pend'[s] = Abandon(pend[s], g) /\ pend[s] \in Seq(G \cup {Stale})
      BY <1>1, <1>7 DEF ReceiveFails
    <3>2. \A k \in 1..Len(pend[s]) : pend[s][k] = Stale \/ pend[s][k] = g
      BY <1>1, <2>1 DEF NoCrossTalk
    <3> QED BY <2>4, <3>1, <3>2, AbandonType
  <2> QED BY <2>2, <2>3, <2>4 DEF NoCrossTalk
<1>8. CASE NilConn(g)
  BY <1>8, PanicOffWire, OffWireKeeps DEF NilConn
<1> QED BY <1>3, <1>4, <1>5, <1>6, <1>7, <1>8 DEF Exchange

LEMMA CloseWire ==
  ASSUME WireInv, NEW g \in G, CloseConn(g)
  PROVE  ReturnsOffWire' /\ WireOwned' /\ NoCrossTalk'
<1>1. /\ ControlOK /\ ReturnsOffWire /\ WireOwned /\ NoCrossTalk
      /\ pend \in [Sockets -> Seq(G \cup {Stale})] /\ pc \in [G -> Labels]
      /\ mutex \in G \cup {Free}
  BY TypeInvParts DEF WireInv, TypeInv, TypeOK
<1>2. ReturnsOffWire'
  BY <1>1, GotoReturns DEF CloseConn
<1>3. WireOwned' /\ \A h \in G : pc[h] = "sr_recv" => pc'[h] = "sr_recv"
  BY <1>1 DEF CloseConn, Goto, WireOwned
<1>4. ASSUME NEW s \in Sockets, NEW i \in 1..Len(pend'[s]), pend'[s][i] # Stale
      PROVE  /\ mutex' = pend'[s][i] /\ pc'[mutex'] = "sr_recv"
             /\ i = Len(pend'[s])
  <2>1. s # conn /\ pend'[s] = pend[s] /\ mutex' = mutex
    BY <1>4 DEF CloseConn
  <2>2. mutex = pend[s][i] /\ pc[mutex] = "sr_recv" /\ i = Len(pend[s]) /\ pend[s][i] \in G \cup {Stale}
    BY <1>1, <1>4, <2>1 DEF NoCrossTalk
  <2>3. mutex \in G
    BY <1>4, <2>1, <2>2
  <2> QED BY <1>3, <2>1, <2>2, <2>3
<1> QED BY <1>2, <1>3, <1>4 DEF NoCrossTalk

LEMMA SilentWire ==
  ASSUME WireInv, NEW z \in Sockets, ControllerSilent(z)
  PROVE  ReturnsOffWire' /\ WireOwned' /\ NoCrossTalk'
<1>1. pend \in [Sockets -> Seq(G \cup {Stale})] /\ NoCrossTalk
  BY DEF WireInv, TypeInv, TypeOK
<1>2. ReturnsOffWire' /\ WireOwned' /\ mutex' = mutex /\ pc' = pc
  BY DEF WireInv, ControllerSilent, ReturnsOffWire, WireOwned, ctl
<1>3. ASSUME NEW s \in Sockets, NEW i \in 1..Len(pend'[s]), pend'[s][i] # Stale
      PROVE  mutex = pend'[s][i] /\ pc[mutex] = "sr_recv" /\ i = Len(pend'[s])
  <2>1. CASE s # z
    BY <1>1, <1>3, <2>1 DEF ControllerSilent, NoCrossTalk
  <2>2. CASE s = z
    <3>1. pend'[s] = Tail(pend[s]) /\ pend[s] \in Seq(G \cup {Stale}) /\ pend[s] # << >>
      BY <1>1, <2>2 DEF ControllerSilent
    <3>2. /\ Len(pend'[s]) = Len(pend[s]) - 1 /\ Len(pend[s]) \in Nat
          /\ \A j \in 1..(Len(pend[s]) - 1) : pend'[s][j] = pend[s][j + 1]
      BY <3>1
    <3>3. i + 1 \in 1..Len(pend[s]) /\ pend'[s][i] = pend[s][i + 1]
      BY <1>3, <3>2
    <3> QED BY <1>1, <1>3, <3>2, <3>3 DEF NoCrossTalk
  <2> QED BY <2>1, <2>2
<1> QED BY <1>2, <1>3 DEF NoCrossTalk

LEMMA WireInvNext == WireInv /\ [Next]_vars => WireInv'
<1> SUFFICES ASSUME WireInv, [Next]_vars PROVE WireInv'
  OBVIOUS
<1>1. TypeInv'
  BY TypeInvNext DEF WireInv
<1>2. SUFFICES ReturnsOffWire' /\ WireOwned' /\ NoCrossTalk'
  BY <1>1 DEF WireInv
<1>3. ASSUME NEW g \in G, Step(g) PROVE ReturnsOffWire' /\ WireOwned' /\ NoCrossTalk'
  BY <1>3, ExchangeWire, CloseWire, ConnectOffWire, DisconnectOffWire, OthersOffWire,
     OffWireKeeps DEF Step
<1>4. ASSUME NEW u \in Users, Application(u) PROVE ReturnsOffWire' /\ WireOwned' /\ NoCrossTalk'
  BY <1>4, OthersOffWire, OffWireKeeps DEF G
<1>5. ASSUME NEW s \in Sockets, ControllerSilent(s)
      PROVE  ReturnsOffWire' /\ WireOwned' /\ NoCrossTalk'
  BY <1>5, SilentWire
<1>6. CASE UNCHANGED vars
  BY <1>6 DEF vars, WireInv, ReturnsOffWire, WireOwned, NoCrossTalk
<1> QED BY <1>3, <1>4, <1>5, <1>6 DEF Next

LEMMA WireInvInit == Init => WireInv
<1>1. Init => TypeInv
  BY TypeInvInit
<1>2. Init => ReturnsOffWire /\ WireOwned /\ NoCrossTalk
  BY ClientAssumption DEF Init, ReturnsOffWire, WireOwned, NoCrossTalk
<1> QED BY <1>1, <1>2 DEF WireInv

(* Whoever is between the lock and the unlock of send_recv_data holds       *)
(* client.mutex, and nobody else is there, for any number of goroutines.    *)
THEOREM WireIsOwned == Spec => []WireOwned
<1>1. WireInv => WireOwned BY DEF WireInv
<1> QED BY <1>1, WireInvInit, WireInvNext, PTL DEF Spec

(* A goroutine never reads the reply another goroutine is waiting for: the  *)
(* only replies that reach the wrong request are those of exchanges that    *)
(* were given up.                                                           *)
THEOREM RepliesAreNotStolen == Spec => []NoCrossTalk
<1>1. WireInv => NoCrossTalk BY DEF WireInv
<1> QED BY <1>1, WireInvInit, WireInvNext, PTL DEF Spec

-----------------------------------------------------------------------------
(* keepAliveRunning stands for a goroutine.                                 *)

KeepAliveLabels == KeepAliveBody \cup {"ka_begin"}

(* Only KeepAlive goroutines execute KeepAlive.                             *)
KeepersOnly == \A h \in G : Within(h, KeepAliveLabels) => h \in Keepers

KeepAliveInv == TypeInv /\ KeepersOnly /\ KeepAliveOwned

USE DEF KeepAliveLabels

LEMMA GotoKeepers ==
  ASSUME ControlOK, KeepersOnly, NEW g \in G, NEW l, Goto(g, l),
         l \in KeepAliveLabels => pc[g] \in KeepAliveLabels
  PROVE  KeepersOnly'
<1> SUFFICES ASSUME NEW h \in G, Within(h, KeepAliveLabels)' PROVE Within(h, KeepAliveLabels)
  BY DEF KeepersOnly
<1> HIDE DEF KeepAliveLabels
<1> QED BY DEF ControlOK, Goto, Within

LEMMA CallKeepers ==
  ASSUME ControlOK, KeepersOnly, NEW g \in G, NEW l, NEW ret \in Labels, Call(g, l, ret),
         l \notin KeepAliveLabels, ret \in KeepAliveLabels => pc[g] \in KeepAliveLabels
  PROVE  KeepersOnly'
<1> SUFFICES ASSUME NEW h \in G, Within(h, KeepAliveLabels)' PROVE Within(h, KeepAliveLabels)
  BY DEF KeepersOnly
<1> HIDE DEF KeepAliveLabels
<1>1. CASE h # g
  BY <1>1 DEF ControlOK, Call, Within
<1>2. CASE h = g
  <2>1. stack[g] \in Seq(Labels) /\ stack'[g] = Append(stack[g], ret) /\ pc'[g] = l
    BY DEF ControlOK, Call
  <2>2. /\ Len(stack'[g]) = Len(stack[g]) + 1 /\ Len(stack[g]) \in Nat
        /\ stack'[g][Len(stack[g]) + 1] = ret
        /\ \A j \in 1..Len(stack[g]) : stack'[g][j] = stack[g][j]
    BY <2>1
  <2> HIDE DEF Labels
  <2>3. PICK i \in 1..Len(stack'[g]) : stack'[g][i] \in KeepAliveLabels
    BY <1>2, <2>1 DEF Within
  <2>4. CASE i = Len(stack[g]) + 1
    BY <1>2, <2>2, <2>3, <2>4 DEF Within
  <2>5. CASE i # Len(stack[g]) + 1
    <3>1. i \in 1..Len(stack[g])
      BY <2>2, <2>3, <2>5
    <3> QED BY <1>2, <2>2, <2>3, <3>1 DEF Within
  <2> QED BY <2>4, <2>5
<1> QED BY <1>1, <1>2

LEMMA ReturnKeepers ==
  ASSUME ControlOK, KeepersOnly, NEW g \in G, Return(g), pc[g] \notin BaseLabels
  PROVE  KeepersOnly'
<1> SUFFICES ASSUME NEW h \in G, Within(h, KeepAliveLabels)' PROVE Within(h, KeepAliveLabels)
  BY DEF KeepersOnly
<1>1. stack[g] \in Seq(Labels) /\ Len(stack[g]) \in Nat /\ Len(stack[g]) # 0
  BY DEF ControlOK, StackOK
<1>2. /\ stack'[g] = SubSeq(stack[g], 1, Len(stack[g]) - 1)
      /\ pc'[g] = stack[g][Len(stack[g])]
  BY DEF Return, ControlOK, Top
<1>3. /\ Len(stack'[g]) = Len(stack[g]) - 1
      /\ \A j \in 1..(Len(stack[g]) - 1) : stack'[g][j] = stack[g][j]
  BY <1>1, <1>2
<1> HIDE DEF KeepAliveLabels, Labels, BaseLabels
<1>4. CASE h # g
  BY <1>4 DEF ControlOK, Return, Within
<1>5. CASE h = g
  <2>1. CASE pc'[g] \in KeepAliveLabels
    BY <1>1, <1>2, <1>5, <2>1 DEF Within
  <2>2. CASE pc'[g] \notin KeepAliveLabels
    <3>1. PICK i \in 1..Len(stack'[g]) : stack'[g][i] \in KeepAliveLabels
      BY <1>5, <2>2 DEF Within
    <3>2. i \in 1..Len(stack[g]) /\ stack'[g][i] = stack[g][i]
      BY <1>1, <1>3, <3>1
    <3> QED BY <1>5, <3>1, <3>2 DEF Within
  <2> QED BY <2>1, <2>2
<1> QED BY <1>4, <1>5

(* A step that leaves the flag and the channel alone and that no KeepAlive  *)
(* goroutine uses to end.                                                   *)
KeepAliveKept == KeepersOnly' /\ Keeps(KeepAliveBody) /\ UNCHANGED <<keepAliveRunning, cancel>>

LEMMA KeptOwned ==
  ASSUME KeepAliveInv, KeepAliveKept
  PROVE  KeepersOnly' /\ KeepAliveOwned'
<1> HIDE DEF KeepAliveBody, KeepAliveLabels
<1>1. CASE keepAliveRunning
  <2>1. PICK k \in Keepers : Within(k, KeepAliveBody)
    BY <1>1 DEF KeepAliveInv, KeepAliveOwned
  <2>2. Within(k, KeepAliveBody)'
    BY <2>1 DEF KeepAliveKept, Keeps, G
  <2> QED BY <1>1, <2>2 DEF KeepAliveInv, KeepAliveKept, KeepAliveOwned
<1>2. CASE ~keepAliveRunning
  BY <1>2 DEF KeepAliveInv, KeepAliveKept, KeepAliveOwned
<1> QED BY <1>1, <1>2

LEMMA PanicKept ==
  ASSUME KeepAliveInv, NEW why, Panic(why)
  PROVE  KeepAliveKept
BY DEF Panic, KeepAliveInv, KeepAliveKept, KeepersOnly, Keeps, Within, ctl, ka

LEMMA ExchangeKept ==
  ASSUME KeepAliveInv, NEW g \in G, Exchange(g)
  PROVE  KeepAliveKept
<1> USE DEF ka
<1>1. ControlOK /\ KeepersOnly
  BY TypeInvParts DEF KeepAliveInv
<1>2. CASE Lock(g)
  BY <1>1, <1>2, GotoKeeps, GotoKeepers DEF Lock, KeepAliveKept
<1>3. CASE Send(g)
  BY <1>1, <1>3, GotoKeeps, GotoKeepers DEF Send, KeepAliveKept
<1>4. CASE SendFails(g)
  BY <1>1, <1>4, GotoKeeps, GotoKeepers DEF SendFails, KeepAliveKept
<1>5. CASE Receive(g)
  BY <1>1, <1>5, ReturnKeeps, ReturnKeepers DEF Receive, KeepAliveKept
<1>6. CASE ReceiveFails(g)
  BY <1>1, <1>6, GotoKeeps, GotoKeepers DEF ReceiveFails, KeepAliveKept
<1>7. CASE NilConn(g)
  BY <1>7, PanicKept DEF NilConn
<1> QED BY <1>2, <1>3, <1>4, <1>5, <1>6, <1>7 DEF Exchange

LEMMA ConnectKept ==
  ASSUME KeepAliveInv, NEW g \in G, Connect(g)
  PROVE  KeepAliveKept
<1> USE DEF ka
<1>1. ControlOK /\ KeepersOnly
  BY TypeInvParts DEF KeepAliveInv
<1>2. CASE StartConnect(g)
  BY <1>1, <1>2, GotoKeeps, GotoKeepers, ReturnKeeps, ReturnKeepers DEF StartConnect, KeepAliveKept
<1>3. CASE Dial(g)
  BY <1>1, <1>3, GotoKeeps, GotoKeepers, CallKeeps, CallKeepers DEF Dial, KeepAliveKept
<1>4. CASE Registered(g)
  BY <1>1, <1>4, GotoKeeps, GotoKeepers, CallKeeps, CallKeepers DEF Registered, KeepAliveKept
<1>5. CASE LargeOpened(g)
  BY <1>1, <1>5, GotoKeeps, GotoKeepers, CallKeeps, CallKeepers DEF LargeOpened, KeepAliveKept
<1>6. CASE StandardOpened(g)
  BY <1>1, <1>6, GotoKeeps, GotoKeepers DEF StandardOpened, KeepAliveKept
<1>7. CASE StartKeepAlive(g)
  <2>1. CASE Goto(g, "co_done")
    BY <1>1, <1>7, <2>1, GotoKeeps, GotoKeepers DEF StartKeepAlive, KeepAliveKept
  <2>2. ASSUME NEW k \in Keepers, pc[k] = "idle", UNCHANGED stack,
               pc' = [pc EXCEPT ![g] = "co_done", ![k] = "ka_begin"]
        PROVE  KeepersOnly' /\ Keeps(KeepAliveBody)
    <3>1. pc[g] = "co_ok" /\ pc \in [G -> Labels] /\ k \in G
      BY <1>1, <1>7 DEF StartKeepAlive, ControlOK, G
    <3>2. Keeps(KeepAliveBody)
      BY <2>2, <3>1 DEF Keeps, Within
    <3>3. ASSUME NEW h \in G, h # k, Within(h, KeepAliveLabels)' PROVE Within(h, KeepAliveLabels)
      BY <2>2, <3>1, <3>3 DEF Within
    <3> QED
      <4> HIDE DEF KeepAliveLabels, KeepAliveBody
      <4> QED BY <1>1, <3>2, <3>3 DEF KeepersOnly
  <2> QED BY <1>7, <2>1, <2>2 DEF StartKeepAlive, KeepAliveKept
<1>8. CASE ConnectDone(g)
  BY <1>1, <1>8, ReturnKeeps, ReturnKeepers DEF ConnectDone, KeepAliveKept
<1> QED BY <1>2, <1>3, <1>4, <1>5, <1>6, <1>7, <1>8 DEF Connect

LEMMA DisconnectKept ==
  ASSUME KeepAliveInv, NEW g \in G, Disconnect(g)
  PROVE  KeepAliveKept
<1> USE DEF ka
<1>1. ControlOK /\ KeepersOnly
  BY TypeInvParts DEF KeepAliveInv
<1>2. CASE Snapshot(g)
  BY <1>1, <1>2, GotoKeeps, GotoKeepers DEF Snapshot, KeepAliveKept
<1>3. CASE StartDisconnect(g)
  BY <1>1, <1>3, GotoKeeps, GotoKeepers, ReturnKeeps, ReturnKeepers
     DEF StartDisconnect, KeepAliveKept
<1>4. CASE StopKeepAlive(g)
  <2>1. CASE CloseCancelPanics
    BY <2>1, PanicKept DEF CloseCancelPanics
  <2>2. CASE ~CloseCancelPanics
    BY <1>1, <1>4, <2>2, GotoKeeps, GotoKeepers, CallKeeps, CallKeepers
       DEF StopKeepAlive, KeepAliveKept
  <2> QED BY <2>1, <2>2
<1>5. CASE CloseConn(g)
  BY <1>1, <1>5, GotoKeeps, GotoKeepers DEF CloseConn, KeepAliveKept
<1>6. CASE DisconnectDone(g)
  BY <1>1, <1>6, ReturnKeeps, ReturnKeepers DEF DisconnectDone, KeepAliveKept
<1> QED BY <1>2, <1>3, <1>4, <1>5, <1>6 DEF Disconnect

LEMMA OperationsKept ==
  ASSUME KeepAliveInv, NEW g \in G,
         OperationChecked(g) \/ OperationDone(g) \/ (g \in Users /\ Application(g))
  PROVE  KeepAliveKept
<1> USE DEF ka
<1>1. ControlOK /\ KeepersOnly
  BY TypeInvParts DEF KeepAliveInv
<1>2. CASE OperationChecked(g)
  BY <1>1, <1>2, GotoKeeps, GotoKeepers, CallKeeps, CallKeepers DEF OperationChecked, KeepAliveKept
<1>3. CASE OperationDone(g)
  BY <1>1, <1>3, GotoKeeps, GotoKeepers DEF OperationDone, KeepAliveKept
<1>4. CASE Application(g)
  <2>1. CASE Operation(g)
    BY <1>1, <2>1, CallKeeps, CallKeepers DEF Operation, KeepAliveKept
  <2>2. CASE CallConnect(g)
    BY <1>1, <2>2, CallKeeps, CallKeepers DEF CallConnect, KeepAliveKept
  <2>3. CASE CallDisconnect(g)
    BY <1>1, <2>3, CallKeeps, CallKeepers DEF CallDisconnect, KeepAliveKept
  <2>4. CASE KeepAliveCancel(g)
    <3>1. CASE CloseCancelPanics
      BY <3>1, PanicKept DEF CloseCancelPanics
    <3>2. CASE ~CloseCancelPanics
      BY <1>1, <2>4, <3>2 DEF KeepAliveCancel, KeepAliveKept, KeepersOnly, Keeps, Within, ctl
    <3> QED BY <3>1, <3>2
  <2> QED BY <1>4, <2>1, <2>2, <2>3, <2>4 DEF Application
<1> QED BY <1>2, <1>3, <1>4

LEMMA KeepAliveStepOwned ==
  ASSUME KeepAliveInv, NEW g \in G, KeepAlive(g)
  PROVE  KeepersOnly' /\ KeepAliveOwned'
<1> USE DEF ka
<1>1. ControlOK /\ KeepersOnly
  BY TypeInvParts DEF KeepAliveInv
<1>2. CASE KeepAliveBegins(g)
  <2>1. CASE ~KeepAliveAutoStart
    BY <1>1, <1>2, <2>1, GotoKeeps, GotoKeepers, KeptOwned DEF KeepAliveBegins, KeepAliveKept
  <2>2. CASE KeepAliveAutoStart
    <3>1. Call(g, "sr_lock", "ka_first") /\ pc[g] = "ka_begin" /\ cancel' = cancel + 1
      BY <1>2, <2>2 DEF KeepAliveBegins
    <3>2. KeepersOnly'
      BY <1>1, <3>1, CallKeepers
    <3>3. g \in Keepers
      BY <1>1, <3>1 DEF KeepersOnly, Within
    <3>4. cancel' # 0
      BY <3>1 DEF KeepAliveInv, TypeInv, TypeOK
    <3>5. Within(g, KeepAliveBody)'
      <4>1. stack[g] \in Seq(Labels) /\ stack'[g] = Append(stack[g], "ka_first")
        BY <1>1, <3>1 DEF ControlOK, Call
      <4>2. /\ Len(stack'[g]) = Len(stack[g]) + 1 /\ Len(stack[g]) \in Nat
            /\ stack'[g][Len(stack[g]) + 1] = "ka_first"
        BY <4>1
      <4> QED BY <4>2 DEF Within
    <3> QED BY <3>2, <3>3, <3>4, <3>5 DEF KeepAliveOwned
  <2> QED BY <2>1, <2>2
<1>3. CASE KeepAlivePolled(g)
  BY <1>1, <1>3, GotoKeeps, GotoKeepers, CallKeeps, CallKeepers, KeptOwned
     DEF KeepAlivePolled, KeepAliveKept
<1>4. CASE Tick(g)
  BY <1>1, <1>4, GotoKeeps, GotoKeepers, CallKeeps, CallKeepers, KeptOwned DEF Tick, KeepAliveKept
<1>5. CASE Cancelled(g)
  BY <1>1, <1>5, GotoKeeps, GotoKeepers, KeptOwned DEF Cancelled, KeepAliveKept
<1>6. CASE KeepAliveExits(g)
  BY <1>1, <1>6, GotoKeepers DEF KeepAliveExits, KeepAliveOwned
<1> QED BY <1>2, <1>3, <1>4, <1>5, <1>6 DEF KeepAlive

LEMMA KeepAliveInvNext == KeepAliveInv /\ [Next]_vars => KeepAliveInv'
<1> SUFFICES ASSUME KeepAliveInv, [Next]_vars PROVE KeepAliveInv'
  OBVIOUS
<1>1. TypeInv'
  BY TypeInvNext DEF KeepAliveInv
<1>2. SUFFICES KeepersOnly' /\ KeepAliveOwned'
  BY <1>1 DEF KeepAliveInv
<1>3. ASSUME NEW g \in G, Step(g) PROVE KeepersOnly' /\ KeepAliveOwned'
  BY <1>3, ExchangeKept, ConnectKept, DisconnectKept, OperationsKept, KeepAliveStepOwned,
     KeptOwned DEF Step
<1>4. ASSUME NEW u \in Users, Application(u) PROVE KeepersOnly' /\ KeepAliveOwned'
  BY <1>4, OperationsKept, KeptOwned DEF G
<1>5. ASSUME NEW s \in Sockets, ControllerSilent(s) PROVE KeepersOnly' /\ KeepAliveOwned'
  BY <1>5 DEF ControllerSilent, KeepAliveInv, KeepersOnly, KeepAliveOwned, Within, ctl, ka
<1>6. CASE UNCHANGED vars
  BY <1>6 DEF vars, KeepAliveInv, KeepersOnly, KeepAliveOwned, Within
<1> QED BY <1>3, <1>4, <1>5, <1>6 DEF Next

(* keepAliveRunning is set only while a KeepAlive goroutine lives that has  *)
(* made a cancel channel, however many KeepAlives overlap: Disconnect never *)
(* closes a nil channel.                                                    *)
THEOREM KeepAliveIsOwned == Spec => []KeepAliveOwned
<1>1. Init => KeepAliveInv
  BY TypeInvInit DEF Init, KeepAliveInv, KeepersOnly, KeepAliveOwned, Within
<1>2. KeepAliveInv => KeepAliveOwned BY DEF KeepAliveInv
<1> QED BY <1>1, <1>2, KeepAliveInvNext, PTL DEF Spec

-----------------------------------------------------------------------------
(* A client that one goroutine uses: until a KeepAlive runs beside it, the *)
(* goroutine never meets a nil connection and never acts on a reply that   *)
(* is not its own.                                                         *)

(* The stacks the goroutine can have inside Connect, inside an exchange     *)
(* made for an operation or for Connect, inside a Disconnect called by the  *)
(* application or by a failed exchange, and inside the ForwardClose         *)
(* exchange of such a Disconnect.                                           *)
OpenReturns == {"co_registered", "co_large", "co_std"}

USE DEF OpenReturns

ConnectFrom(s) == Len(s) = 1 /\ s[1] \in {"idle", "op_checked"}

OperationFrom(s) == Len(s) = 1 /\ s[1] = "op_done"

OpenFrom(s) == Len(s) = 2 /\ s[1] \in {"idle", "op_checked"} /\ s[2] \in OpenReturns

CalledFrom(s) == Len(s) = 1 /\ s[1] = "idle"

CloseCalledFrom(s) == Len(s) = 2 /\ s[1] = "idle" /\ s[2] = "dc_close"

CloseFailedFrom(s) ==
  \/ Len(s) = 2 /\ s[1] = "op_done" /\ s[2] = "dc_close"
  \/ Len(s) = 3 /\ s[1] \in {"idle", "op_checked"} /\ s[2] \in OpenReturns /\ s[3] = "dc_close"

AllRead == \A s \in Sockets : pend[s] = <<>>
OthersRead == \A s \in Sockets : s # conn => pend[s] = <<>>

OwnReply(u) == got[u] # "other" \/ res[u] = "err"

(* A connection nobody is changing.                                         *)
Settled ==
  /\ connStatus \in {"Connected", "Disconnected"}
  /\ connStatus = "Connected" => conn \in open

(* A connection that Connect opened, or that a failed exchange of Connect   *)
(* closed behind its back.                                                  *)
Opening ==
  \/ connStatus = "Connecting" /\ conn \in open
  \/ connStatus = "Disconnected" /\ conn \in Sockets \ open

AtRest(u) ==
  pc[u] \in {"idle", "op_checked", "op_done"} =>
    /\ Len(stack[u]) = 0 /\ AllRead /\ Settled
    /\ pc[u] = "op_checked" /\ res[u] = "ok" => connStatus = "Connected"
    /\ pc[u] = "op_done" => OwnReply(u)

InConnect(u) ==
  pc[u] \in ConnectBody \cup {"co_start"} =>
    /\ ConnectFrom(stack[u]) /\ AllRead
    /\ pc[u] = "co_start" => Settled
    /\ pc[u] = "co_dial" => connStatus = "Connecting"
    /\ pc[u] \in OpenReturns =>
         Opening /\ OwnReply(u) /\ (res[u] = "ok" => connStatus = "Connecting")
    /\ pc[u] \in {"co_ok", "co_done"} => connStatus = "Connecting" /\ conn \in open

InExchange(u) ==
  pc[u] \in {"sr_lock", "sr_send", "sr_recv"} =>
    \/ /\ OperationFrom(stack[u]) \/ OpenFrom(stack[u])
       /\ OperationFrom(stack[u]) => connStatus = "Connected" /\ conn \in open
       /\ OpenFrom(stack[u]) => Opening
       /\ pc[u] # "sr_recv" => AllRead
       /\ pc[u] = "sr_recv" =>
            /\ OthersRead /\ conn \in open
            /\ Len(pend[conn]) <= 1 /\ (Len(pend[conn]) = 1 => pend[conn][1] = u)
    \/ /\ CloseCalledFrom(stack[u]) \/ CloseFailedFrom(stack[u])
       /\ CloseFailedFrom(stack[u]) => res[u] = "err"
       /\ connStatus = "Disconnecting" /\ conn \in Sockets /\ OthersRead

(* Before Disconnect takes the transition, if it does.                      *)
BeforeDisconnect(u) ==
  pc[u] \in {"dc_snap", "dc_start"} =>
    \/ /\ OperationFrom(stack[u])
       /\ res[u] = "err" /\ connStatus = "Connected" /\ conn \in open /\ OthersRead
    \/ /\ OpenFrom(stack[u])
       /\ res[u] = "err" /\ Opening /\ OthersRead
       /\ connStatus = "Disconnected" => AllRead
    \/ CalledFrom(stack[u]) /\ Settled /\ AllRead
    \/ /\ CloseCalledFrom(stack[u]) \/ CloseFailedFrom(stack[u])
       /\ CloseFailedFrom(stack[u]) => res[u] = "err"
       /\ connStatus = "Disconnecting" /\ conn \in Sockets /\ OthersRead

InDisconnect(u) ==
  pc[u] \in DisconnectBody =>
    /\ OperationFrom(stack[u]) \/ OpenFrom(stack[u]) \/ CalledFrom(stack[u])
    /\ ~CalledFrom(stack[u]) => res[u] = "err"
    /\ connStatus = "Disconnecting" /\ conn \in Sockets /\ OthersRead
    /\ pc[u] = "dc_done" => AllRead /\ conn \notin open

(* A KeepAlive goroutine that has not begun.                                *)
Unbegun(k) == pc[k] \in {"idle", "ka_begin"}

Place(u) ==
  AtRest(u) /\ InConnect(u) /\ InExchange(u) /\ BeforeDisconnect(u) /\ InDisconnect(u)

AloneInv ==
  UsedAlone =>
    /\ crash # "nil_conn"
    /\ \A k \in Keepers : Unbegun(k)
    /\ \A u \in Users : Place(u)

-----------------------------------------------------------------------------
(* What a transfer of control does to a stack of at most three labels.      *)

LEMMA Jumps ==
  ASSUME ControlOK, NEW g \in G, NEW l, Goto(g, l)
  PROVE  /\ pc'[g] = l /\ stack'[g] = stack[g]
         /\ \A h \in G \ {g} : pc'[h] = pc[h]
BY DEF ControlOK, Goto

LEMMA Pushes ==
  ASSUME ControlOK, NEW g \in G, NEW l, NEW ret \in Labels, Call(g, l, ret)
  PROVE  /\ pc'[g] = l
         /\ Len(stack[g]) = 0 /\ ret \in {"idle", "op_checked"} => ConnectFrom(stack'[g])
         /\ Len(stack[g]) = 0 /\ ret = "op_done" => OperationFrom(stack'[g])
         /\ Len(stack[g]) = 0 /\ ret = "idle" => CalledFrom(stack'[g])
         /\ ConnectFrom(stack[g]) /\ ret \in OpenReturns => OpenFrom(stack'[g])
         /\ CalledFrom(stack[g]) /\ ret = "dc_close" => CloseCalledFrom(stack'[g])
         /\ (OperationFrom(stack[g]) \/ OpenFrom(stack[g])) /\ ret = "dc_close" =>
              CloseFailedFrom(stack'[g])
         /\ \A h \in G \ {g} : pc'[h] = pc[h]
<1>1. /\ stack[g] \in Seq(Labels) /\ stack'[g] = Append(stack[g], ret) /\ pc'[g] = l
      /\ \A h \in G \ {g} : pc'[h] = pc[h]
  BY DEF ControlOK, Call
<1>2. /\ Len(stack'[g]) = Len(stack[g]) + 1 /\ Len(stack[g]) \in Nat
      /\ stack'[g][Len(stack[g]) + 1] = ret
      /\ \A i \in 1..Len(stack[g]) : stack'[g][i] = stack[g][i]
  BY <1>1
<1>3. Len(stack[g]) = 0 => Len(stack'[g]) = 1 /\ stack'[g][1] = ret
  BY ONLY <1>2
<1>4. ASSUME Len(stack[g]) = 1
      PROVE  Len(stack'[g]) = 2 /\ stack'[g][1] = stack[g][1] /\ stack'[g][2] = ret
  BY ONLY <1>2, <1>4
<1>5. ASSUME Len(stack[g]) = 2
      PROVE  /\ Len(stack'[g]) = 3 /\ stack'[g][1] = stack[g][1]
             /\ stack'[g][2] = stack[g][2] /\ stack'[g][3] = ret
  BY ONLY <1>2, <1>5
<1> QED BY ONLY <1>1, <1>3, <1>4, <1>5 DEF ConnectFrom, OperationFrom, CalledFrom, OpenFrom, CloseCalledFrom,
                CloseFailedFrom, OpenReturns

LEMMA Pops ==
  ASSUME ControlOK, NEW g \in G, Return(g), pc[g] \notin BaseLabels
  PROVE  /\ ConnectFrom(stack[g]) => pc'[g] \in {"idle", "op_checked"} /\ Len(stack'[g]) = 0
         /\ OperationFrom(stack[g]) => pc'[g] = "op_done" /\ Len(stack'[g]) = 0
         /\ CalledFrom(stack[g]) => pc'[g] = "idle" /\ Len(stack'[g]) = 0
         /\ OpenFrom(stack[g]) => pc'[g] \in OpenReturns /\ ConnectFrom(stack'[g])
         /\ CloseCalledFrom(stack[g]) => pc'[g] = "dc_close" /\ CalledFrom(stack'[g])
         /\ CloseFailedFrom(stack[g]) =>
              pc'[g] = "dc_close" /\ (OperationFrom(stack'[g]) \/ OpenFrom(stack'[g]))
         /\ \A h \in G \ {g} : pc'[h] = pc[h]
<1>1. stack[g] \in Seq(Labels) /\ Len(stack[g]) \in Nat /\ Len(stack[g]) # 0
  BY DEF ControlOK, StackOK
<1>2. /\ stack'[g] = SubSeq(stack[g], 1, Len(stack[g]) - 1)
      /\ pc'[g] = stack[g][Len(stack[g])]
      /\ \A h \in G \ {g} : pc'[h] = pc[h]
  BY DEF Return, ControlOK, Top
<1>3. /\ Len(stack'[g]) = Len(stack[g]) - 1
      /\ \A j \in 1..(Len(stack[g]) - 1) : stack'[g][j] = stack[g][j]
  BY <1>1, <1>2
<1>4. Len(stack[g]) = 1 => Len(stack'[g]) = 0 /\ pc'[g] = stack[g][1]
  BY ONLY <1>2, <1>3
<1>5. Len(stack[g]) = 2 => Len(stack'[g]) = 1 /\ pc'[g] = stack[g][2] /\ stack'[g][1] = stack[g][1]
  <2> SUFFICES ASSUME Len(stack[g]) = 2
               PROVE  Len(stack'[g]) = 1 /\ pc'[g] = stack[g][2] /\ stack'[g][1] = stack[g][1]
    OBVIOUS
  <2> QED BY ONLY <1>2, <1>3, Len(stack[g]) = 2
<1>6. Len(stack[g]) = 3 => /\ Len(stack'[g]) = 2 /\ pc'[g] = stack[g][3]
                           /\ stack'[g][1] = stack[g][1] /\ stack'[g][2] = stack[g][2]
  <2> SUFFICES ASSUME Len(stack[g]) = 3
               PROVE  /\ Len(stack'[g]) = 2 /\ pc'[g] = stack[g][3]
                      /\ stack'[g][1] = stack[g][1] /\ stack'[g][2] = stack[g][2]
    OBVIOUS
  <2> QED BY ONLY <1>2, <1>3, Len(stack[g]) = 3
<1> QED BY ONLY <1>2, <1>4, <1>5, <1>6 DEF ConnectFrom, OperationFrom, CalledFrom, OpenFrom,
                CloseCalledFrom, CloseFailedFrom, OpenReturns

(* A goroutine is in one kind of exchange, or Disconnect, at a time.        *)
LEMMA Apart ==
  \A s : /\ OperationFrom(s) => ~(OpenFrom(s) \/ CalledFrom(s))
         /\ OpenFrom(s) => ~(CalledFrom(s) \/ CloseCalledFrom(s))
         /\ CloseFailedFrom(s) => ~(OperationFrom(s) \/ OpenFrom(s) \/ CloseCalledFrom(s))
         /\ CloseCalledFrom(s) => ~(OperationFrom(s) \/ CalledFrom(s))
         /\ CloseFailedFrom(s) => ~CalledFrom(s)
BY DEF OperationFrom, OpenFrom, CalledFrom, CloseCalledFrom, CloseFailedFrom

-----------------------------------------------------------------------------
(* The steps of the goroutine.                                              *)

(* The place a step leads to is the only one to establish.                  *)
LEMMA Enters ==
  ASSUME NEW u
  PROVE  /\ pc'[u] \in {"idle", "op_checked", "op_done"} /\ AtRest(u)' => Place(u)'
         /\ pc'[u] \in ConnectBody \cup {"co_start"} /\ InConnect(u)' => Place(u)'
         /\ pc'[u] \in {"sr_lock", "sr_send", "sr_recv"} /\ InExchange(u)' => Place(u)'
         /\ pc'[u] \in {"dc_snap", "dc_start"} /\ BeforeDisconnect(u)' => Place(u)'
         /\ pc'[u] \in DisconnectBody /\ InDisconnect(u)' => Place(u)'
BY DEF Place, AtRest, InConnect, InExchange, BeforeDisconnect, InDisconnect

USE Apart

(* There is nothing to give up in an empty queue.                           *)
LEMMA AbandonEmpty == \A g : Abandon(<<>>, g) = <<>>
BY DEF Abandon

(* Reading the only request of a queue empties it.                          *)
LEMMA Single ==
  ASSUME NEW S, NEW q \in Seq(S), q # <<>>, Len(q) <= 1
  PROVE  Len(q) = 1 /\ Head(q) = q[1] /\ Tail(q) = <<>>
<1>1. Len(q) \in Nat /\ Len(q) # 0
  BY ONLY q \in Seq(S), q # <<>>
<1>2. Len(q) = 1
  BY ONLY <1>1, Len(q) <= 1
<1>3. Tail(q) \in Seq(S) /\ Len(Tail(q)) = 0 /\ Head(q) = q[1]
  BY ONLY <1>2, q \in Seq(S), q # <<>>
<1>4. Tail(q) = <<>>
  BY <1>3, EmptySeq, Zenon
<1> QED BY ONLY <1>2, <1>3, <1>4

LEMMA PlaceExchange ==
  ASSUME TypeInv, NEW u \in G, Place(u), Exchange(u), crash = "none"
  PROVE  Place(u)' /\ crash' # "nil_conn"
<1> USE DEF sock
<1>1. ControlOK
  BY TypeInvParts
<1>2. CASE Lock(u)
  <2>1. pc[u] = "sr_lock" /\ pc'[u] = "sr_send" /\ stack'[u] = stack[u]
    BY <1>1, <1>2, Jumps DEF Lock
  <2>2. InExchange(u)'
    BY <1>2, <2>1 DEF Lock, Place, InExchange, AllRead, OthersRead, Opening
  <2> QED BY <1>2, <2>1, <2>2, Enters DEF Lock
<1>3. CASE Send(u)
  <2>1. pc[u] = "sr_send" /\ pc'[u] = "sr_recv" /\ stack'[u] = stack[u]
    BY <1>1, <1>3, Jumps DEF Send
  <2>2. /\ pend \in [Sockets -> Seq(G \cup {Stale})] /\ conn \in Sockets
        /\ pend' = [pend EXCEPT ![conn] = Append(pend[conn], u)] /\ conn \in open
        /\ UNCHANGED <<conn, open, connStatus, res>>
    BY <1>3 DEF Send, TypeInv, TypeOK
  <2>3. OthersRead => OthersRead'
    BY <2>2 DEF OthersRead
  <2>4. AllRead => OthersRead' /\ Len(pend'[conn]) = 1 /\ pend'[conn][1] = u
    BY <2>2 DEF AllRead, OthersRead
  <2>5. InExchange(u)'
    BY <2>1, <2>2, <2>3, <2>4 DEF Place, InExchange, Opening
  <2> QED BY <1>3, <2>1, <2>5, Enters DEF Send
<1>4. CASE SendFails(u)
  <2>1. pc[u] = "sr_send" /\ pc'[u] = "dc_snap" /\ stack'[u] = stack[u]
    BY <1>1, <1>4, Jumps DEF SendFails
  <2>2. UNCHANGED <<conn, open, connStatus, pend>> /\ res'[u] = "err"
    BY <1>4 DEF SendFails, Result, TypeInv, TypeOK
  <2>3. BeforeDisconnect(u)'
    BY <2>1, <2>2 DEF Place, InExchange, BeforeDisconnect, AllRead, OthersRead, Opening
  <2> QED BY <1>4, <2>1, <2>3, Enters DEF SendFails
<1>5. CASE Receive(u)
  <2>1. /\ pend \in [Sockets -> Seq(G \cup {Stale})] /\ conn \in Sockets /\ conn \in open
        /\ pend[conn] # <<>> /\ UNCHANGED <<conn, open, connStatus, crash>>
        /\ \A s \in Sockets : pend'[s] = Abandon(IF s = conn THEN Tail(pend[s]) ELSE pend[s], u)
        /\ got'[u] = IF Head(pend[conn]) = u THEN "own" ELSE "other"
    BY <1>5 DEF Receive, TypeInv, TypeOK
  <2>2. pc[u] = "sr_recv" /\ res'[u] \in Parsed(u) /\ res[u] \in {"ok", "err"}
    BY <1>5 DEF Receive, Result, TypeInv, TypeOK
  <2>3. OthersRead => OthersRead'
    BY <2>1, AbandonEmpty DEF OthersRead
  <2>4. ASSUME OthersRead, Len(pend[conn]) <= 1, Len(pend[conn]) = 1 => pend[conn][1] = u
        PROVE  AllRead' /\ got'[u] = "own"
    <3>1. Len(pend[conn]) = 1 /\ Head(pend[conn]) = u /\ Tail(pend[conn]) = <<>>
      BY <2>1, <2>4, Single
    <3>2. \A s \in Sockets : (IF s = conn THEN Tail(pend[s]) ELSE pend[s]) = <<>>
      BY <2>4, <3>1 DEF OthersRead
    <3> QED BY <2>1, <3>1, <3>2, AbandonEmpty DEF AllRead
  <2>5. CASE OperationFrom(stack[u])
    <3>1. pc'[u] = "op_done" /\ Len(stack'[u]) = 0
      BY <1>1, <1>5, <2>2, <2>5, Pops DEF Receive
    <3>2. AtRest(u)'
      BY <2>1, <2>2, <2>4, <2>5, <3>1 DEF Place, InExchange, AtRest, Settled, OwnReply
    <3> QED BY <2>1, <3>1, <3>2, Enters
  <2>6. CASE OpenFrom(stack[u])
    <3>1. pc'[u] \in OpenReturns /\ ConnectFrom(stack'[u])
      BY <1>1, <1>5, <2>2, <2>6, Pops DEF Receive
    <3>2. InConnect(u)'
      BY <2>1, <2>2, <2>4, <2>6, <3>1 DEF Place, InExchange, InConnect, Opening, OwnReply
    <3> QED BY <2>1, <2>6, <3>1, <3>2, Enters
  <2>7. CASE CloseCalledFrom(stack[u])
    <3>1. pc'[u] = "dc_close" /\ CalledFrom(stack'[u])
      BY <1>1, <1>5, <2>2, <2>7, Pops DEF Receive
    <3>2. InDisconnect(u)'
      BY <2>1, <2>2, <2>3, <2>7, <3>1 DEF Place, InExchange, InDisconnect
    <3> QED BY <2>1, <3>1, <3>2, Enters
  <2>8. CASE CloseFailedFrom(stack[u])
    <3>1. pc'[u] = "dc_close" /\ (OperationFrom(stack'[u]) \/ OpenFrom(stack'[u]))
      BY <1>1, <1>5, <2>2, <2>8, Pops DEF Receive
    <3>2. res'[u] = res[u]
      BY <2>2, <2>8 DEF Parsed, Top, CloseFailedFrom
    <3>3. InDisconnect(u)'
      BY <2>1, <2>2, <2>3, <2>8, <3>1, <3>2 DEF Place, InExchange, InDisconnect
    <3> QED BY <2>1, <3>1, <3>3, Enters
  <2> QED BY <2>2, <2>5, <2>6, <2>7, <2>8 DEF Place, InExchange
<1>6. CASE ReceiveFails(u)
  <2>1. pc[u] = "sr_recv" /\ pc'[u] = "dc_snap" /\ stack'[u] = stack[u]
    BY <1>1, <1>6, Jumps DEF ReceiveFails
  <2>2. /\ UNCHANGED <<conn, open, connStatus, crash>> /\ res'[u] = "err"
        /\ \A s \in Sockets : pend'[s] = Abandon(pend[s], u)
    BY <1>6 DEF ReceiveFails, Result, TypeInv, TypeOK
  <2>3. OthersRead => OthersRead'
    BY <2>2, AbandonEmpty DEF OthersRead
  <2>4. BeforeDisconnect(u)'
    BY <2>1, <2>2, <2>3 DEF Place, InExchange, BeforeDisconnect, Opening
  <2> QED BY <2>1, <2>2, <2>4, Enters
<1>7. CASE NilConn(u)
  BY <1>7, ClientAssumption DEF NilConn, Place, InExchange, Opening, TypeInv, TypeOK
<1> QED BY <1>2, <1>3, <1>4, <1>5, <1>6, <1>7 DEF Exchange

LEMMA PlaceConnect ==
  ASSUME TypeInv, NEW u \in G, Place(u), Connect(u), crash = "none"
  PROVE  Place(u)' /\ crash' # "nil_conn"
<1> USE DEF sock
<1>1. ControlOK /\ res[u] \in {"ok", "err"}
  BY TypeInvParts DEF DataOK
<1>2. CASE StartConnect(u)
  <2>1. CASE connStatus = "Disconnected"
    <3>1. pc[u] = "co_start" /\ pc'[u] = "co_dial" /\ stack'[u] = stack[u]
      BY <1>1, <1>2, <2>1, Jumps DEF StartConnect
    <3>2. InConnect(u)'
      BY <1>2, <2>1, <3>1 DEF StartConnect, Place, InConnect, AllRead
    <3> QED BY <1>2, <3>1, <3>2, Enters DEF StartConnect
  <2>2. CASE connStatus # "Disconnected"
    <3>1. /\ pc[u] = "co_start" /\ pc'[u] \in {"idle", "op_checked"}
          /\ Len(stack'[u]) = 0
      BY <1>1, <1>2, <2>2, Pops DEF StartConnect, Place, InConnect
    <3>2. res'[u] = "err" /\ UNCHANGED <<connStatus, conn, open, pend, crash>>
      BY <1>2, <2>2 DEF StartConnect, Result, TypeInv, TypeOK
    <3>3. AtRest(u)'
      BY <3>1, <3>2 DEF Place, InConnect, AtRest, AllRead, Settled, OwnReply
    <3> QED BY <3>1, <3>2, <3>3, Enters
  <2> QED BY <2>1, <2>2
<1>3. CASE Dial(u)
  <2>1. CASE conn' = None
    <3>1. pc[u] = "co_dial" /\ pc'[u] = "co_fail" /\ stack'[u] = stack[u]
      BY <1>1, <1>3, <2>1, Jumps, ClientAssumption DEF Dial
    <3>2. InConnect(u)'
      BY <1>3, <3>1 DEF Dial, Place, InConnect, AllRead
    <3> QED BY <1>3, <3>1, <3>2, Enters DEF Dial
  <2>2. CASE conn' # None
    <3>1. /\ pc[u] = "co_dial" /\ Call(u, "sr_lock", "co_registered")
          /\ conn' \in open' /\ UNCHANGED <<connStatus, pend, crash>>
      BY <1>3, <2>2 DEF Dial
    <3>2. pc'[u] = "sr_lock" /\ OpenFrom(stack'[u])
      BY <1>1, <3>1, Pushes DEF Place, InConnect
    <3>3. InExchange(u)'
      BY <3>1, <3>2 DEF Place, InConnect, InExchange, AllRead, Opening
    <3> QED BY <3>1, <3>2, <3>3, Enters
  <2> QED BY <2>1, <2>2
<1>4. CASE Registered(u)
  <2>1. /\ pc[u] = "co_registered" /\ UNCHANGED <<connStatus, conn, open, pend, res, got, crash>>
        /\ \/ res[u] = "err" /\ Goto(u, "co_fail")
           \/ res[u] = "ok" /\ \E l \in {"co_large", "co_std"} : Call(u, "sr_lock", l)
    BY <1>4 DEF Registered
  <2>2. CASE res[u] = "err"
    <3>1. pc'[u] = "co_fail" /\ stack'[u] = stack[u]
      BY <1>1, <2>1, <2>2, Jumps
    <3>2. InConnect(u)'
      BY <2>1, <3>1 DEF Place, InConnect, AllRead
    <3> QED BY <2>1, <3>1, <3>2, Enters
  <2>3. CASE res[u] # "err"
    <3>1. pc'[u] = "sr_lock" /\ OpenFrom(stack'[u])
      BY <1>1, <2>1, <2>3, Pushes DEF Place, InConnect
    <3>2. InExchange(u)'
      BY <2>1, <3>1 DEF Place, InConnect, InExchange, AllRead, Opening
    <3> QED BY <2>1, <3>1, <3>2, Enters
  <2> QED BY <2>2, <2>3
<1>5. CASE LargeOpened(u)
  <2>1. /\ pc[u] = "co_large" /\ UNCHANGED <<connStatus, conn, open, pend, res, got, crash>>
        /\ \/ res[u] = "ok" /\ Goto(u, "co_ok")
           \/ Call(u, "sr_lock", "co_std")
    BY <1>5 DEF LargeOpened
  <2>2. CASE res[u] = "ok" /\ Goto(u, "co_ok")
    <3>1. pc'[u] = "co_ok" /\ stack'[u] = stack[u]
      BY <1>1, <2>1, <2>2, Jumps
    <3>2. InConnect(u)'
      BY <2>1, <2>2, <3>1 DEF Place, InConnect, AllRead, Opening
    <3> QED BY <2>1, <3>1, <3>2, Enters
  <2>3. CASE Call(u, "sr_lock", "co_std")
    <3>1. pc'[u] = "sr_lock" /\ OpenFrom(stack'[u])
      BY <1>1, <2>1, <2>3, Pushes DEF Place, InConnect
    <3>2. InExchange(u)'
      BY <2>1, <3>1 DEF Place, InConnect, InExchange, AllRead, Opening
    <3> QED BY <2>1, <3>1, <3>2, Enters
  <2> QED BY <2>1, <2>2, <2>3
<1>6. CASE StandardOpened(u)
  <2>1. /\ pc[u] = "co_std" /\ UNCHANGED <<connStatus, conn, open, pend, res, got, crash>>
        /\ pc'[u] = (IF res[u] = "ok" THEN "co_ok" ELSE "co_fail") /\ stack'[u] = stack[u]
    BY <1>1, <1>6, Jumps DEF StandardOpened
  <2>2. InConnect(u)'
    BY <2>1 DEF Place, InConnect, AllRead, Opening
  <2> QED BY <2>1, <2>2, Enters
<1>7. CASE StartKeepAlive(u)
  <2>1. /\ pc[u] = "co_ok" /\ UNCHANGED <<connStatus, conn, open, pend, crash, stack>>
        /\ pc'[u] = "co_done"
    BY <1>1, <1>7 DEF StartKeepAlive, Goto, ControlOK
  <2>2. InConnect(u)'
    BY <2>1 DEF Place, InConnect, AllRead
  <2> QED BY <2>1, <2>2, Enters
<1>8. CASE ConnectDone(u)
  <2>1. /\ pc[u] \in {"co_done", "co_fail"} /\ UNCHANGED <<conn, open, pend, crash>>
        /\ connStatus' = IF pc[u] = "co_done" THEN "Connected" ELSE "Disconnected"
        /\ res'[u] = IF pc[u] = "co_done" THEN "ok" ELSE "err"
    BY <1>8 DEF ConnectDone, Result, TypeInv, TypeOK
  <2>2. pc'[u] \in {"idle", "op_checked"} /\ Len(stack'[u]) = 0
    BY <1>1, <1>8, <2>1, Pops DEF ConnectDone, Place, InConnect
  <2>3. AtRest(u)'
    BY <2>1, <2>2 DEF Place, InConnect, AtRest, AllRead, Settled
  <2> QED BY <2>1, <2>2, <2>3, Enters
<1> QED BY <1>2, <1>3, <1>4, <1>5, <1>6, <1>7, <1>8 DEF Connect

LEMMA PlaceDisconnect ==
  ASSUME TypeInv, NEW u \in G, Place(u), Disconnect(u), crash = "none", ~keepAliveRunning
  PROVE  Place(u)' /\ crash' # "nil_conn"
<1> USE DEF sock
<1>1. ControlOK
  BY TypeInvParts
<1>2. CASE Snapshot(u)
  <2>1. /\ pc[u] = "dc_snap" /\ pc'[u] = "dc_start" /\ stack'[u] = stack[u]
        /\ UNCHANGED <<connStatus, conn, open, pend, res, crash>>
    BY <1>1, <1>2, Jumps DEF Snapshot
  <2>2. BeforeDisconnect(u)'
    BY <2>1 DEF Place, BeforeDisconnect, AllRead, OthersRead, Opening, Settled
  <2> QED BY <2>1, <2>2, Enters
<1>3. CASE StartDisconnect(u)
  <2>1. /\ pc[u] = "dc_start" /\ UNCHANGED <<conn, open, pend, res, crash>>
        /\ connStatus \in Status
        /\ conn \in open => conn \in Sockets
    BY <1>3 DEF StartDisconnect, TypeInv, TypeOK
  <2>2. CASE connStatus \in {"Connecting", "Connected"}
    <3>1. pc'[u] = "dc_keepalive" /\ stack'[u] = stack[u] /\ connStatus' = "Disconnecting"
      BY <1>1, <1>3, <2>2, Jumps DEF StartDisconnect
    <3>2. InDisconnect(u)'
      <4>1. OthersRead'
        BY <2>1, <2>2 DEF Place, BeforeDisconnect, AllRead, OthersRead
      <4>2. /\ OperationFrom(stack[u]) \/ OpenFrom(stack[u]) \/ CalledFrom(stack[u])
            /\ ~CalledFrom(stack[u]) => res[u] = "err"
            /\ conn \in open
        BY <2>1, <2>2 DEF Place, BeforeDisconnect, Opening, Settled
      <4> QED BY <2>1, <3>1, <4>1, <4>2 DEF InDisconnect
    <3> QED BY <2>1, <3>1, <3>2, Enters
  <2>3. CASE connStatus \notin {"Connecting", "Connected"}
    <3>1. Return(u) /\ UNCHANGED connStatus
      BY <1>3, <2>3 DEF StartDisconnect
    <3>2. CASE CalledFrom(stack[u])
      <4>1. pc'[u] = "idle" /\ Len(stack'[u]) = 0
        BY <1>1, <2>1, <3>1, <3>2, Pops
      <4>2. AtRest(u)'
        BY <2>1, <2>3, <3>1, <3>2, <4>1 DEF Place, BeforeDisconnect, AtRest, AllRead, Settled
      <4> QED BY <2>1, <4>1, <4>2, Enters
    <3>3. CASE OpenFrom(stack[u])
      <4>1. pc'[u] \in OpenReturns /\ ConnectFrom(stack'[u])
        BY <1>1, <2>1, <3>1, <3>3, Pops
      <4>2. InConnect(u)'
        BY <2>1, <2>3, <3>1, <3>3, <4>1
           DEF Place, BeforeDisconnect, InConnect, AllRead, Opening, OwnReply
      <4> QED BY <2>1, <4>1, <4>2, Enters
    <3>4. CASE CloseCalledFrom(stack[u]) \/ CloseFailedFrom(stack[u])
      <4>1. /\ pc'[u] = "dc_close"
            /\ CloseCalledFrom(stack[u]) => CalledFrom(stack'[u])
            /\ CloseFailedFrom(stack[u]) => OperationFrom(stack'[u]) \/ OpenFrom(stack'[u])
        BY <1>1, <2>1, <3>1, <3>4, Pops
      <4>2. InDisconnect(u)'
        BY <2>1, <2>3, <3>1, <3>4, <4>1
           DEF Place, BeforeDisconnect, InDisconnect, OthersRead
      <4> QED BY <2>1, <4>1, <4>2, Enters
    <3> QED BY <2>1, <2>3, <3>2, <3>3, <3>4 DEF Place, BeforeDisconnect
  <2> QED BY <2>2, <2>3
<1>4. CASE StopKeepAlive(u)
  <2>1. /\ pc[u] = "dc_keepalive" /\ UNCHANGED <<connStatus, conn, open, pend, res, crash>>
        /\ Goto(u, "dc_close") \/ Call(u, "sr_lock", "dc_close")
    BY <1>4 DEF StopKeepAlive
  <2>2. CASE Goto(u, "dc_close")
    <3>1. pc'[u] = "dc_close" /\ stack'[u] = stack[u]
      BY <1>1, <2>2, Jumps
    <3>2. InDisconnect(u)'
      BY <2>1, <3>1 DEF Place, InDisconnect, OthersRead
    <3> QED BY <2>1, <3>1, <3>2, Enters
  <2>3. CASE Call(u, "sr_lock", "dc_close")
    <3>1. /\ pc'[u] = "sr_lock"
          /\ CalledFrom(stack[u]) => CloseCalledFrom(stack'[u])
          /\ OperationFrom(stack[u]) \/ OpenFrom(stack[u]) => CloseFailedFrom(stack'[u])
      BY <1>1, <2>3, Pushes
    <3>2. InExchange(u)'
      BY <2>1, <3>1 DEF Place, InDisconnect, InExchange, OthersRead
    <3> QED BY <2>1, <3>1, <3>2, Enters
  <2> QED BY <2>1, <2>2, <2>3
<1>5. CASE CloseConn(u)
  <2>1. /\ pc[u] = "dc_close" /\ pc'[u] = "dc_done" /\ stack'[u] = stack[u]
        /\ UNCHANGED <<connStatus, conn, res, crash>>
        /\ open' = open \ {conn}
        /\ \A s \in Sockets : pend'[s] = IF s = conn THEN <<>> ELSE pend[s]
    BY <1>1, <1>5, Jumps DEF CloseConn
  <2>2. InDisconnect(u)'
    BY <2>1 DEF Place, InDisconnect, OthersRead, AllRead
  <2> QED BY <2>1, <2>2, Enters
<1>6. CASE DisconnectDone(u)
  <2>1. /\ pc[u] = "dc_done" /\ Return(u) /\ connStatus' = "Disconnected"
        /\ UNCHANGED <<conn, open, pend, res, got, crash>>
    BY <1>6 DEF DisconnectDone
  <2>2. CASE OpenFrom(stack[u])
    <3>1. pc'[u] \in OpenReturns /\ ConnectFrom(stack'[u])
      BY <1>1, <2>1, <2>2, Pops
    <3>2. InConnect(u)'
      BY <2>1, <2>2, <3>1 DEF Place, InDisconnect, InConnect, AllRead, Opening, OwnReply
    <3> QED BY <2>1, <3>1, <3>2, Enters
  <2>3. CASE OperationFrom(stack[u]) \/ CalledFrom(stack[u])
    <3>1. /\ pc'[u] \in {"idle", "op_done"} /\ Len(stack'[u]) = 0
          /\ pc'[u] = "op_done" => OperationFrom(stack[u])
      BY <1>1, <2>1, <2>3, Pops
    <3>2. AtRest(u)'
      BY <2>1, <2>3, <3>1 DEF Place, InDisconnect, AtRest, AllRead, Settled, OwnReply
    <3> QED BY <2>1, <3>1, <3>2, Enters
  <2> QED BY <2>1, <2>2, <2>3 DEF Place, InDisconnect
<1> QED BY <1>2, <1>3, <1>4, <1>5, <1>6 DEF Disconnect

LEMMA PlaceOperation ==
  ASSUME TypeInv, NEW u \in G, Place(u), crash = "none", cancel = 0,
         OperationChecked(u) \/ OperationDone(u) \/ Application(u)
  PROVE  Place(u)' /\ crash' # "nil_conn"
<1> USE DEF sock
<1>1. ControlOK /\ res[u] \in {"ok", "err"}
  BY TypeInvParts DEF DataOK
<1>2. CASE OperationChecked(u)
  <2>1. /\ pc[u] = "op_checked" /\ UNCHANGED <<connStatus, conn, open, pend, res, got, crash>>
        /\ IF res[u] = "ok" THEN Call(u, "sr_lock", "op_done") ELSE Goto(u, "op_done")
    BY <1>2 DEF OperationChecked
  <2>2. CASE res[u] = "ok"
    <3>1. pc'[u] = "sr_lock" /\ OperationFrom(stack'[u])
      BY <1>1, <2>1, <2>2, Pushes DEF Place, AtRest
    <3>2. InExchange(u)'
      BY <2>1, <2>2, <3>1 DEF Place, AtRest, InExchange, AllRead, Settled
    <3> QED BY <2>1, <3>1, <3>2, Enters
  <2>3. CASE res[u] # "ok"
    <3>1. pc'[u] = "op_done" /\ stack'[u] = stack[u]
      BY <1>1, <2>1, <2>3, Jumps
    <3>2. AtRest(u)'
      BY <1>1, <2>1, <2>3, <3>1 DEF Place, AtRest, AllRead, Settled, OwnReply
    <3> QED BY <2>1, <3>1, <3>2, Enters
  <2> QED BY <2>2, <2>3
<1>3. CASE OperationDone(u)
  <2>1. /\ pc[u] = "op_done" /\ UNCHANGED <<connStatus, conn, open, pend, crash>>
        /\ pc'[u] = "idle" /\ stack'[u] = stack[u]
    BY <1>1, <1>3, Jumps DEF OperationDone
  <2>2. AtRest(u)'
    BY <2>1 DEF Place, AtRest, AllRead, Settled
  <2> QED BY <2>1, <2>2, Enters
<1>4. CASE Operation(u)
  <2>1. /\ pc[u] = "idle" /\ UNCHANGED <<connStatus, conn, open, pend, crash>>
        /\ \/ connStatus = "Connected" /\ Call(u, "sr_lock", "op_done")
           \/ Call(u, "co_start", "op_checked")
    BY <1>4 DEF Operation
  <2>2. CASE connStatus = "Connected" /\ Call(u, "sr_lock", "op_done")
    <3>1. pc'[u] = "sr_lock" /\ OperationFrom(stack'[u])
      BY <1>1, <2>1, <2>2, Pushes DEF Place, AtRest
    <3>2. InExchange(u)'
      BY <2>1, <2>2, <3>1 DEF Place, AtRest, InExchange, AllRead, Settled
    <3> QED BY <2>1, <3>1, <3>2, Enters
  <2>3. CASE Call(u, "co_start", "op_checked")
    <3>1. pc'[u] = "co_start" /\ ConnectFrom(stack'[u])
      BY <1>1, <2>1, <2>3, Pushes DEF Place, AtRest
    <3>2. InConnect(u)'
      BY <2>1, <2>3, <3>1 DEF Place, AtRest, InConnect, AllRead, Settled
    <3> QED BY <2>1, <3>1, <3>2, Enters
  <2> QED BY <2>1, <2>2, <2>3
<1>5. CASE CallConnect(u)
  <2>1. /\ pc[u] = "idle" /\ UNCHANGED <<connStatus, conn, open, pend, crash>>
        /\ Call(u, "co_start", "idle")
    BY <1>5 DEF CallConnect
  <2>2. pc'[u] = "co_start" /\ ConnectFrom(stack'[u])
    BY <1>1, <2>1, Pushes DEF Place, AtRest
  <2>3. InConnect(u)'
    BY <2>1, <2>2 DEF Place, AtRest, InConnect, AllRead, Settled
  <2> QED BY <2>1, <2>2, <2>3, Enters
<1>6. CASE CallDisconnect(u)
  <2>1. /\ pc[u] = "idle" /\ UNCHANGED <<connStatus, conn, open, pend, crash>>
        /\ Call(u, "dc_snap", "idle")
    BY <1>6 DEF CallDisconnect
  <2>2. pc'[u] = "dc_snap" /\ CalledFrom(stack'[u])
    BY <1>1, <2>1, Pushes DEF Place, AtRest
  <2>3. BeforeDisconnect(u)'
    BY <2>1, <2>2 DEF Place, AtRest, BeforeDisconnect, AllRead, Settled
  <2> QED BY <2>1, <2>2, <2>3, Enters
<1>7. CASE KeepAliveCancel(u)
  <2>1. /\ pc[u] = "idle" /\ UNCHANGED <<connStatus, conn, open, pend, pc, stack>>
        /\ crash' = "nil_channel" \/ crash' = "closed_channel"
    BY <1>7 DEF KeepAliveCancel, CloseCancel, CloseCancelPanics, Panic, ctl
  <2>2. AtRest(u)'
    BY <2>1 DEF Place, AtRest, AllRead, Settled
  <2> QED BY <2>1, <2>2, Enters
<1> QED BY <1>2, <1>3, <1>4, <1>5, <1>6, <1>7 DEF Application

-----------------------------------------------------------------------------
(* The steps of the others, and the theorems.                               *)

(* The controller answers less than it was asked.                           *)
LEMMA PlaceSilent ==
  ASSUME TypeInv, NEW u \in G, Place(u), NEW s \in Sockets, ControllerSilent(s)
  PROVE  Place(u)'
<1>1. /\ UNCHANGED <<connStatus, conn, open, pc, stack, res, got>>
      /\ pend \in [Sockets -> Seq(G \cup {Stale})] /\ pend[s] # <<>>
      /\ pend' = [pend EXCEPT ![s] = Tail(pend[s])]
  BY DEF ControllerSilent, ctl, TypeInv, TypeOK
<1>2. ~AllRead
  BY <1>1 DEF AllRead
<1>3. OthersRead => OthersRead' /\ s = conn
  BY <1>1 DEF OthersRead
<1>4. s = conn /\ Len(pend[conn]) <= 1 => Len(pend'[conn]) = 0
  <2> SUFFICES ASSUME s = conn, Len(pend[s]) <= 1 PROVE Len(pend'[s]) = 0
    OBVIOUS
  <2>1. Tail(pend[s]) = <<>>
    BY <1>1, Single
  <2> QED BY <1>1, <2>1
<1>5. AtRest(u)' /\ InConnect(u)'
  BY <1>1, <1>2 DEF Place, AtRest, InConnect
<1>6. InExchange(u)'
  <2>1. CASE CloseCalledFrom(stack[u]) \/ CloseFailedFrom(stack[u])
    BY <1>1, <1>2, <1>3, <2>1 DEF Place, InExchange
  <2>2. CASE ~(CloseCalledFrom(stack[u]) \/ CloseFailedFrom(stack[u]))
    <3> SUFFICES ASSUME pc[u] \in {"sr_lock", "sr_send", "sr_recv"} PROVE InExchange(u)'
      BY <1>1 DEF InExchange
    <3>1. /\ OperationFrom(stack[u]) \/ OpenFrom(stack[u])
          /\ OperationFrom(stack[u]) => connStatus = "Connected"
          /\ OpenFrom(stack[u]) => Opening
          /\ pc[u] = "sr_recv" /\ OthersRead /\ conn \in open /\ Len(pend[conn]) <= 1
      BY <1>2, <2>2 DEF Place, InExchange
    <3>2. OthersRead' /\ Len(pend'[conn']) = 0 /\ (Opening => Opening')
      BY <1>1, <1>3, <1>4, <3>1 DEF Opening
    <3>3. Len(pend'[conn']) <= 1 /\ Len(pend'[conn']) # 1
      BY ONLY <3>2
    <3>4. UNCHANGED <<pc, stack, conn, open, connStatus>>
      BY <1>1
    <3> QED BY ONLY <3>1, <3>2, <3>3, <3>4 DEF InExchange
  <2> QED BY <2>1, <2>2
<1>7. BeforeDisconnect(u)'
  BY <1>1, <1>2, <1>3 DEF Place, BeforeDisconnect, Opening
<1>8. InDisconnect(u)'
  BY <1>1, <1>2, <1>3 DEF Place, InDisconnect
<1> QED BY <1>5, <1>6, <1>7, <1>8 DEF Place

(* One goroutine of the application.                                        *)
Alone == \E u : Users = {u}

(* A KeepAlive goroutine that begins ends the client's being used alone.    *)
LEMMA UnbegunStep ==
  ASSUME KeepAliveInv, NEW k \in Keepers, Unbegun(k), Step(k), UsedAlone'
  PROVE  /\ UNCHANGED <<connStatus, conn, open, pend, stack, res, got, cancel, crash>>
         /\ pc' = [pc EXCEPT ![k] = "idle"]
<1>1. KeepAliveBegins(k)
  BY DEF Unbegun, Step, Exchange, Lock, Send, SendFails, Receive, ReceiveFails, NilConn,
         Connect, StartConnect, Dial, Registered, LargeOpened, StandardOpened, StartKeepAlive,
         ConnectDone, Disconnect, Snapshot, StartDisconnect, StopKeepAlive, CloseConn,
         DisconnectDone, OperationChecked, OperationDone, KeepAlive, KeepAlivePolled, Tick,
         Cancelled, KeepAliveExits
<1>2. cancel' # cancel + 1
  BY DEF KeepAliveInv, TypeInv, TypeOK, UsedAlone
<1> QED BY <1>1, <1>2 DEF KeepAliveBegins, Goto, sock

(* A step of a goroutine of the application starts at most a KeepAlive.     *)
LEMMA OthersUnbegun ==
  ASSUME ControlOK, NEW u \in Users, Step(u) \/ Application(u), NEW k \in Keepers, Unbegun(k),
         ~KeepAlive(u)
  PROVE  Unbegun(k)'
<1>1. k \in G \ {u} /\ u \in G
  BY ClientAssumption DEF G
<1>2. ASSUME UNCHANGED pc PROVE Unbegun(k)'
  BY <1>2 DEF Unbegun
<1>3. ASSUME NEW l, Goto(u, l) PROVE Unbegun(k)'
  BY <1>1, <1>3, Jumps DEF Unbegun
<1>4. ASSUME NEW l, NEW ret \in Labels, Call(u, l, ret) PROVE Unbegun(k)'
  BY <1>1, <1>4 DEF Unbegun, Call, ControlOK
<1>5. ASSUME Return(u) PROVE Unbegun(k)'
  BY <1>1, <1>5 DEF Unbegun, Return, ControlOK
<1>6. CASE Exchange(u)
  BY <1>2, <1>3, <1>5, <1>6
     DEF Exchange, Lock, Send, SendFails, Receive, ReceiveFails, NilConn, Panic, ctl
<1>7. CASE Connect(u)
  <2>1. CASE StartKeepAlive(u)
    BY <1>1, <1>3, <2>1 DEF StartKeepAlive, Unbegun, ControlOK
  <2>2. CASE ~StartKeepAlive(u)
    BY <1>3, <1>4, <1>5, <1>7, <2>2
       DEF Connect, StartConnect, Dial, Registered, LargeOpened, StandardOpened, ConnectDone
  <2> QED BY <2>1, <2>2
<1>8. CASE Disconnect(u)
  BY <1>2, <1>3, <1>4, <1>5, <1>8
     DEF Disconnect, Snapshot, StartDisconnect, StopKeepAlive, CloseConn, DisconnectDone,
         CloseCancelPanics, Panic, ctl
<1>9. CASE OperationChecked(u) \/ OperationDone(u)
  BY <1>3, <1>4, <1>9 DEF OperationChecked, OperationDone
<1>10. CASE Application(u)
  BY <1>2, <1>3, <1>4, <1>10
     DEF Application, Operation, CallConnect, CallDisconnect, KeepAliveCancel,
         CloseCancelPanics, Panic, ctl
<1> QED BY <1>6, <1>7, <1>8, <1>9, <1>10 DEF Step

LEMMA AloneInvNext ==
  ASSUME Alone, KeepAliveInv, AloneInv, [Next]_vars
  PROVE  AloneInv'
<1>1. SUFFICES ASSUME UsedAlone' PROVE AloneInv'
  BY DEF AloneInv
<1>2. TypeInv /\ ControlOK
  BY TypeInvParts DEF KeepAliveInv
<1>3. UsedAlone
  <2>1. cancel' = cancel \/ cancel' = cancel + 1
    BY DEF Next, Step, Application, vars, ka,
       Exchange, Lock, Send, SendFails, Receive, ReceiveFails, NilConn, Panic,
       Connect, StartConnect, Dial, Registered, LargeOpened, StandardOpened, StartKeepAlive,
       ConnectDone, Disconnect, Snapshot, StartDisconnect, StopKeepAlive, CloseConn,
       DisconnectDone, CloseCancelPanics, OperationChecked, OperationDone,
       Operation, CallConnect, CallDisconnect, KeepAliveCancel, KeepAlive, KeepAliveBegins,
       KeepAlivePolled, Tick, Cancelled, KeepAliveExits, ControllerSilent
  <2> QED BY <1>1, <1>2, <2>1 DEF UsedAlone, TypeInv, TypeOK
<1>4. /\ crash # "nil_conn" /\ ~keepAliveRunning /\ cancel = 0
      /\ \A k \in Keepers : Unbegun(k)
      /\ \A u \in Users : Place(u)
  BY <1>3 DEF AloneInv, UsedAlone, KeepAliveInv, KeepAliveOwned
<1>5. SUFFICES /\ crash' # "nil_conn"
               /\ \A k \in Keepers : Unbegun(k)'
               /\ \A u \in Users : Place(u)'
  BY DEF AloneInv
<1>6. ASSUME NEW u \in Users, crash = "none", Step(u) \/ Application(u)
      PROVE  /\ crash' # "nil_conn"
             /\ \A k \in Keepers : Unbegun(k)'
             /\ \A v \in Users : Place(v)'
  <2>1. u \in G /\ Place(u) /\ u \notin Keepers
    BY <1>4, ClientAssumption DEF G
  <2>2. pc[u] \notin KeepAliveLabels
    BY <2>1 DEF KeepAliveInv, KeepersOnly, Within
  <2>3. ~KeepAlive(u)
    BY <2>2 DEF KeepAliveLabels, KeepAlive, KeepAliveBegins, KeepAlivePolled, Tick, Cancelled,
                KeepAliveExits
  <2>4. Place(u)' /\ crash' # "nil_conn"
    BY <1>2, <1>4, <1>6, <2>1, <2>3, PlaceExchange, PlaceConnect, PlaceDisconnect, PlaceOperation
       DEF Step
  <2>5. \A k \in Keepers : Unbegun(k)'
    BY <1>2, <1>4, <1>6, <2>3, OthersUnbegun
  <2> QED BY <2>4, <2>5 DEF Alone
<1>7. ASSUME NEW k \in Keepers, crash = "none", Step(k)
      PROVE  /\ crash' # "nil_conn"
             /\ \A j \in Keepers : Unbegun(j)'
             /\ \A u \in Users : Place(u)'
  <2>1. /\ UNCHANGED <<connStatus, conn, open, pend, stack, res, got, cancel, crash>>
        /\ pc' = [pc EXCEPT ![k] = "idle"]
    BY <1>1, <1>4, <1>7, UnbegunStep
  <2>2. \A j \in Keepers : Unbegun(j)'
    BY <1>2, <1>4, <2>1 DEF Unbegun, ControlOK, G
  <2>3. ASSUME NEW u \in Users PROVE Place(u)'
    <3>1. pc'[u] = pc[u]
      BY <1>2, <2>1, ClientAssumption DEF ControlOK, G
    <3> QED BY <1>4, <2>1, <3>1 DEF Place, AtRest, InConnect, InExchange, BeforeDisconnect,
              InDisconnect, Opening, Settled, OwnReply, AllRead, OthersRead
  <2> QED BY <1>7, <2>1, <2>2, <2>3
<1>8. ASSUME NEW s \in Sockets, ControllerSilent(s)
      PROVE  /\ crash' # "nil_conn"
             /\ \A k \in Keepers : Unbegun(k)'
             /\ \A u \in Users : Place(u)'
  BY <1>2, <1>4, <1>8, PlaceSilent DEF ControllerSilent, Unbegun, ctl, G
<1>9. CASE UNCHANGED vars
  BY <1>4, <1>9 DEF vars, Unbegun, Place, AtRest, InConnect, InExchange, BeforeDisconnect,
                    InDisconnect, Opening, Settled, OwnReply, AllRead, OthersRead
<1> QED BY <1>6, <1>7, <1>8, <1>9 DEF Next, G

LEMMA AloneInvInit == Init => AloneInv
<1> SUFFICES ASSUME Init, NEW u \in Users PROVE Place(u)
  BY DEF Init, AloneInv, Unbegun, G
<1>1. /\ pc[u] = "idle" /\ Len(stack[u]) = 0 /\ AllRead /\ connStatus = "Disconnected"
  BY DEF Init, G, AllRead
<1> QED BY <1>1 DEF Place, AtRest, InConnect, InExchange, BeforeDisconnect, InDisconnect, Settled

LEMMA AloneAlways == ASSUME Alone PROVE Spec => [](KeepAliveInv /\ AloneInv)
<1>1. Init => KeepAliveInv /\ AloneInv
  BY TypeInvInit, AloneInvInit DEF Init, KeepAliveInv, KeepersOnly, KeepAliveOwned, Within,
     KeepAliveLabels
<1>2. KeepAliveInv /\ AloneInv /\ [Next]_vars => KeepAliveInv' /\ AloneInv'
  BY KeepAliveInvNext, AloneInvNext
<1> QED BY <1>1, <1>2, PTL DEF Spec

(* A goroutine that has the client to itself never uses a nil connection,   *)
(* whatever failed before, and when it rests the status Connected means     *)
(* that the socket is open: for every number of sockets and of calls.       *)
THEOREM ConnectedMeansSocket == ASSUME Alone PROVE Spec => []ConnectedHasSocket
<1>1. ASSUME AloneInv PROVE ConnectedHasSocket
  <2>1. SUFFICES ASSUME UsedAlone, \A u \in Users : pc[u] = "idle", connStatus = "Connected"
                 PROVE  conn \in open
    BY <1>1 DEF AloneInv, ConnectedHasSocket
  <2>2. PICK u : u \in Users
    BY DEF Alone
  <2> QED BY <1>1, <2>1, <2>2 DEF AloneInv, Place, AtRest, Settled
<1> QED BY <1>1, AloneAlways, PTL

(* The reply on which an operation, a session registration or a forward     *)
(* open of such a goroutine succeeds is the reply to its own request: the   *)
(* replies of exchanges that were given up are never mistaken for it.       *)
THEOREM RepliesAreOwn == ASSUME Alone PROVE Spec => []CallersGetOwnReply
<1>1. AloneInv => CallersGetOwnReply
  BY DEF AloneInv, CallersGetOwnReply, Place, AtRest, InConnect, OwnReply
<1> QED BY <1>1, AloneAlways, PTL

=============================================================================
