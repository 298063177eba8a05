------------------------------- MODULE Client -------------------------------
(***************************************************************************)
(* The connection life cycle of a gologix Client shared by several         *)
(* goroutines: Connect, Disconnect, checkConnection, the request/response  *)
(* exchange send_recv_data, and the KeepAlive goroutine.                   *)
(*                                                                         *)
(* One step is one critical section of client.mutex, one socket operation  *)
(* or one access to an unprotected field; everything between two of them   *)
(* is local to a goroutine.  A goroutine has a program counter and a stack *)
(* of the program counters its callers resume at, because a failed         *)
(* exchange calls Disconnect, which performs an exchange of its own.       *)
(*                                                                         *)
(* Payloads are abstracted away: a request is the goroutine that waits for *)
(* its reply, and it becomes Stale once that goroutine stopped waiting.    *)
(***************************************************************************)
EXTENDS Naturals, Sequences, FiniteSets

CONSTANTS
  Users,              \* goroutines of the application
  Keepers,            \* identities for KeepAlive goroutines
  Sockets,            \* TCP sockets that may exist at the same time
  Calls,              \* the API calls the application makes
  MaxCalls,           \* bound: API calls per application goroutine
  MaxTicks,           \* bound: keepalive ticks, over all KeepAlive goroutines
  MaxPend,            \* bound: unread requests a socket's buffers hold
  AutoConnect,        \* Client.AutoConnect
  LargeConn,          \* does Client.ConnectionSize ask for a large forward open?
  KeepAliveConfigured,\* Client.KeepAliveAutoStart as the application set it
  Free, None, Stale   \* model values: mutex not held, nil conn, abandoned request

G == Users \cup Keepers

APICalls == {"op", "connect", "disconnect", "kacancel"}

ASSUME ClientAssumption ==
  /\ Users \cap Keepers = {}
  /\ Calls \subseteq APICalls
  /\ MaxCalls \in Nat /\ MaxTicks \in Nat /\ MaxPend \in Nat
  /\ AutoConnect \in BOOLEAN /\ LargeConn \in BOOLEAN
  /\ KeepAliveConfigured \in BOOLEAN
  /\ Free \notin G /\ Stale \notin G /\ None \notin Sockets

VARIABLES
  connStatus,          \* Client.connStatus
  mutex,               \* holder of Client.mutex
  conn,                \* Client.conn: the current socket, or nil
  large,               \* ConnectionSize > connSizeStandardMax
  open,                \* sockets this process has open
  pend,                \* pend[s]: requests sent on s whose reply is not yet read
  pc, stack,           \* control state of each goroutine
  snap,                \* Disconnect's local copy of the status
  res,                 \* error result of the goroutine's last call
  got,                 \* whose reply the goroutine's last exchange returned
  KeepAliveAutoStart,  \* Client.KeepAliveAutoStart
  keepAliveRunning,    \* Client.keepAliveRunning
  cancel,              \* Client.cancel_keepalive: channel number, 0 is nil
  closed,              \* channels that were closed
  waitsOn,             \* channel a KeepAlive goroutine's select waits on
  calls, ticks,        \* remaining budget
  crash                \* why the process died, if it did

ctl   == <<pc, stack, res>>
sock  == <<conn, open, pend>>
ka    == <<KeepAliveAutoStart, keepAliveRunning, cancel, closed, waitsOn>>
vars  == <<connStatus, mutex, conn, large, open, pend, pc, stack, snap, res, got,
           KeepAliveAutoStart, keepAliveRunning, cancel, closed, waitsOn,
           calls, ticks, crash>>

Status == {"Disconnected", "Connecting", "Connected", "Disconnecting"}

(* Program counters inside Connect and Disconnect, from the critical        *)
(* section that wins the transition to the deferred status write; inside    *)
(* KeepAlive, while keepAliveRunning should be set; and with the mutex held.*)
ConnectBody    == {"co_dial", "co_registered", "co_large", "co_std", "co_ok",
                   "co_done", "co_fail"}
DisconnectBody == {"dc_keepalive", "dc_close", "dc_done"}
KeepAliveBody  == {"ka_first", "ka_select", "ka_polled", "ka_exit"}
ExchangeBody   == {"sr_send", "sr_recv"}

Labels == ConnectBody \cup DisconnectBody \cup KeepAliveBody \cup ExchangeBody \cup
          {"idle", "op_checked", "op_done", "co_start", "sr_lock", "dc_snap",
           "dc_start", "ka_begin"}

Crashes == {"none", "nil_conn", "closed_channel", "nil_channel"}

Init ==
  /\ connStatus = "Disconnected"
  /\ mutex = Free
  /\ conn = None
  /\ large = LargeConn
  /\ open = {}
  /\ pend = [s \in Sockets |-> <<>>]
  /\ pc = [g \in G |-> "idle"]
  /\ stack = [g \in G |-> <<>>]
  /\ snap = [g \in G |-> "Disconnected"]
  /\ res = [g \in G |-> "ok"]
  /\ got = [g \in G |-> "none"]
  /\ KeepAliveAutoStart = KeepAliveConfigured
  /\ keepAliveRunning = FALSE
  /\ cancel = 0
  /\ closed = {}
  /\ waitsOn = [g \in G |-> 0]
  /\ calls = [g \in Users |-> MaxCalls]
  /\ ticks = MaxTicks
  /\ crash = "none"

-----------------------------------------------------------------------------
(* Control transfer.                                                        *)

Top(g) == stack[g][Len(stack[g])]

Goto(g, l) == pc' = [pc EXCEPT ![g] = l] /\ UNCHANGED stack

Call(g, l, ret) ==
  /\ pc' = [pc EXCEPT ![g] = l]
  /\ stack' = [stack EXCEPT ![g] = Append(@, ret)]

Return(g) ==
  /\ pc' = [pc EXCEPT ![g] = Top(g)]
  /\ stack' = [stack EXCEPT ![g] = SubSeq(@, 1, Len(@) - 1)]

Result(g, r) == res' = [res EXCEPT ![g] = r]

(* A panic in any goroutine ends the whole process. *)
Panic(why) ==
  /\ crash' = why
  /\ UNCHANGED <<connStatus, mutex, sock, large, ctl, snap, got, ka, calls, ticks>>

-----------------------------------------------------------------------------
(* send_recv_data: lock, send, receive, unlock.  The caller has pushed the  *)
(* label it resumes at, which also tells what the exchange is for.          *)

Abandon(q, g) == [i \in DOMAIN q |-> IF q[i] = g THEN Stale ELSE q[i]]

(* Mutant: the lock is taken without waiting for the mutex. *)
LockUnguarded(g) ==
  /\ pc[g] = "sr_lock"
  /\ mutex' = g
  /\ got' = [got EXCEPT ![g] = "none"]
  /\ Goto(g, "sr_send")
  /\ UNCHANGED <<connStatus, sock, large, snap, res, ka, calls, ticks, crash>>

Lock(g) ==
  /\ pc[g] = "sr_lock"
  /\ mutex = Free
  /\ mutex' = g
  /\ got' = [got EXCEPT ![g] = "none"]
  /\ Goto(g, "sr_send")
  /\ UNCHANGED <<connStatus, sock, large, snap, res, ka, calls, ticks, crash>>

(* Mutant: the mutex protects the write only, not the read that follows. *)
SendUnlocking(g) ==
  /\ pc[g] = "sr_send"
  /\ conn \in open
  /\ Len(pend[conn]) < MaxPend
  /\ pend' = [pend EXCEPT ![conn] = Append(@, g)]
  /\ mutex' = Free
  /\ Goto(g, "sr_recv")
  /\ UNCHANGED <<connStatus, conn, open, large, snap, res, got, ka, calls, ticks, crash>>

Send(g) ==
  /\ pc[g] = "sr_send"
  /\ conn \in open
  /\ Len(pend[conn]) < MaxPend
  /\ pend' = [pend EXCEPT ![conn] = Append(@, g)]
  /\ Goto(g, "sr_recv")
  /\ UNCHANGED <<connStatus, mutex, conn, open, large, snap, res, got, ka, calls, ticks, crash>>

(* Mutant: the error path does not unlock. *)
SendFailsLocked(g) ==
  /\ pc[g] = "sr_send"
  /\ conn # None
  /\ Result(g, "err")
  /\ Goto(g, "dc_snap")
  /\ UNCHANGED <<connStatus, mutex, sock, large, snap, got, ka, calls, ticks, crash>>

(* The write fails or reaches its deadline: unlock, then Disconnect.        *)
SendFails(g) ==
  /\ pc[g] = "sr_send"
  /\ conn # None
  /\ mutex' = Free
  /\ Result(g, "err")
  /\ Goto(g, "dc_snap")
  /\ UNCHANGED <<connStatus, sock, large, snap, got, ka, calls, ticks, crash>>

(* What a caller makes of a reply: it may refuse a forward open or report   *)
(* an attribute error; registerSession looks at nothing but the header, and *)
(* Disconnect only logs what became of its ForwardClose, so that the failed *)
(* exchange that called it stays failed.                                    *)
Parsed(g) ==
  CASE Top(g) = "co_registered" -> {"ok"}
    [] Top(g) = "dc_close" -> {res[g]}
    [] OTHER -> {"ok", "err"}

(* recvData returns the oldest reply of the current socket; nothing relates *)
(* it to the request just sent.                                             *)
Receive(g) ==
  /\ pc[g] = "sr_recv"
  /\ conn \in open
  /\ pend[conn] # <<>>
  /\ got' = [got EXCEPT ![g] = IF Head(pend[conn]) = g THEN "own" ELSE "other"]
  /\ pend' = [s \in Sockets |->
                Abandon(IF s = conn THEN Tail(pend[s]) ELSE pend[s], g)]
  /\ mutex' = Free
  /\ \E r \in Parsed(g) : Result(g, r)
  /\ Return(g)
  /\ UNCHANGED <<connStatus, conn, open, large, snap, ka, calls, ticks, crash>>

(* Mutant: a failed read leaves the connection as it is. *)
ReceiveFailsConnected(g) ==
  /\ pc[g] = "sr_recv"
  /\ conn # None
  /\ pend' = [s \in Sockets |-> Abandon(pend[s], g)]
  /\ mutex' = Free
  /\ Result(g, "err")
  /\ Return(g)
  /\ UNCHANGED <<connStatus, conn, open, large, snap, got, ka, calls, ticks, crash>>

(* The read fails or reaches its deadline: unlock, then Disconnect.  The    *)
(* reply may still arrive.                                                  *)
ReceiveFails(g) ==
  /\ pc[g] = "sr_recv"
  /\ conn # None
  /\ pend' = [s \in Sockets |-> Abandon(pend[s], g)]
  /\ mutex' = Free
  /\ Result(g, "err")
  /\ Goto(g, "dc_snap")
  /\ UNCHANGED <<connStatus, conn, open, large, snap, got, ka, calls, ticks, crash>>

(* client.conn is a nil interface when another goroutine's dial failed.     *)
NilConn(g) ==
  /\ pc[g] \in ExchangeBody
  /\ conn = None
  /\ Panic("nil_conn")

Exchange(g) ==
  Lock(g) \/ Send(g) \/ SendFails(g) \/ Receive(g) \/ ReceiveFails(g) \/ NilConn(g)

-----------------------------------------------------------------------------
(* Connect.                                                                 *)

(* The exchanges it makes. *)
registerSession(g)     == Call(g, "sr_lock", "co_registered")
forwardOpenLarge(g)    == Call(g, "sr_lock", "co_large")
forwardOpenStandard(g) == Call(g, "sr_lock", "co_std")

StartConnect(g) ==
  /\ pc[g] = "co_start"
  /\ mutex = Free
  /\ \/ /\ connStatus = "Disconnected"
        /\ connStatus' = "Connecting"
        /\ Goto(g, "co_dial")
        /\ UNCHANGED res
     \/ /\ connStatus # "Disconnected"
        /\ Result(g, "err")
        /\ Return(g)
        /\ UNCHANGED connStatus
  /\ UNCHANGED <<mutex, sock, large, snap, got, ka, calls, ticks, crash>>

(* client.conn is overwritten whatever it was, with nil when dialling       *)
(* fails.  The new socket is one this process does not have open.  Then     *)
(* registerSession's exchange.                                              *)
Dial(g) ==
  /\ pc[g] = "co_dial"
  /\ \/ \E s \in Sockets \ (open \cup {conn}) :
          /\ conn' = s
          /\ open' = open \cup {s}
          /\ registerSession(g)
     \/ /\ conn' = None
        /\ UNCHANGED open
        /\ Goto(g, "co_fail")
  /\ UNCHANGED <<connStatus, mutex, large, pend, snap, res, got, ka, calls, ticks, crash>>

(* The size of the forward open is that of the shared ConnectionSize.       *)
Registered(g) ==
  /\ pc[g] = "co_registered"
  /\ \/ res[g] = "err" /\ Goto(g, "co_fail")
     \/ res[g] = "ok" /\ large /\ forwardOpenLarge(g)
     \/ res[g] = "ok" /\ ~large /\ forwardOpenStandard(g)
  /\ UNCHANGED <<connStatus, mutex, sock, large, snap, res, got, ka, calls, ticks, crash>>

(* A failed large forward open falls back to the standard one for good, and *)
(* whether to send that is decided by reading ConnectionSize again.         *)
LargeOpened(g) ==
  /\ pc[g] = "co_large"
  /\ large' = (large /\ res[g] = "ok")
  /\ IF large' THEN Goto(g, "co_ok") ELSE forwardOpenStandard(g)
  /\ UNCHANGED <<connStatus, mutex, sock, snap, res, got, ka, calls, ticks, crash>>

StandardOpened(g) ==
  /\ pc[g] = "co_std"
  /\ Goto(g, IF res[g] = "ok" THEN "co_ok" ELSE "co_fail")
  /\ UNCHANGED <<connStatus, mutex, sock, large, snap, res, got, ka, calls, ticks, crash>>

(* `go client.KeepAlive()`, before the status says Connected.               *)
StartKeepAlive(g) ==
  /\ pc[g] = "co_ok"
  /\ \/ ~KeepAliveAutoStart /\ Goto(g, "co_done")
     \/ /\ KeepAliveAutoStart
        /\ \E k \in Keepers :
              /\ pc[k] = "idle"
              /\ pc' = [pc EXCEPT ![g] = "co_done", ![k] = "ka_begin"]
        /\ UNCHANGED stack
  /\ UNCHANGED <<connStatus, mutex, sock, large, snap, res, got, ka, calls, ticks, crash>>

(* The deferred status write looks at nothing but Connect's own success.    *)
ConnectDone(g) ==
  /\ pc[g] \in {"co_done", "co_fail"}
  /\ mutex = Free
  /\ connStatus' = IF pc[g] = "co_done" THEN "Connected" ELSE "Disconnected"
  /\ Result(g, IF pc[g] = "co_done" THEN "ok" ELSE "err")
  /\ Return(g)
  /\ UNCHANGED <<mutex, sock, large, snap, got, ka, calls, ticks, crash>>

Connect(g) ==
  \/ StartConnect(g) \/ Dial(g) \/ Registered(g) \/ LargeOpened(g)
  \/ StandardOpened(g) \/ StartKeepAlive(g) \/ ConnectDone(g)

-----------------------------------------------------------------------------
(* Disconnect.                                                              *)

Snapshot(g) ==
  /\ pc[g] = "dc_snap"
  /\ mutex = Free
  /\ snap' = [snap EXCEPT ![g] = connStatus]
  /\ Goto(g, "dc_start")
  /\ UNCHANGED <<connStatus, mutex, sock, large, res, got, ka, calls, ticks, crash>>

(* Mutant: the status is written before the early return. *)
StartDisconnectEarly(g) ==
  /\ pc[g] = "dc_start"
  /\ mutex = Free
  /\ connStatus' = "Disconnecting"
  /\ \/ connStatus \in {"Connecting", "Connected"} /\ Goto(g, "dc_keepalive")
     \/ connStatus \in {"Disconnected", "Disconnecting"} /\ Return(g)
  /\ UNCHANGED <<mutex, sock, large, snap, res, got, ka, calls, ticks, crash>>

StartDisconnect(g) ==
  /\ pc[g] = "dc_start"
  /\ mutex = Free
  /\ \/ /\ connStatus \in {"Connecting", "Connected"}
        /\ connStatus' = "Disconnecting"
        /\ Goto(g, "dc_keepalive")
     \/ /\ connStatus \in {"Disconnected", "Disconnecting"}
        /\ Return(g)
        /\ UNCHANGED connStatus
  /\ UNCHANGED <<mutex, sock, large, snap, res, got, ka, calls, ticks, crash>>

(* Mutant: a nil channel is closed like any other. *)
CloseCancelNil ==
  /\ cancel \notin closed
  /\ closed' = closed \cup {cancel}

(* close(client.cancel_keepalive) panics on a nil and on a closed channel.  *)
CloseCancel ==
  /\ cancel # 0
  /\ cancel \notin closed
  /\ closed' = closed \cup {cancel}

CloseCancelPanics ==
  \/ cancel = 0 /\ Panic("nil_channel")
  \/ cancel \in closed /\ Panic("closed_channel")

forwardClose(g) == Call(g, "sr_lock", "dc_close")

(* Cancel the keepalive; then the ForwardClose exchange, unless the status  *)
(* was Connecting when Disconnect looked.                                   *)
StopKeepAlive(g) ==
  /\ pc[g] = "dc_keepalive"
  /\ \/ /\ IF keepAliveRunning THEN CloseCancel ELSE UNCHANGED closed
        /\ IF snap[g] = "Connecting" THEN Goto(g, "dc_close")
                                     ELSE forwardClose(g)
        /\ UNCHANGED <<connStatus, mutex, sock, large, snap, res, got,
                       KeepAliveAutoStart, keepAliveRunning, cancel, waitsOn,
                       calls, ticks, crash>>
     \/ keepAliveRunning /\ CloseCancelPanics

CloseConn(g) ==
  /\ pc[g] = "dc_close"
  /\ open' = open \ {conn}
  /\ pend' = [s \in Sockets |-> IF s = conn THEN <<>> ELSE pend[s]]
  /\ Goto(g, "dc_done")
  /\ UNCHANGED <<connStatus, mutex, conn, large, snap, res, got, ka, calls, ticks, crash>>

(* Mutant: the status goes back to what Disconnect found. *)
DisconnectUndone(g) ==
  /\ pc[g] = "dc_done"
  /\ mutex = Free
  /\ connStatus' = snap[g]
  /\ Return(g)
  /\ UNCHANGED <<mutex, sock, large, snap, res, got, ka, calls, ticks, crash>>

DisconnectDone(g) ==
  /\ pc[g] = "dc_done"
  /\ mutex = Free
  /\ connStatus' = "Disconnected"
  /\ Return(g)
  /\ UNCHANGED <<mutex, sock, large, snap, res, got, ka, calls, ticks, crash>>

Disconnect(g) ==
  \/ Snapshot(g) \/ StartDisconnect(g) \/ StopKeepAlive(g)
  \/ CloseConn(g) \/ DisconnectDone(g)

-----------------------------------------------------------------------------
(* The application's calls.                                                 *)

Spend(g) == calls[g] > 0 /\ calls' = [calls EXCEPT ![g] = @ - 1]

(* Read, Write and the other operations start with checkConnection.         *)
Operation(g) ==
  /\ "op" \in Calls
  /\ pc[g] = "idle"
  /\ Spend(g)
  /\ mutex = Free
  /\ \/ /\ connStatus = "Connected"
        /\ Call(g, "sr_lock", "op_done")
     \/ /\ connStatus # "Connected"
        /\ AutoConnect
        /\ Call(g, "co_start", "op_checked")
  /\ UNCHANGED <<connStatus, mutex, sock, large, snap, res, got, ka, ticks, crash>>

OperationChecked(g) ==
  /\ pc[g] = "op_checked"
  /\ IF res[g] = "ok" THEN Call(g, "sr_lock", "op_done") ELSE Goto(g, "op_done")
  /\ UNCHANGED <<connStatus, mutex, sock, large, snap, res, got, ka, calls, ticks, crash>>

OperationDone(g) ==
  /\ pc[g] = "op_done"
  /\ Goto(g, "idle")
  /\ UNCHANGED <<connStatus, mutex, sock, large, snap, res, got, ka, calls, ticks, crash>>

CallConnect(g) ==
  /\ "connect" \in Calls
  /\ pc[g] = "idle"
  /\ Spend(g)
  /\ Call(g, "co_start", "idle")
  /\ UNCHANGED <<connStatus, mutex, sock, large, snap, res, got, ka, ticks, crash>>

CallDisconnect(g) ==
  /\ "disconnect" \in Calls
  /\ pc[g] = "idle"
  /\ Spend(g)
  /\ Call(g, "dc_snap", "idle")
  /\ UNCHANGED <<connStatus, mutex, sock, large, snap, res, got, ka, ticks, crash>>

(* KeepAliveCancel(true). *)
KeepAliveCancel(g) ==
  /\ "kacancel" \in Calls
  /\ pc[g] = "idle"
  /\ \/ /\ Spend(g)
        /\ CloseCancel
        /\ UNCHANGED <<connStatus, mutex, sock, large, ctl, snap, got,
                       KeepAliveAutoStart, keepAliveRunning, cancel, waitsOn,
                       ticks, crash>>
     \/ calls[g] > 0 /\ CloseCancelPanics

Application(g) ==
  Operation(g) \/ CallConnect(g) \/ CallDisconnect(g) \/ KeepAliveCancel(g)

-----------------------------------------------------------------------------
(* The KeepAlive goroutine.                                                 *)

(* The exchange of a poll, which does not check the connection first.       *)
GetAttrList(k, ret) == Call(k, "sr_lock", ret)

(* KeepAlive makes a new cancel channel even when another KeepAlive runs.   *)
KeepAliveBegins(k) ==
  /\ pc[k] = "ka_begin"
  /\ \/ /\ KeepAliveAutoStart
        /\ cancel' = cancel + 1
        /\ keepAliveRunning' = TRUE
        /\ GetAttrList(k, "ka_first")
     \/ /\ ~KeepAliveAutoStart
        /\ Goto(k, "idle")
        /\ UNCHANGED <<cancel, keepAliveRunning>>
  /\ UNCHANGED <<connStatus, mutex, sock, large, snap, res, got,
                 KeepAliveAutoStart, closed, waitsOn, calls, ticks, crash>>

(* After the first properties were read, and after every later poll, the    *)
(* loop evaluates client.cancel_keepalive and blocks in select.  A poll     *)
(* that fails disconnects.                                                  *)
KeepAlivePolled(k) ==
  /\ pc[k] \in {"ka_first", "ka_polled"}
  /\ \/ /\ res[k] = "ok"
        /\ waitsOn' = [waitsOn EXCEPT ![k] = cancel]
        /\ Goto(k, "ka_select")
     \/ /\ res[k] = "err"
        /\ UNCHANGED waitsOn
        /\ IF pc[k] = "ka_polled" THEN Call(k, "dc_snap", "ka_exit")
                                  ELSE Goto(k, "ka_exit")
  /\ UNCHANGED <<connStatus, mutex, sock, large, snap, res, got,
                 KeepAliveAutoStart, keepAliveRunning, cancel, closed,
                 calls, ticks, crash>>

Tick(k) ==
  /\ pc[k] = "ka_select"
  /\ mutex = Free
  /\ ticks > 0
  /\ ticks' = ticks - 1
  /\ IF connStatus = "Connected" THEN GetAttrList(k, "ka_polled")
                                 ELSE Goto(k, "ka_exit")
  /\ UNCHANGED <<connStatus, mutex, sock, large, snap, res, got, ka, calls, crash>>

Cancelled(k) ==
  /\ pc[k] = "ka_select"
  /\ waitsOn[k] \in closed
  /\ KeepAliveAutoStart' = FALSE
  /\ Goto(k, "ka_exit")
  /\ UNCHANGED <<connStatus, mutex, sock, large, snap, res, got,
                 keepAliveRunning, cancel, closed, waitsOn, calls, ticks, crash>>

(* Mutant: the deferred reset of keepAliveRunning is missing. *)
KeepAliveExitsRunning(k) ==
  /\ pc[k] = "ka_exit"
  /\ Goto(k, "idle")
  /\ UNCHANGED <<connStatus, mutex, sock, large, snap, res, got, ka, calls, ticks, crash>>

KeepAliveExits(k) ==
  /\ pc[k] = "ka_exit"
  /\ keepAliveRunning' = FALSE
  /\ Goto(k, "idle")
  /\ UNCHANGED <<connStatus, mutex, sock, large, snap, res, got,
                 KeepAliveAutoStart, cancel, closed, waitsOn, calls, ticks, crash>>

KeepAlive(k) ==
  \/ KeepAliveBegins(k) \/ KeepAlivePolled(k) \/ Tick(k)
  \/ Cancelled(k) \/ KeepAliveExits(k)

-----------------------------------------------------------------------------
(* The controller never answers the oldest request of a socket.             *)
ControllerSilent(s) ==
  /\ s \in open
  /\ pend[s] # <<>>
  /\ pend' = [pend EXCEPT ![s] = Tail(@)]
  /\ UNCHANGED <<connStatus, mutex, conn, open, large, ctl, snap, got, ka, calls, ticks, crash>>

(* The steps a running goroutine takes once it is inside a call.            *)
Step(g) ==
  \/ Exchange(g) \/ Connect(g) \/ Disconnect(g)
  \/ OperationChecked(g) \/ OperationDone(g) \/ KeepAlive(g)

Next ==
  /\ crash = "none"
  /\ \/ \E g \in G : Step(g)
     \/ \E u \in Users : Application(u)
     \/ \E s \in Sockets : ControllerSilent(s)

Spec == Init /\ [][Next]_vars

(* The Go scheduler runs every goroutine that can run, socket deadlines     *)
(* expire and tickers fire; the application need not make a call.           *)
FairSpec == Spec /\ \A g \in G : WF_vars(crash = "none" /\ Step(g))

-----------------------------------------------------------------------------
(* Properties.                                                              *)

(* Every field keeps its type: the return labels on the stacks are labels,  *)
(* the mutex is held by a goroutine or free, the channel numbers are those  *)
(* of channels that were made.                                              *)
TypeOK ==
  /\ connStatus \in Status
  /\ mutex \in G \cup {Free}
  /\ conn \in Sockets \cup {None}
  /\ large \in BOOLEAN
  /\ open \subseteq Sockets
  /\ pend \in [Sockets -> Seq(G \cup {Stale})]
  /\ pc \in [G -> Labels]
  /\ stack \in [G -> Seq(Labels)]
  /\ snap \in [G -> Status]
  /\ res \in [G -> {"ok", "err"}]
  /\ got \in [G -> {"none", "own", "other"}]
  /\ KeepAliveAutoStart \in BOOLEAN
  /\ keepAliveRunning \in BOOLEAN
  /\ cancel \in Nat
  /\ closed \subseteq 1..cancel
  /\ waitsOn \in [G -> 0..cancel]
  /\ calls \in [Users -> 0..MaxCalls]
  /\ ticks \in 0..MaxTicks
  /\ crash \in Crashes

(* client.mutex serialises the wire: whoever is between the lock and the    *)
(* unlock of send_recv_data holds it, and nobody else is there.             *)
WireOwned == \A g \in G : pc[g] \in ExchangeBody <=> mutex = g

(* A request somebody still waits for belongs to the one goroutine that is  *)
(* inside send_recv_data, and it is the newest request of its socket.  So a *)
(* reply a goroutine reads is its own or answers an exchange that was given *)
(* up; it never takes the reply another goroutine is waiting for.           *)
NoCrossTalk ==
  \A s \in Sockets : \A i \in 1..Len(pend[s]) :
    pend[s][i] # Stale =>
      /\ mutex = pend[s][i]
      /\ pc[mutex] = "sr_recv"
      /\ i = Len(pend[s])

(* Is goroutine g executing the given part of the code, itself or in one of *)
(* its callers?                                                             *)
Within(g, body) ==
  \/ pc[g] \in body
  \/ \E i \in 1..Len(stack[g]) : stack[g][i] \in body

(* Connecting and Disconnecting make every other Connect and Disconnect     *)
(* return an error, so somebody must be under way to end them: a Connect or *)
(* a Disconnect past its first critical section, however errors, fallbacks, *)
(* nested Disconnects and other goroutines interleave.                      *)
TransitionOwned ==
  /\ connStatus = "Connecting" => \E g \in G : Within(g, ConnectBody)
  /\ connStatus = "Disconnecting" => \E g \in G : Within(g, DisconnectBody)

(* keepAliveRunning is set only while a KeepAlive goroutine lives and has   *)
(* made its cancel channel: Disconnect, which trusts the flag, never closes *)
(* a nil channel, whichever of two overlapping KeepAlives exits first.      *)
KeepAliveOwned ==
  keepAliveRunning => cancel # 0 /\ \E k \in Keepers : Within(k, KeepAliveBody)

(* No goroutine is left in a call for ever: the mutex is always released,   *)
(* every socket operation ends at its deadline, and the nesting of          *)
(* Disconnect inside send_recv_data inside Disconnect ends.                 *)
EveryCallReturns ==
  \A u \in Users : pc[u] # "idle" ~> (pc[u] = "idle" \/ crash # "none")

Quiet == \A g \in G : pc[g] = "idle"

(* Properties of a client that one goroutine uses, while no KeepAlive has   *)
(* begun to run beside it.                                                  *)
UsedAlone == cancel = 0

(* No operation meets a connection that is nil, however the calls before it *)
(* failed; and when no call is in progress, Connected means there is a      *)
(* socket to use.                                                           *)
ConnectedHasSocket ==
  UsedAlone =>
    /\ crash # "nil_conn"
    /\ (\A u \in Users : pc[u] = "idle") /\ connStatus = "Connected" => conn \in open

(* The reply an operation, a session registration or a forward open acts on *)
(* is the reply to its own request.  (The ForwardClose of a Disconnect that *)
(* follows a timeout may well be handed the late reply.)                    *)
CallersGetOwnReply ==
  \A u \in Users :
    UsedAlone /\ pc[u] \in {"co_registered", "co_large", "co_std", "op_done"}
      => got[u] # "other" \/ res[u] = "err"

(* Properties that documentation and comments claim and the code breaks.    *)

(* sendreceive.go:78 "sends one message and gets one response in a          *)
(* mutex-protected way": an operation that succeeds acted on the reply to   *)
(* its own request.                                                         *)
OneResponsePerMessage ==
  \A g \in G : pc[g] = "op_done" /\ res[g] = "ok" => got[g] # "other"

(* disconnect.go:53-54 "Returns an error if already disconnected [...], but *)
(* the connection will be closed regardless": once the application's        *)
(* Disconnect has returned, client.conn is not an open socket.              *)
ClosedRegardless ==
  [][\A u \in Users : pc[u] \in {"dc_start", "dc_done"} /\ pc'[u] = "idle"
        => conn' \notin open']_vars

(* disconnect.go:66 "No matter what happens, when we finish here, we'll     *)
(* consider the connection disconnected": a client at rest whose socket was *)
(* closed does not say it is connected.                                     *)
ConsideredDisconnected == Quiet /\ conn \notin open => connStatus # "Connected"

(* disconnect.go:46 "Disconnect can be called multiple times safely": it    *)
(* never closes the keepalive's cancel channel a second time.               *)
DisconnectIsSafe == crash # "closed_channel"

(* disconnect.go:163 "the keepalive will not resume unless the client is    *)
(* reconnected": a successful Connect of a client configured to keep alive  *)
(* starts a KeepAlive goroutine.                                            *)
ReconnectResumesKeepAlive ==
  [][\A u \in Users :
       KeepAliveConfigured /\ pc[u] = "co_ok" /\ pc'[u] # "co_ok"
         => \E k \in Keepers : pc[k] = "idle" /\ pc'[k] = "ka_begin"]_vars

=============================================================================
