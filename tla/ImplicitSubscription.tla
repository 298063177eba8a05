------------------------ MODULE ImplicitSubscription ------------------------
(***************************************************************************)
(* Implicit (class 1) subscriptions of one client: SubscribeImplicit opens *)
(* a connection over the client's TCP session and then listens for its     *)
(* datagrams on a UDP port, the same one by default for all; a goroutine   *)
(* per subscription receives, filters by connection id and offers values;  *)
(* Stop ends it.                                                           *)
(*                                                                         *)
(* One step is one exchange, one socket operation or one access to a       *)
(* channel or to the unprotected flag "closed".  A datagram is the         *)
(* subscription whose connection it was produced on and a sequence number; *)
(* the network may lose, repeat, delay and reorder it.                     *)
(***************************************************************************)
EXTENDS Naturals, Sequences, FiniteSets

CONSTANTS
  Subs,
  Stoppers,      \* goroutines that call Stop, once each
  ValueBuffer, ErrorBuffer,
  MaxSeq,        \* bound: datagrams produced on a connection
  MaxFaults,     \* bound: exchanges and receives that fail
  None

ASSUME ImplicitSubscriptionAssumption ==
  /\ ValueBuffer \in Nat \ {0} /\ ErrorBuffer \in Nat \ {0}
  /\ MaxSeq \in Nat /\ MaxFaults \in Nat
  /\ None \notin Subs

VARIABLES
  connected,   \* client.Connected()
  opened,      \* the connections open in the controller
  port,        \* whose socket has the UDP port
  produced,    \* datagrams produced on each connection
  pc,          \* each subscription, with its goroutine
  packet,      \* the datagram it is dealing with
  values,      \* channel of values
  errs,        \* number of errors in their channel
  chans,       \* the closed channels of each subscription
  closed,      \* its flag
  stop, target,\* each goroutine that calls Stop, and on what
  kept,        \* was the client connected all the time since that call began?
  faults

network == <<port, produced>>
stopping == <<closed, stop, target, kept>>
vars == <<connected, opened, network, pc, packet, values, errs, chans, stopping, faults>>

Datagrams == [sub : Subs, seq : 1..MaxSeq]

(* What may arrive: what was produced, in any order, again or not at all. *)
Arriving == {d \in Datagrams : d.seq <= produced[d.sub]}

Fault == faults < MaxFaults /\ faults' = faults + 1
Go(s, l) == pc' = [pc EXCEPT ![s] = l]

Init ==
  /\ connected = TRUE /\ opened = {}
  /\ port = None
  /\ produced = [s \in Subs |-> 0]
  /\ pc = [s \in Subs |-> "none"] /\ packet = [s \in Subs |-> None]
  /\ values = [s \in Subs |-> <<>>] /\ errs = [s \in Subs |-> 0]
  /\ chans = [s \in Subs |-> {}]
  /\ closed = [s \in Subs |-> FALSE]
  /\ stop = [p \in Stoppers |-> "idle"] /\ target = [p \in Stoppers |-> None]
  /\ kept = [p \in Stoppers |-> FALSE]
  /\ faults = 0

-----------------------------------------------------------------------------
(* The client's connection, the controller and the subscriber.              *)

(* The client is disconnected by somebody else's call, or connected again. *)
ConnectionChanges ==
  /\ IF connected THEN Fault ELSE UNCHANGED faults
  /\ connected' = ~connected
  /\ kept' = [p \in Stoppers |-> kept[p] /\ connected']
  /\ UNCHANGED <<opened, network, pc, packet, values, errs, chans, closed, stop, target>>

Produce(s) ==
  /\ s \in opened /\ produced[s] < MaxSeq
  /\ produced' = [produced EXCEPT ![s] = @ + 1]
  /\ UNCHANGED <<connected, opened, port, pc, packet, values, errs, chans, stopping, faults>>

Take(s) ==
  /\ values[s] # <<>>
  /\ values' = [values EXCEPT ![s] = Tail(@)]
  /\ UNCHANGED <<connected, opened, network, pc, packet, errs, chans, stopping, faults>>

-----------------------------------------------------------------------------
(* SubscribeImplicit: the forward open, then the socket.                    *)

Subscribe(s) ==
  /\ pc[s] = "none" /\ connected
  /\ opened' = opened \cup {s}
  /\ Go(s, "opened")
  /\ UNCHANGED <<connected, network, packet, values, errs, chans, stopping, faults>>

(* There is no connection, or the exchange fails, before or after the       *)
(* controller has acted.                                                    *)
SubscribeFails(s) ==
  /\ pc[s] = "none"
  /\ \/ ~connected /\ UNCHANGED <<opened, faults>>
     \/ Fault /\ opened' \in {opened, opened \cup {s}}
  /\ Go(s, "failed")
  /\ UNCHANGED <<connected, network, packet, values, errs, chans, stopping>>

Listen(s) ==
  /\ pc[s] = "opened" /\ port = None
  /\ port' = s
  /\ Go(s, "loop")
  /\ UNCHANGED <<connected, opened, produced, packet, values, errs, chans, stopping, faults>>

(* The port is taken: SubscribeImplicit returns an error. *)
ListenFails(s) ==
  /\ pc[s] = "opened" /\ port # None
  /\ Go(s, "refused")
  /\ UNCHANGED <<connected, opened, network, packet, values, errs, chans, stopping, faults>>

-----------------------------------------------------------------------------
(* run: look at stopCh, receive with a deadline, offer.                     *)

Loop(s) ==
  /\ pc[s] = "loop"
  /\ Go(s, IF "stopCh" \in chans[s] THEN "leave" ELSE "read")
  /\ UNCHANGED <<connected, opened, network, packet, values, errs, chans, stopping, faults>>

ReadTimeout(s) ==
  /\ pc[s] = "read" /\ port = s
  /\ Go(s, "loop")
  /\ UNCHANGED <<connected, opened, network, packet, values, errs, chans, stopping, faults>>

EmitErr(s) == errs' = [errs EXCEPT ![s] = IF @ < ErrorBuffer THEN @ + 1 ELSE @]

(* The socket is closed, or fails: the loop goes on unless it was stopped. *)
ReadFails(s) ==
  /\ pc[s] = "read"
  /\ IF port = s THEN Fault ELSE UNCHANGED faults
  /\ IF "stopCh" \in chans[s]
     THEN Go(s, "leave") /\ UNCHANGED errs
     ELSE Go(s, "loop") /\ EmitErr(s)
  /\ UNCHANGED <<connected, opened, network, packet, values, chans, stopping>>

(* Mutant: every datagram at the port is taken. *)
MineAlways(s, d) == TRUE

(* Is the datagram's connection id this subscription's? *)
Mine(s, d) == d.sub = s

(* Mutant: a value waits for room. *)
OfferWaits(s, d) ==
  /\ Len(values[s]) < ValueBuffer
  /\ values' = [values EXCEPT ![s] = Append(@, d)]
  /\ UNCHANGED errs

Offer(s, d) ==
  IF Len(values[s]) < ValueBuffer
  THEN values' = [values EXCEPT ![s] = Append(@, d)] /\ UNCHANGED errs
  ELSE EmitErr(s) /\ UNCHANGED values

Arrives(s, d) ==
  /\ pc[s] = "read" /\ port = s
  /\ UNCHANGED <<connected, opened, network, values, chans, stopping, faults>>

(* A datagram of another connection is passed over. *)
Read(s, d) ==
  /\ Arrives(s, d)
  /\ IF Mine(s, d)
     THEN Go(s, "offer") /\ packet' = [packet EXCEPT ![s] = d]
     ELSE Go(s, "loop") /\ UNCHANGED packet
  /\ UNCHANGED errs

(* Its items, its sequence count or its value cannot be decoded. *)
ReadUndecodable(s, d) ==
  /\ Arrives(s, d)
  /\ Go(s, "loop")
  /\ EmitErr(s)
  /\ UNCHANGED packet

OfferValue(s) ==
  /\ pc[s] = "offer"
  /\ Offer(s, packet[s])
  /\ Go(s, "loop")
  /\ packet' = [packet EXCEPT ![s] = None]
  /\ UNCHANGED <<connected, opened, network, chans, stopping, faults>>

(* Mutant: Stop is told before the subscriber's channels are closed. *)
deferredDoneFirst == <<"doneCh", "errs", "values">>

(* The deferred calls, which run last first. *)
deferred == <<"errs", "values", "doneCh">>

Leave(s) ==
  /\ pc[s] = "leave"
  /\ \E i \in DOMAIN deferred :
       /\ deferred[i] \notin chans[s]
       /\ \A j \in 1..(i - 1) : deferred[j] \in chans[s]
       /\ chans' = [chans EXCEPT ![s] = @ \cup {deferred[i]}]
       /\ Go(s, IF i = Len(deferred) THEN "ended" ELSE "leave")
  /\ UNCHANGED <<connected, opened, network, packet, values, errs, stopping, faults>>

run(s) ==
  \/ Loop(s) \/ ReadTimeout(s) \/ ReadFails(s) \/ OfferValue(s) \/ Leave(s)
  \/ \E d \in Arriving : Read(s, d) \/ ReadUndecodable(s, d)

-----------------------------------------------------------------------------
(* Stop.                                                                    *)

To(p, l) == stop' = [stop EXCEPT ![p] = l]
receiving == <<pc, packet, values, errs>>
Started == {s \in Subs : pc[s] \in {"loop", "read", "offer", "leave", "ended"}}

(* The flag is read, and set, without a lock. *)
StopLooks(p, s) ==
  /\ stop[p] = "idle" /\ s \in Started
  /\ target' = [target EXCEPT ![p] = s]
  /\ kept' = [kept EXCEPT ![p] = connected]
  /\ To(p, IF closed[s] THEN "already" ELSE "marks")
  /\ UNCHANGED <<connected, opened, network, receiving, chans, closed, faults>>

StopMarks(p) ==
  /\ stop[p] = "marks"
  /\ closed' = [closed EXCEPT ![target[p]] = TRUE]
  /\ To(p, "closes")
  /\ UNCHANGED <<connected, opened, network, receiving, chans, target, kept, faults>>

StopCloses(p) ==
  /\ stop[p] = "closes"
  /\ To(p, IF "stopCh" \in chans[target[p]] THEN "panics" ELSE "socket")
  /\ chans' = [chans EXCEPT ![target[p]] = @ \cup {"stopCh"}]
  /\ UNCHANGED <<connected, opened, network, receiving, closed, target, kept, faults>>

StopSocket(p) ==
  /\ stop[p] = "socket"
  /\ port' = None
  /\ To(p, "forward")
  /\ UNCHANGED <<connected, opened, produced, receiving, chans, closed, target, kept, faults>>

(* forwardCloseBySerial, if the client is connected. *)
StopForward(p) ==
  /\ stop[p] = "forward"
  /\ opened' = IF connected THEN opened \ {target[p]} ELSE opened
  /\ To(p, "waits")
  /\ UNCHANGED <<connected, network, receiving, chans, closed, target, kept, faults>>

StopForwardFails(p) ==
  /\ stop[p] = "forward" /\ connected
  /\ Fault
  /\ opened' \in {opened, opened \ {target[p]}}
  /\ To(p, "waits_err")
  /\ UNCHANGED <<connected, network, receiving, chans, closed, target, kept>>

StopReturns(p) ==
  /\ stop[p] \in {"waits", "waits_err"} /\ "doneCh" \in chans[target[p]]
  /\ To(p, IF stop[p] = "waits" THEN "stopped" ELSE "err")
  /\ UNCHANGED <<connected, opened, network, receiving, chans, closed, target, kept, faults>>

Stop(p) ==
  StopMarks(p) \/ StopCloses(p) \/ StopSocket(p) \/ StopForward(p) \/ StopForwardFails(p) \/ StopReturns(p)

-----------------------------------------------------------------------------
Next ==
  \/ ConnectionChanges
  \/ \E s \in Subs :
       \/ Produce(s) \/ Take(s)
       \/ Subscribe(s) \/ SubscribeFails(s) \/ Listen(s) \/ ListenFails(s) \/ run(s)
  \/ \E p \in Stoppers : Stop(p) \/ \E s \in Subs : StopLooks(p, s)

Spec == Init /\ [][Next]_vars

(* Goroutines run, a receive ends at its deadline, an exchange at its       *)
(* timeout.  Nobody is assumed to read the channels.                        *)
FairSpec ==
  /\ Spec
  /\ \A s \in Subs : WF_vars(run(s))
  /\ \A p \in Stoppers : WF_vars(Stop(p))

-----------------------------------------------------------------------------
(* A subscription has the port from its socket's opening to its closing,    *)
(* and channels stay within their buffers (SubscribeImplicit, run, Stop).   *)
TypeOK ==
  /\ connected \in BOOLEAN /\ opened \subseteq Subs
  /\ port \in Started \cup {None}
  /\ produced \in [Subs -> 0..MaxSeq]
  /\ pc \in [Subs -> {"none", "opened", "failed", "refused", "loop", "read", "offer", "leave", "ended"}]
  /\ packet \in [Subs -> Datagrams \cup {None}] /\ values \in [Subs -> Seq(Datagrams)]
  /\ \A s \in Subs :
       /\ packet[s] \in IF pc[s] = "offer" THEN Datagrams ELSE {None}
       /\ Len(values[s]) <= ValueBuffer
       /\ pc[s] \in {"leave", "ended"} => "stopCh" \in chans[s]
  /\ errs \in [Subs -> 0..ErrorBuffer]
  /\ chans \in [Subs -> SUBSET {"stopCh", "errs", "values", "doneCh"}]
  /\ closed \in [Subs -> BOOLEAN] /\ kept \in [Stoppers -> BOOLEAN]
  /\ stop \in [Stoppers -> {"idle", "already", "marks", "closes", "socket", "forward", "waits", "waits_err",
                            "stopped", "err", "panics"}]
  /\ target \in [Stoppers -> Subs \cup {None}]
  /\ faults \in 0..MaxFaults

(* A subscriber gets values of its own connection only, also when datagrams *)
(* of a subscription that had the port before arrive late (run).            *)
OwnDatagrams == \A s \in Subs : \A i \in DOMAIN values[s] : values[s][i].sub = s

(* When the Stop that did the stopping returns nil, Values and Errors are   *)
(* closed, the port is free for the next subscription and, if the client    *)
(* stayed connected, so is the controller's connection (Stop).              *)
StopReleases ==
  \A p \in Stoppers : stop[p] = "stopped" =>
    /\ {"values", "errs"} \subseteq chans[target[p]]
    /\ port # target[p]
    /\ kept[p] => target[p] \notin opened

(* Stop returns, whatever the network and the readers do (Stop, run).       *)
ImplicitStopEnds == \A p \in Stoppers : stop[p] = "marks" ~> stop[p] \in {"stopped", "err", "panics"}

(* Properties that the code breaks.                                         *)

(* implicit_subscribe.go:290 "Values is closed when Stop() is called": also *)
(* for the one of two callers that finds the flag set.                      *)
ValuesClosedOnReturn == \A p \in Stoppers : stop[p] \in {"stopped", "already"} => "values" \in chans[target[p]]

(* implicit_subscribe.go:611 handles a second Stop: it returns nil.         *)
SecondStopIsSafe == \A p \in Stoppers : stop[p] # "panics"

(* A SubscribeImplicit that returns an error because it cannot listen has   *)
(* no connection left in the controller (implicit_subscribe.go:390-393).    *)
RefusedLeavesNothing == \A s \in Subs : pc[s] = "refused" => s \notin opened

(* Values come in the order they were produced (implicit_subscribe.go:563   *)
(* strips the sequence count without looking at it).                        *)
InOrder ==
  \A s \in Subs : \A i, j \in DOMAIN values[s] : i < j => values[s][i].seq < values[s][j].seq

=============================================================================
