--------------------- MODULE ImplicitSubscriptionProofs ---------------------
(***************************************************************************)
(* Proofs about implicit subscriptions, for any number of subscriptions    *)
(* and of goroutines that stop them: values stay with their connection,    *)
(* one Stop does the stopping, it closes its own socket and nobody else's, *)
(* and when it returns nil everything is released.                         *)
(***************************************************************************)
EXTENDS ImplicitSubscription, TLAPS

USE ImplicitSubscriptionAssumption

(* A Stop that has closed stopCh, and one that has closed the socket too.   *)
Stops(p) == stop[p] \in {"socket", "forward", "waits", "waits_err", "stopped", "err"}
Unsocketed(p) == stop[p] \in {"forward", "waits", "waits_err", "stopped", "err"}

(* What is stopped was started, and stays so.                               *)
TargetsStarted == \A p \in Stoppers : stop[p] # "idle" => target[p] \in Started

(* Only one of the Stops on a subscription gets past close(stopCh).         *)
OneStops ==
  /\ \A p \in Stoppers : Stops(p) => "stopCh" \in chans[target[p]]
  /\ \A p, q \in Stoppers : Stops(p) /\ Stops(q) /\ target[p] = target[q] => p = q

(* A subscription that was started has the port until its Stop closes the   *)
(* socket: nobody else is given it, or takes it away.                       *)
PortKept ==
  \A s \in Started : port = s <=> ~ \E p \in Stoppers : Unsocketed(p) /\ target[p] = s

(* The deferred calls have run in their order.                              *)
DeferredInOrder == \A s \in Subs : "doneCh" \in chans[s] => {"values", "errs"} \subseteq chans[s]

(* A client that was connected since the call is connected.                 *)
KeptConnected == \A p \in Stoppers : kept[p] => connected

(* What is left to do once the connection was closed.                       *)
ForwardClosed == \A p \in Stoppers : stop[p] \in {"waits", "stopped"} /\ kept[p] => target[p] \notin opened

DoneSeen == \A p \in Stoppers : stop[p] \in {"stopped", "err"} => "doneCh" \in chans[target[p]]

(* The datagram that is to be offered is of the subscription's connection.  *)
PacketOwn == \A s \in Subs : pc[s] = "offer" => packet[s].sub = s

IInv ==
  /\ TypeOK /\ TargetsStarted /\ OneStops /\ PortKept
  /\ DeferredInOrder /\ KeptConnected /\ ForwardClosed /\ DoneSeen
  /\ PacketOwn /\ OwnDatagrams

-----------------------------------------------------------------------------
(* Types.                                                                   *)

LEMMA InitTypes == Init => TypeOK
BY DEF Init, TypeOK, Started

(* An error is counted, or dropped when their channel is full.              *)
LEMMA EmitErrTypes ==
  ASSUME NEW s \in Subs, errs \in [Subs -> 0..ErrorBuffer], EmitErr(s)
  PROVE  errs' \in [Subs -> 0..ErrorBuffer]
<1> DEFINE n == IF errs[s] < ErrorBuffer THEN errs[s] + 1 ELSE errs[s]
<1>1. n \in 0..ErrorBuffer
  OBVIOUS
<1>2. errs' = [errs EXCEPT ![s] = n]
  BY DEF EmitErr
<1> HIDE DEF n
<1> QED BY <1>1, <1>2

LEMMA TypesStep == TypeOK /\ TargetsStarted /\ [Next]_vars => TypeOK'
<1> SUFFICES ASSUME TypeOK, TargetsStarted, [Next]_vars PROVE TypeOK'
  OBVIOUS
<1> USE DEF TypeOK, network, stopping, receiving, Go, To, Fault, Started
<1>1. CASE ConnectionChanges
  BY <1>1 DEF ConnectionChanges
<1>2. ASSUME NEW s \in Subs, Produce(s) PROVE TypeOK'
  BY <1>2 DEF Produce
<1>3. ASSUME NEW s \in Subs, Take(s) PROVE TypeOK'
  <2>1. Tail(values[s]) \in Seq(Datagrams) /\ Len(Tail(values[s])) <= ValueBuffer
    BY <1>3 DEF Take
  <2> QED BY <1>3, <2>1 DEF Take
<1>4. ASSUME NEW s \in Subs, Subscribe(s) PROVE TypeOK'
  BY <1>4 DEF Subscribe
<1>5. ASSUME NEW s \in Subs, SubscribeFails(s) PROVE TypeOK'
  BY <1>5 DEF SubscribeFails
<1>6. ASSUME NEW s \in Subs, Listen(s) PROVE TypeOK'
  BY <1>6 DEF Listen
<1>7. ASSUME NEW s \in Subs, ListenFails(s) PROVE TypeOK'
  BY <1>7 DEF ListenFails
<1>8. ASSUME NEW s \in Subs, Loop(s) PROVE TypeOK'
  BY <1>8 DEF Loop
<1>9. ASSUME NEW s \in Subs, ReadTimeout(s) PROVE TypeOK'
  BY <1>9 DEF ReadTimeout
<1>10. ASSUME NEW s \in Subs, ReadFails(s) PROVE TypeOK'
  <2>1. errs' \in [Subs -> 0..ErrorBuffer]
    BY <1>10, EmitErrTypes DEF ReadFails
  <2>2. faults' \in 0..MaxFaults
    BY <1>10 DEF ReadFails
  <2> QED BY <1>10, <2>1, <2>2 DEF ReadFails
<1>11. ASSUME NEW s \in Subs, NEW d \in Arriving, Read(s, d) PROVE TypeOK'
  <2>1. CASE Mine(s, d)
    <3>1. d \in Datagrams
      BY DEF Arriving
    <3>2. packet' = [packet EXCEPT ![s] = d] /\ pc' = [pc EXCEPT ![s] = "offer"]
      BY <1>11, <2>1 DEF Read
    <3>3. \A r \in Subs : packet'[r] \in IF pc'[r] = "offer" THEN Datagrams ELSE {None}
      BY <3>1, <3>2
    <3> QED BY <1>11, <2>1, <3>1, <3>2, <3>3 DEF Read, Arrives
  <2>2. CASE ~Mine(s, d)
    BY <1>11, <2>2 DEF Read, Arrives
  <2> QED BY <2>1, <2>2
<1>12. ASSUME NEW s \in Subs, NEW d \in Arriving, ReadUndecodable(s, d) PROVE TypeOK'
  BY <1>12 DEF ReadUndecodable, Arrives, EmitErr
<1>13. ASSUME NEW s \in Subs, OfferValue(s) PROVE TypeOK'
  <2>1. /\ Append(values[s], packet[s]) \in Seq(Datagrams)
        /\ Len(values[s]) < ValueBuffer => Len(Append(values[s], packet[s])) <= ValueBuffer
    BY <1>13 DEF OfferValue
  <2>2. /\ values' \in [Subs -> Seq(Datagrams)] /\ errs' \in [Subs -> 0..ErrorBuffer]
        /\ \A r \in Subs : Len(values'[r]) <= ValueBuffer
    <3>1. CASE Len(values[s]) < ValueBuffer
      <4> DEFINE v == Append(values[s], packet[s])
      <4>1. values' = [values EXCEPT ![s] = v] /\ UNCHANGED errs
        BY <1>13, <3>1 DEF OfferValue, Offer
      <4>2. v \in Seq(Datagrams) /\ Len(v) <= ValueBuffer
        BY <2>1, <3>1
      <4> HIDE DEF v
      <4> QED BY <4>1, <4>2
    <3>2. CASE ~(Len(values[s]) < ValueBuffer)
      BY <1>13, <3>2, EmitErrTypes DEF OfferValue, Offer
    <3> QED BY <3>1, <3>2
  <2> QED BY <1>13, <2>2 DEF OfferValue
<1>14. ASSUME NEW s \in Subs, Leave(s) PROVE TypeOK'
  BY <1>14 DEF Leave, deferred
<1>15. ASSUME NEW p \in Stoppers, NEW s \in Subs, StopLooks(p, s) PROVE TypeOK'
  BY <1>15 DEF StopLooks
<1>16. ASSUME NEW p \in Stoppers, StopMarks(p) PROVE TypeOK'
  BY <1>16 DEF StopMarks
<1>17. ASSUME NEW p \in Stoppers, StopCloses(p) PROVE TypeOK'
  BY <1>17 DEF StopCloses, TargetsStarted
<1>18. ASSUME NEW p \in Stoppers, StopSocket(p) PROVE TypeOK'
  BY <1>18 DEF StopSocket
<1>19. ASSUME NEW p \in Stoppers, StopForward(p) PROVE TypeOK'
  BY <1>19 DEF StopForward
<1>20. ASSUME NEW p \in Stoppers, StopForwardFails(p) PROVE TypeOK'
  BY <1>20 DEF StopForwardFails
<1>21. ASSUME NEW p \in Stoppers, StopReturns(p) PROVE TypeOK'
  BY <1>21 DEF StopReturns
<1>22. CASE UNCHANGED vars
  BY <1>22 DEF vars
<1> QED
  BY <1>1, <1>2, <1>3, <1>4, <1>5, <1>6, <1>7, <1>8, <1>9, <1>10, <1>11, <1>12, <1>13, <1>14, <1>15,
     <1>16, <1>17, <1>18, <1>19, <1>20, <1>21, <1>22
  DEF Next, run, Stop

(* What was started stays started, and Stop is called on what was started.  *)
LEMMA TargetsStep == TypeOK /\ TargetsStarted /\ [Next]_vars => TargetsStarted' /\ Started \subseteq Started'
<1> SUFFICES ASSUME TypeOK, TargetsStarted, [Next]_vars PROVE TargetsStarted' /\ Started \subseteq Started'
  OBVIOUS
<1> USE DEF Next, run, Stop, vars, TypeOK, network, stopping, receiving, Go, To, Fault,
      ConnectionChanges, Produce, Take, Subscribe, SubscribeFails, Listen, ListenFails, Loop, ReadTimeout,
      ReadFails, Read, ReadUndecodable, Arrives, OfferValue, Leave, StopLooks, StopMarks, StopCloses,
      StopSocket, StopForward, StopForwardFails, StopReturns
<1>1. Started \subseteq Started'
  BY DEF Started
<1>2. \A p \in Stoppers :
        stop'[p] # "idle" => \/ stop[p] # "idle" /\ target'[p] = target[p]
                             \/ target'[p] \in Started
  OBVIOUS
<1> QED BY <1>1, <1>2 DEF TargetsStarted

-----------------------------------------------------------------------------
(* Stop.                                                                    *)

(* A closed channel stays closed. *)
LEMMA ChansGrow == TypeOK /\ [Next]_vars => \A s \in Subs : chans[s] \subseteq chans'[s]
BY DEF Next, run, Stop, vars, TypeOK, network, stopping, receiving,
   ConnectionChanges, Produce, Take, Subscribe, SubscribeFails, Listen, ListenFails, Loop, ReadTimeout,
   ReadFails, Read, ReadUndecodable, Arrives, OfferValue, Leave, StopLooks, StopMarks, StopCloses,
   StopSocket, StopForward, StopForwardFails, StopReturns

LEMMA OneStopsStep == TypeOK /\ TargetsStarted /\ OneStops /\ [Next]_vars => OneStops'
<1> SUFFICES ASSUME TypeOK, TargetsStarted, OneStops, [Next]_vars PROVE OneStops'
  OBVIOUS
<1>1. ASSUME NEW p \in Stoppers, StopCloses(p) PROVE OneStops'
  BY <1>1 DEF StopCloses, OneStops, Stops, TypeOK, To, TargetsStarted, Started
<1>2. CASE ~ \E p \in Stoppers : StopCloses(p)
  <2>1. \A p \in Stoppers : Stops(p)' => Stops(p) /\ target'[p] = target[p]
    BY <1>2 DEF Stops, Next, run, Stop, vars, TypeOK, network, stopping, receiving, To,
       ConnectionChanges, Produce, Take, Subscribe, SubscribeFails, Listen, ListenFails, Loop, ReadTimeout,
       ReadFails, Read, ReadUndecodable, Arrives, OfferValue, Leave, StopLooks, StopMarks,
       StopSocket, StopForward, StopForwardFails, StopReturns
  <2>2. \A p \in Stoppers : Stops(p) => target[p] \in Subs
    BY DEF Stops, TargetsStarted, Started
  <2> QED BY <2>1, <2>2, ChansGrow DEF OneStops
<1> QED BY <1>1, <1>2

LEMMA PortStep == TypeOK /\ TargetsStarted /\ OneStops /\ PortKept /\ [Next]_vars => PortKept'
<1> SUFFICES ASSUME TypeOK, TargetsStarted, OneStops, PortKept, [Next]_vars PROVE PortKept'
  OBVIOUS
<1>1. ASSUME NEW p \in Stoppers, StopSocket(p) PROVE PortKept'
  <2>1. target[p] \in Started /\ Stops(p) /\ ~Unsocketed(p)
    BY <1>1 DEF StopSocket, TargetsStarted, Stops, Unsocketed
  <2>2. port = target[p]
    <3>1. ~ \E q \in Stoppers : Unsocketed(q) /\ target[q] = target[p]
      BY <2>1 DEF OneStops, Unsocketed, Stops
    <3> QED BY <2>1, <3>1 DEF PortKept
  <2>3. port' = None /\ Started' = Started /\ target' = target
    BY <1>1 DEF StopSocket, receiving, Started
  <2>4. \A q \in Stoppers : Unsocketed(q)' <=> q = p \/ Unsocketed(q)
    BY <1>1 DEF StopSocket, To, Unsocketed, TypeOK
  <2>5. ASSUME NEW s \in Started PROVE \E q \in Stoppers : Unsocketed(q)' /\ target[q] = s
    BY <2>2, <2>4, <2>5 DEF PortKept
  <2>6. None \notin Started
    BY DEF Started
  <2> QED BY ONLY <2>3, <2>5, <2>6 DEF PortKept
<1>2. ASSUME NEW s \in Subs, Listen(s) PROVE PortKept'
  <2>1. port = None /\ port' = s /\ Started' = Started \cup {s} /\ s \notin Started
    BY <1>2 DEF Listen, Started, Go, TypeOK
  <2>2. target' = target /\ \A q \in Stoppers : Unsocketed(q)' <=> Unsocketed(q)
    BY <1>2 DEF Listen, stopping, Unsocketed
  <2>3. ~ \E q \in Stoppers : Unsocketed(q) /\ target[q] = s
    BY <2>1 DEF Unsocketed, TargetsStarted
  <2>4. None \notin Started
    BY DEF Started
  <2> QED BY ONLY PortKept, <2>1, <2>2, <2>3, <2>4 DEF PortKept
<1>3. CASE /\ ~ \E p \in Stoppers : StopSocket(p)
           /\ ~ \E s \in Subs : Listen(s)
  <2> USE <1>3 DEF Next, run, Stop, vars, TypeOK, network, stopping, receiving, To, Go,
         ConnectionChanges, Produce, Take, Subscribe, SubscribeFails, ListenFails, Loop, ReadTimeout,
         ReadFails, Read, ReadUndecodable, Arrives, OfferValue, Leave, StopLooks, StopMarks, StopCloses,
         StopForward, StopForwardFails, StopReturns
  <2>1. port' = port
    OBVIOUS
  <2>2. Started' = Started
    BY DEF Started
  <2>3. \A p \in Stoppers : /\ Unsocketed(p)' <=> Unsocketed(p)
                            /\ Unsocketed(p) => target'[p] = target[p]
    BY DEF Unsocketed
  <2> QED BY ONLY PortKept, <2>1, <2>2, <2>3 DEF PortKept
<1> QED BY <1>1, <1>2, <1>3

LEMMA ReleaseStep ==
  ASSUME TypeOK, TargetsStarted, DeferredInOrder, KeptConnected, ForwardClosed, DoneSeen, [Next]_vars
  PROVE  DeferredInOrder' /\ KeptConnected' /\ ForwardClosed' /\ DoneSeen'
<1> USE DEF Next, run, Stop, vars, TypeOK, network, stopping, receiving, To,
      ConnectionChanges, Produce, Take, Subscribe, SubscribeFails, Listen, ListenFails, Loop, ReadTimeout,
      ReadFails, Read, ReadUndecodable, Arrives, OfferValue, Leave, StopLooks, StopMarks, StopCloses,
      StopSocket, StopForward, StopForwardFails, StopReturns
<1>1. DeferredInOrder'
  BY DEF DeferredInOrder, deferred, TargetsStarted, Started
<1>2. KeptConnected'
  BY DEF KeptConnected
<1>3. ForwardClosed'
  <2>1. \A s \in Started : s \in opened' => s \in opened
    BY DEF Started
  <2>2. ASSUME NEW p \in Stoppers, stop'[p] \in {"waits", "stopped"}, kept'[p]
        PROVE  /\ target'[p] = target[p] /\ target[p] \in Started /\ kept[p]
               /\ stop[p] \in {"waits", "stopped"} \/ StopForward(p)
    <3>0. stop[p] # "idle"
      <4>1. ASSUME NEW q \in Stoppers, NEW s \in Subs, StopLooks(q, s) PROVE stop[p] # "idle"
        BY ONLY <2>2, <4>1, TypeOK DEF StopLooks, To, TypeOK
      <4>2. ASSUME NEW q \in Stoppers, Stop(q) PROVE stop[p] # "idle"
        BY ONLY <2>2, <4>2, TypeOK DEF Stop, To, TypeOK, StopMarks, StopCloses, StopSocket, StopForward,
           StopForwardFails, StopReturns
      <4>3. CASE UNCHANGED stop
        BY ONLY <2>2, <4>3
      <4> QED BY <4>1, <4>2, <4>3
    <3>1. target'[p] = target[p] /\ kept[p]
      <4>1. CASE ConnectionChanges
        BY <2>2, <4>1
      <4>2. ASSUME NEW q \in Stoppers, NEW s \in Subs, StopLooks(q, s)
            PROVE  target'[p] = target[p] /\ kept[p]
        BY <2>2, <4>2
      <4>3. CASE UNCHANGED <<target, kept>>
        BY ONLY <2>2, <4>3
      <4> QED BY <4>1, <4>2, <4>3
    <3>2. stop[p] \in {"waits", "stopped"} \/ StopForward(p)
      <4>1. CASE ~ StopForward(p)
        BY <2>2, <4>1
      <4> QED BY <4>1
    <3> QED BY ONLY <3>0, <3>1, <3>2, TargetsStarted DEF TargetsStarted
  <2>3. ASSUME NEW p \in Stoppers, StopForward(p), kept[p] PROVE target[p] \notin opened'
    BY <2>3 DEF KeptConnected
  <2> QED BY ONLY ForwardClosed, <2>1, <2>2, <2>3 DEF ForwardClosed
<1>4. DoneSeen'
  <2>1. ASSUME NEW p \in Stoppers, stop'[p] \in {"stopped", "err"}
        PROVE  /\ target'[p] = target[p] /\ target[p] \in Subs
               /\ stop[p] \in {"stopped", "err"} \/ "doneCh" \in chans[target[p]]
    BY <2>1 DEF TargetsStarted, Started
  <2>2. \A s \in Subs : chans[s] \subseteq chans'[s]
    BY ChansGrow
  <2> QED BY ONLY DoneSeen, <2>1, <2>2 DEF DoneSeen
<1> QED BY <1>1, <1>2, <1>3, <1>4

-----------------------------------------------------------------------------
(* Values.                                                                  *)

LEMMA OwnStep == TypeOK /\ PacketOwn /\ OwnDatagrams /\ [Next]_vars => PacketOwn' /\ OwnDatagrams'
<1> SUFFICES ASSUME TypeOK, PacketOwn, OwnDatagrams, [Next]_vars PROVE PacketOwn' /\ OwnDatagrams'
  OBVIOUS
<1>1. PacketOwn'
  <2>1. \A s \in Subs :
          pc'[s] = "offer" => \/ pc[s] = "offer" /\ packet'[s] = packet[s]
                              \/ packet'[s].sub = s
    BY DEF Mine, Next, run, Stop, vars, TypeOK, network, stopping, receiving, Go,
     ConnectionChanges, Produce, Take, Subscribe, SubscribeFails, Listen, ListenFails, Loop, ReadTimeout,
     ReadFails, Read, ReadUndecodable, Arrives, OfferValue, Leave, StopLooks, StopMarks, StopCloses,
     StopSocket, StopForward, StopForwardFails, StopReturns
  <2> QED BY <2>1 DEF PacketOwn
<1>2. CASE \E s \in Subs : Take(s)
  <2>1. PICK s \in Subs : values[s] # <<>> /\ values' = [values EXCEPT ![s] = Tail(@)]
    BY <1>2 DEF Take
  <2>2. values[s] \in Seq(Datagrams) /\ values \in [Subs -> Seq(Datagrams)]
    BY DEF TypeOK
  <2>3. \A i \in DOMAIN Tail(values[s]) : i + 1 \in DOMAIN values[s] /\ Tail(values[s])[i] = values[s][i + 1]
    BY <2>1, <2>2
  <2> QED BY <1>1, <2>1, <2>2, <2>3 DEF OwnDatagrams
<1>3. CASE \E s \in Subs : OfferValue(s)
  <2>1. PICK s \in Subs : pc[s] = "offer" /\ values' \in {values, [values EXCEPT ![s] = Append(@, packet[s])]}
    BY <1>3 DEF OfferValue, Offer
  <2>2. values[s] \in Seq(Datagrams) /\ values \in [Subs -> Seq(Datagrams)] /\ packet[s] \in Datagrams
    BY <2>1 DEF TypeOK
  <2>3. packet[s].sub = s
    BY <2>1 DEF PacketOwn
  <2>4. \A i \in DOMAIN Append(values[s], packet[s]) :
          \/ i \in DOMAIN values[s] /\ Append(values[s], packet[s])[i] = values[s][i]
          \/ Append(values[s], packet[s])[i] = packet[s]
    BY <2>2
  <2> QED BY <1>1, <2>1, <2>2, <2>3, <2>4 DEF OwnDatagrams
<1>4. CASE values' = values
  BY <1>1, <1>4 DEF OwnDatagrams
<1>5. values' = values \/ \E s \in Subs : Take(s) \/ OfferValue(s)
  BY DEF Next, run, Stop, vars, receiving,
     ConnectionChanges, Produce, Subscribe, SubscribeFails, Listen, ListenFails, Loop, ReadTimeout,
     ReadFails, Read, ReadUndecodable, Arrives, Leave, StopLooks, StopMarks, StopCloses,
     StopSocket, StopForward, StopForwardFails, StopReturns
<1> QED BY <1>2, <1>3, <1>4, <1>5

-----------------------------------------------------------------------------
(* Theorems.                                                                *)

LEMMA Invariant == Spec => []IInv
<1>1. Init => IInv
  <2> SUFFICES ASSUME Init PROVE IInv
    OBVIOUS
  <2>1. TypeOK
    BY InitTypes
  <2>2. TargetsStarted /\ OneStops /\ PortKept
    BY DEF Init, TargetsStarted, OneStops, PortKept, Stops, Started
  <2>3. DeferredInOrder /\ KeptConnected /\ ForwardClosed /\ DoneSeen
    BY DEF Init, DeferredInOrder, KeptConnected, ForwardClosed, DoneSeen
  <2>4. PacketOwn /\ OwnDatagrams
    BY DEF Init, PacketOwn, OwnDatagrams
  <2> QED BY <2>1, <2>2, <2>3, <2>4 DEF IInv
<1>2. IInv /\ [Next]_vars => IInv'
  BY TypesStep, TargetsStep, OneStopsStep, PortStep, ReleaseStep, OwnStep DEF IInv
<1> QED BY <1>1, <1>2, PTL DEF Spec

(* The state keeps its types: a subscription has the port only while it     *)
(* runs, and its channels stay within their buffers (run, Stop).            *)
THEOREM ImplicitTypes == Spec => []TypeOK
<1>1. IInv => TypeOK
  BY DEF IInv
<1> QED BY Invariant, <1>1, PTL

(* A subscriber gets values of its own connection only, although all        *)
(* subscriptions use one port, one after the other, and datagrams come late *)
(* (run).                                                                   *)
THEOREM ValuesOwn == Spec => []OwnDatagrams
<1>1. IInv => OwnDatagrams
  BY DEF IInv
<1> QED BY Invariant, <1>1, PTL

(* When the Stop that did the stopping returns nil, both channels are       *)
(* closed, the port is not the subscription's any more and, if the client   *)
(* stayed connected, the controller's connection is closed (Stop, run).     *)
THEOREM NilReleases == Spec => []StopReleases
<1>1. IInv => StopReleases
  <2> SUFFICES ASSUME IInv, NEW p \in Stoppers, stop[p] = "stopped"
               PROVE  /\ {"values", "errs"} \subseteq chans[target[p]]
                      /\ port # target[p]
                      /\ kept[p] => target[p] \notin opened
    BY DEF StopReleases
  <2>1. target[p] \in Started /\ target[p] \in Subs
    BY DEF IInv, TargetsStarted, Started
  <2>2. {"values", "errs"} \subseteq chans[target[p]]
    BY <2>1 DEF IInv, DoneSeen, DeferredInOrder
  <2>3. port # target[p]
    BY <2>1 DEF IInv, PortKept, Unsocketed
  <2>4. kept[p] => target[p] \notin opened
    BY DEF IInv, ForwardClosed
  <2> QED BY <2>2, <2>3, <2>4
<1> QED BY Invariant, <1>1, PTL

(* Of any number of Stops on a subscription one gets past close(stopCh),    *)
(* and the socket it closes is the subscription's own: the port belongs to  *)
(* the subscription from its start to that call, and is never taken from    *)
(* one that runs (Stop, SubscribeImplicit).                                 *)
THEOREM OneStopOwnSocket == Spec => [](OneStops /\ PortKept)
<1>1. IInv => OneStops /\ PortKept
  BY DEF IInv
<1> QED BY Invariant, <1>1, PTL

=============================================================================
