-------------------------- MODULE TagSubscription ---------------------------
(***************************************************************************)
(* A subscription to tags, made by SubscribeTags (Multi) or SubscribeTag:  *)
(* a goroutine polls batches of tags and offers changed values on a        *)
(* channel without ever waiting for its reader; Stop ends it.              *)
(*                                                                         *)
(* One step is one ReadMap (or Read), one comparison and offer, or one     *)
(* operation on a channel.                                                 *)
(***************************************************************************)
EXTENDS Naturals, Sequences, FiniteSets

CONSTANTS
  Tags,
  Batches,        \* the tags in the order they are polled: a sequence of sets
  BatchesPerTick,
  Data,           \* the values a tag may have
  EmitInitial,
  ValueBuffer, ErrorBuffer,
  Multi,          \* is it SubscribeTags?
  Stoppers,       \* goroutines that call Stop
  Arrays,         \* the tags with more than one element, of a plain type
  Bits,           \* the BOOL tags that are a bit of an integer
  Structs,        \* the STRING and UDT tags
  Declared,       \* model value: the zero value the subscriber gave for a tag
  Err,            \* model value: the error ReadMap puts in place of a value
  MaxChanges      \* bound: how often tags change

(* What is read instead of v with a type that is not the declared one: of   *)
(* an array the first element, of a bit the integer it is in.               *)
Misread(v) == <<v>>

Shaped == Arrays \cup Bits \cup Structs    \* the reply alone does not tell their type

ASSUME TagSubscriptionAssumption ==
  /\ Batches # <<>>
  /\ UNION {Batches[i] : i \in DOMAIN Batches} = Tags
  /\ ~Multi => Batches = <<Tags>> /\ Cardinality(Tags) = 1 /\ BatchesPerTick = 1
  /\ BatchesPerTick \in Nat \ {0} /\ ValueBuffer \in Nat \ {0} /\ ErrorBuffer \in Nat \ {0}
  /\ EmitInitial \in BOOLEAN /\ Multi \in BOOLEAN
  /\ MaxChanges \in Nat
  /\ Declared # Err /\ {Declared, Err} \cap Data = {}
  /\ Shaped \subseteq Tags
  /\ Arrays \cap Bits = {} /\ (Arrays \cup Bits) \cap Structs = {}

VARIABLES
  plc,        \* the controller's values
  changes,
  pc,         \* the polling goroutine: run, leave, ended; or it panics, and the process ends
  left,       \* batches left in this tick
  batchIndex,
  batch,      \* the values in the maps given to ReadMap
  typed,      \* the shaped tags whose type ReadMap can tell from those values
  scan,       \* tags of the batch just read that are still to be compared
  seen, prev,
  values,     \* channel of updates
  errs,       \* number of errors in their channel
  dropped,    \* was an update not taken because the channel was full?
  closed,     \* the closed channels
  stop,       \* the goroutines that call Stop
  got         \* the last update of each tag the subscriber received

polling == <<pc, left, batchIndex, batch, typed, scan, seen, prev, errs, dropped>>
vars == <<plc, changes, polling, values, closed, stop, got>>

Init ==
  /\ plc \in [Tags -> Data]
  /\ changes = 0
  /\ pc = "run" /\ left = 0 /\ batchIndex = 1
  /\ batch = [t \in Tags |-> Declared]
  /\ typed = Shaped
  /\ scan = {} /\ seen = {}
  /\ prev = [t \in Tags |-> Declared]
  /\ values = <<>> /\ errs = 0 /\ dropped = FALSE
  /\ closed = {}
  /\ stop = [s \in Stoppers |-> "idle"]
  /\ got = [t \in Tags |-> Declared]

-----------------------------------------------------------------------------
(* The controller and the subscriber.                                       *)

Change(t) ==
  /\ changes < MaxChanges
  /\ changes' = changes + 1
  /\ \E v \in Data \ {plc[t]} : plc' = [plc EXCEPT ![t] = v]
  /\ UNCHANGED <<polling, values, closed, stop, got>>

Receive ==
  /\ pc # "panics" /\ values # <<>>
  /\ got' = [got EXCEPT ![Head(values).tag] = Head(values).value]
  /\ values' = Tail(values)
  /\ UNCHANGED <<plc, changes, polling, closed, stop>>

-----------------------------------------------------------------------------
(* The polling goroutine.  It waits for a tick or for stopCh, and looks at  *)
(* stopCh at no other place.                                                *)

Waiting == pc = "run" /\ left = 0 /\ scan = {}

Tick ==
  /\ Waiting
  /\ left' = BatchesPerTick
  /\ UNCHANGED <<plc, changes, pc, batchIndex, batch, typed, scan, seen, prev, values, errs, dropped,
                 closed, stop, got>>

(* Mutant: the same batch is read on every tick. *)
NextBatchStays == batchIndex

NextBatch == (batchIndex % Len(Batches)) + 1

ReadBatch(b) ==
  /\ pc = "run" /\ left > 0 /\ scan = {} /\ batchIndex = b
  /\ left' = left - 1
  /\ batchIndex' = NextBatch

(* What a read of t gives: ReadMap takes the type and the number of         *)
(* elements from the value in the map.                                      *)
Value(t) == IF t \in (Arrays \cup Bits) \ typed THEN Misread(plc[t]) ELSE plc[t]

(* What stands for a type no more: the []any that is read for an array, and *)
(* an error, which counts as one structure.  An integer read for a bit      *)
(* stands for an integer from then on.                                      *)
Untyped(b, bad) == IF Multi THEN (Arrays \cap Batches[b]) \cup bad ELSE {}

(* The structures of batch b whose place in the map an error has taken: a   *)
(* reply is then unpacked into the fields of the error.                     *)
Spoilt(b) == (Structs \cap Batches[b]) \ typed

(* ReadMap fills the map; a tag that could not be read has an error there.  *)
ReadSucceeds(b, bad) ==
  /\ ReadBatch(b)
  /\ Spoilt(b) \subseteq bad
  /\ batch' = [t \in Tags |-> IF t \in bad THEN Err
                              ELSE IF t \in Batches[b] THEN Value(t) ELSE batch[t]]
  /\ typed' = typed \ Untyped(b, bad)
  /\ scan' = Batches[b]
  /\ UNCHANGED <<plc, changes, pc, seen, prev, values, errs, dropped, closed, stop, got>>

(* The error's field is not exported, so setting it panics.  A reply that   *)
(* is too short for a string, or does not begin with the length of one,     *)
(* fails the batch instead (ReadFails).                                     *)
ReadPanics(b) ==
  /\ ReadBatch(b)
  /\ Spoilt(b) # {}
  /\ pc' = "panics"
  /\ UNCHANGED <<plc, changes, batch, typed, scan, seen, prev, values, errs, dropped, closed, stop, got>>

(* ReadMap returns without an error, and without reading, while another     *)
(* goroutine reconnects.                                                    *)
ReadSkipped(b) ==
  /\ Multi
  /\ ReadBatch(b)
  /\ scan' = Batches[b]
  /\ UNCHANGED <<plc, changes, pc, batch, typed, seen, prev, values, errs, dropped, closed, stop, got>>

ReadFails(b) ==
  /\ ReadBatch(b)
  /\ errs' = IF errs < ErrorBuffer THEN errs + 1 ELSE errs
  /\ UNCHANGED <<plc, changes, pc, batch, typed, scan, seen, prev, values, dropped, closed, stop, got>>

(* Mutant: an update waits for room in the channel. *)
OfferWaits(t) ==
  /\ Len(values) < ValueBuffer
  /\ values' = Append(values, [tag |-> t, value |-> batch[t]])
  /\ UNCHANGED dropped

Offer(t) ==
  IF Len(values) < ValueBuffer
  THEN values' = Append(values, [tag |-> t, value |-> batch[t]]) /\ UNCHANGED dropped
  ELSE dropped' = TRUE /\ UNCHANGED values

(* A tag's first value is remembered, and so is every other than the last   *)
(* one, whether the channel takes it or not.                                *)
Compare(t) ==
  /\ pc = "run" /\ t \in scan
  /\ scan' = scan \ {t}
  /\ seen' = seen \cup {t}
  /\ prev' = [prev EXCEPT ![t] = batch[t]]
  /\ IF (t \notin seen /\ EmitInitial) \/ (t \in seen /\ batch[t] # prev[t])
     THEN Offer(t)
     ELSE UNCHANGED <<values, dropped>>
  /\ UNCHANGED <<plc, changes, pc, left, batchIndex, batch, typed, errs, closed, stop, got>>

Leave ==
  /\ Waiting /\ "stopCh" \in closed
  /\ pc' = "leave"
  /\ UNCHANGED <<plc, changes, left, batchIndex, batch, typed, scan, seen, prev, values, errs, dropped,
                 closed, stop, got>>

(* The deferred calls run last first. *)
deferred == <<"doneCh", "errs", "values">>

CloseNext ==
  /\ pc = "leave"
  /\ \E i \in DOMAIN deferred :
       /\ deferred[i] \notin closed
       /\ \A j \in 1..(i - 1) : deferred[j] \in closed
       /\ closed' = closed \cup {deferred[i]}
       /\ pc' = IF i = Len(deferred) THEN "ended" ELSE pc
  /\ UNCHANGED <<plc, changes, left, batchIndex, batch, typed, scan, seen, prev, values, errs, dropped,
                 stop, got>>

-----------------------------------------------------------------------------
(* Stop: unless stopCh is closed, close it; then wait for doneCh.           *)

StopLooks(s) ==
  /\ pc # "panics" /\ stop[s] = "idle"
  /\ stop' = [stop EXCEPT ![s] = IF "stopCh" \in closed THEN "waits" ELSE "closes"]
  /\ UNCHANGED <<plc, changes, polling, values, closed, got>>

StopCloses(s) ==
  /\ pc # "panics" /\ stop[s] = "closes"
  /\ stop' = [stop EXCEPT ![s] = IF "stopCh" \in closed THEN "panics" ELSE "waits"]
  /\ closed' = closed \cup {"stopCh"}
  /\ UNCHANGED <<plc, changes, polling, values, got>>

StopReturns(s) ==
  /\ pc # "panics" /\ stop[s] = "waits" /\ "doneCh" \in closed
  /\ stop' = [stop EXCEPT ![s] = "returned"]
  /\ UNCHANGED <<plc, changes, polling, values, closed, got>>

-----------------------------------------------------------------------------
run ==
  \/ Tick \/ Leave \/ CloseNext
  \/ \E t \in Tags : Compare(t)
  \/ \E b \in DOMAIN Batches :
       \/ ReadSkipped(b) \/ ReadFails(b) \/ ReadPanics(b)
       \/ \E bad \in SUBSET (IF Multi THEN Batches[b] ELSE {}) : ReadSucceeds(b, bad)

Stop(s) == StopLooks(s) \/ StopCloses(s) \/ StopReturns(s)

Next ==
  \/ run \/ Receive
  \/ \E t \in Tags : Change(t)
  \/ \E s \in Stoppers : Stop(s)

Spec == Init /\ [][Next]_vars

(* The goroutine runs, and select, which chooses at random, takes stopCh in *)
(* the end; a Stop that was called goes on.  No reader is assumed.          *)
FairSpec ==
  /\ Spec
  /\ WF_vars(run) /\ SF_vars(Leave)
  /\ \A s \in Stoppers : WF_vars(StopCloses(s)) /\ WF_vars(StopReturns(s))

-----------------------------------------------------------------------------
(* Properties.                                                              *)

Known == Data \cup {Misread(v) : v \in Data} \cup {Declared, Err}

(* Channels stay within their buffers and the next batch is one there is    *)
(* (the poll loops of tag_subscribe.go).                                    *)
TypeOK ==
  /\ plc \in [Tags -> Data] /\ changes \in 0..MaxChanges
  /\ pc \in {"run", "leave", "ended", "panics"}
  /\ left \in 0..BatchesPerTick /\ batchIndex \in DOMAIN Batches
  /\ batch \in [Tags -> Known] /\ prev \in [Tags -> Known] /\ got \in [Tags -> Known]
  /\ typed \subseteq Shaped /\ scan \subseteq Tags /\ seen \subseteq Tags
  /\ values \in Seq([tag : Tags, value : Known]) /\ Len(values) <= ValueBuffer
  /\ errs \in 0..ErrorBuffer /\ dropped \in BOOLEAN
  /\ closed \subseteq {"stopCh", "doneCh", "errs", "values"}
  /\ stop \in [Stoppers -> {"idle", "closes", "waits", "returned", "panics"}]

(* Stop returns, whether or not anyone reads the channels and whatever the  *)
(* reads do, unless one panics.                                             *)
StopEnds ==
  \A s \in Stoppers : stop[s] = "closes" ~> stop[s] \in {"returned", "panics"} \/ pc = "panics"

(* A tag whose type is lost, or that is read with one whose type is lost.   *)
Astray(t) ==
  \/ t \in Shaped \ typed
  \/ \E b \in DOMAIN Batches : t \in Batches[b] /\ Spoilt(b) # {}

(* If the subscriber receives and the network does not fail a batch for     *)
(* ever, then the subscriber gets to the current value of every tag, of     *)
(* every batch, after failed, partly failed and skipped reads: unless an    *)
(* update had to be dropped, a read panicked, or the type of the tag or of  *)
(* a structure in its batch was lost with the value that stood for it.      *)
(* Numbers that are no array keep their type whatever the reads do.         *)
UpdatesArrive ==
  EmitInitial /\ WF_vars(Receive) /\ (\A b \in DOMAIN Batches : SF_vars(ReadSucceeds(b, {})))
    => \A t \in Tags :
         []<>(dropped \/ "stopCh" \in closed \/ pc = "panics" \/ Astray(t) \/ got[t] = plc[t])

(* Properties that documentation and comments claim and the code breaks.    *)

(* tag_subscribe.go:129 "emitted on change": a changed value that the       *)
(* goroutine noticed is among those the subscriber received or can receive. *)
ChangesEmitted ==
  \A t \in Tags : t \in seen /\ EmitInitial =>
    got[t] = prev[t] \/ \E i \in DOMAIN values : values[i] = [tag |-> t, value |-> prev[t]]

(* tag_subscribe.go:104 "EmitInitial controls whether first successful read *)
(* of each tag emits an update": what is emitted first was read.            *)
InitialWasRead == \A i \in DOMAIN values : values[i].value # Declared

(* tag_subscribe.go:246 "Stop stops the background multi-tag poll loop and  *)
(* closes channels": they are closed when Stop returns.                     *)
ClosedOnReturn ==
  \A s \in Stoppers : stop[s] = "returned" => {"errs", "values"} \subseteq closed

(* tag_subscribe.go:250 "already stopped": stopping twice is harmless.      *)
StopIsIdempotent == \A s \in Stoppers : stop[s] # "panics"

(* tag_subscribe.go:87 "values are typed zero-values (or pre-allocated       *)
(* slices) used by ReadMap to infer CIP decoding types": arrays are read    *)
(* with the length of the slice that was given, and bits as the BOOLs.      *)
ReadAsDeclared == \A i \in DOMAIN values : \A v \in Data : values[i].value # Misread(v)

(* tag_subscribe.go:116 "streams per-tag updates and non-fatal read errors".*)
ErrorsNotFatal == pc # "panics"

=============================================================================
