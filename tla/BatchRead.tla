----------------------------- MODULE BatchRead ------------------------------
(***************************************************************************)
(* One call of ReadMap, ReadMapFrag or ReadMapByInstance: the tags of a    *)
(* map are packed into MultipleService requests that fit the connection;   *)
(* each request is repeated for the tags the controller answered only in   *)
(* part; and the values are put into the map when every tag was answered.  *)
(*                                                                         *)
(* A tag is its position in the order in which the map is walked, and the  *)
(* lists of positions the code keeps, which are in that order, are sets.   *)
(* Sizes are in bytes, those of the source.  Data is the span of a tag's   *)
(* bytes it came from.  What the exchange of one message goes through is   *)
(* the module Client's: here a round is answered or fails.                 *)
(***************************************************************************)
EXTENDS Naturals, Sequences, FiniteSets

CONSTANTS
  N,              \* the number of keys of the map
  Descs,          \* what a tag may be like, see TagDesc
  ConnectionSize, \* the agreed size of a message
  MaxRounds,      \* bound on the rounds of a request, 1024 in the code
  Cuts            \* bound: the sizes of the parts the controller sends

(* path: bytes of the request path; size: bytes of the tag's value;         *)
(* declared: bytes of the Go value in the map; frag: is it a struct or of   *)
(* more than one element?                                                   *)
TagDesc == [path : Nat, size : Nat \ {0}, declared : Nat, frag : BOOLEAN]

ASSUME BatchReadAssumption ==
  /\ N \in Nat
  /\ Descs \subseteq TagDesc
  /\ ConnectionSize \in Nat /\ MaxRounds \in Nat
  /\ Cuts \subseteq Nat \ {0}

Tags == 1..N

VARIABLES
  pc,       \* where the call is
  byInstance, \* is it ReadMapByInstance?
  desc,     \* the tags, as the map and the controller have them
  todo,     \* tags not yet requested
  batch,    \* selectedOrig: the tags of the current request
  pending,  \* those of them still to be answered
  offset,   \* bytes received of each
  chunk,    \* spans received of each
  status,   \* status of the last answer to each
  rounds,
  result,   \* resultValues
  m         \* the caller's map

vars == <<pc, byInstance, desc, todo, batch, pending, offset, chunk, status, rounds, result, m>>

Unread == [is |-> "unread", spans |-> <<>>]   \* what the caller put into the map
Err == [is |-> "error", spans |-> <<>>]       \* an error in place of a value

Init ==
  /\ pc = "start"
  /\ byInstance \in BOOLEAN
  /\ desc \in [Tags -> Descs]
  /\ todo = Tags
  /\ batch = {} /\ pending = {}
  /\ offset = [t \in Tags |-> 0] /\ chunk = [t \in Tags |-> <<>>]
  /\ status = [t \in Tags |-> "ok"]
  /\ rounds = 0
  /\ result = [t \in Tags |-> Unread]
  /\ m = [t \in Tags |-> Unread]

-----------------------------------------------------------------------------
(* Sizes of messages.                                                       *)

(* The weight of the tags of S together. *)
Total(w, S) ==
  LET upto[n \in 0..N] == IF n = 0 THEN 0 ELSE upto[n - 1] + (IF n \in S THEN w[n] ELSE 0)
  IN  upto[N]

estimateMultiReadRequestOverhead(n) == 30 + 2 * n

estimateMultiReadReplyOverhead(n) == 28 + 2 * n

estimateTagResponseSize == [t \in Tags |-> 6 + desc[t].declared]

readServiceForTag(t) ==
  IF \/ desc[t].frag
     \/ estimateMultiReadReplyOverhead(1) + estimateTagResponseSize[t] >= ConnectionSize
  THEN "FragRead" ELSE "Read"

RequestItem ==
  [t \in Tags |-> 2 + desc[t].path + IF readServiceForTag(t) = "FragRead" THEN 6 ELSE 2]

RequestSize(S) ==
  estimateMultiReadRequestOverhead(Cardinality(S)) + Total(RequestItem, S)

EstimatedReply(S) ==
  estimateMultiReadReplyOverhead(Cardinality(S)) + Total(estimateTagResponseSize, S)

(* Mutant: the reply's size is not estimated. *)
FitsRequestOnly(S) == RequestSize(S) < ConnectionSize

Fits(S) == RequestSize(S) < ConnectionSize /\ EstimatedReply(S) < ConnectionSize

(* Is sel what a pass over the tags takes that takes each that still fits?  *)
Packed(sel) == \A t \in todo : t \in sel <=> Fits({u \in sel : u < t} \cup {t})

(* Mutant: a tag that fits no message is never chosen. *)
selectOnlyFitting(sel) == Packed(sel)

(* The tags such a pass takes; if it takes none, the first. *)
selectPackedTagIndexes(sel) ==
  \/ sel # {} /\ Packed(sel)
  \/ Packed({}) /\ \E t \in todo : sel = {t} /\ \A u \in todo : t <= u

-----------------------------------------------------------------------------
(* checkConnection: connected, or connected again; failed; or another       *)
(* goroutine is connecting, which the reads by name take for success.       *)
Start ==
  /\ pc = "start"
  /\ pc' \in {"select", "failed"} \cup (IF byInstance THEN {} ELSE {"skipped"})
  /\ UNCHANGED <<byInstance, desc, todo, batch, pending, offset, chunk, status, rounds, result, m>>

selectPackedTagBatch ==
  /\ pc = "select" /\ todo # {}
  /\ \E sel \in SUBSET todo :
       /\ selectPackedTagIndexes(sel)
       /\ batch' = sel /\ pending' = sel
       /\ todo' = todo \ sel
  /\ offset' = [t \in Tags |-> 0]
  /\ chunk' = [t \in Tags |-> <<>>]
  /\ status' = [t \in Tags |-> "ok"]
  /\ rounds' = 0
  /\ pc' = "round"
  /\ UNCHANGED <<byInstance, desc, result, m>>

(* Where in the round's request a pending tag is. *)
Place(t) == Cardinality({u \in pending : u <= t})

(* The controller's answers to a tag from its offset on: an error, the      *)
(* rest, or a part of it.                                                   *)
Answers(t) ==
  {[status |-> "error", upto |-> offset[t]], [status |-> "ok", upto |-> desc[t].size]}
  \cup {[status |-> "partial", upto |-> offset[t] + n] : n \in {k \in Cuts : offset[t] + k < desc[t].size}}

ReplyItem == [t \in Tags |-> 6 + desc[t].size - offset[t]]

(* The reply is filled in order.  All is sent if it fits a message, and     *)
(* something is not if it does not.                                         *)
Controller(reply) ==
  LET Sent(S) == 28 + 2 * Cardinality(pending) + Total(ReplyItem, S) <= ConnectionSize
  IN  /\ \A t \in pending : reply[Place(t)] \in Answers(t)
      /\ \A t \in pending : Sent({u \in pending : u <= t}) => reply[Place(t)].status # "partial"
      /\ Sent(pending) \/ \E t \in pending : reply[Place(t)].status # "ok"

(* Mutant: every tag is given the round's first answer. *)
FirstAnswer(t) == 1

(* Which of the round's answers the tag is given. *)
AnswerOf(t) == Place(t)

RoundsLeft == rounds <= MaxRounds

(* A request for the pending tags, each from its offset, and its answers.   *)
(* Data is kept only of a tag that was answered in full.                    *)
readListFragRound ==
  /\ pc = "round" /\ pending # {} /\ RoundsLeft
  /\ \E reply \in [1..Cardinality(pending) -> UNION {Answers(t) : t \in pending}] :
       LET Kept(t) == t \in pending /\ reply[AnswerOf(t)].status = "ok"
           Span(t) == [tag |-> t, from |-> offset[t], upto |-> reply[AnswerOf(t)].upto]
       IN /\ Controller(reply)
          /\ status' = [t \in Tags |-> IF t \in pending THEN reply[AnswerOf(t)].status ELSE status[t]]
          /\ chunk' = [t \in Tags |-> IF Kept(t) THEN Append(chunk[t], Span(t)) ELSE chunk[t]]
          /\ offset' = [t \in Tags |-> IF Kept(t) THEN reply[AnswerOf(t)].upto ELSE offset[t]]
          /\ pending' = {t \in pending : reply[AnswerOf(t)].status = "partial"}
  /\ rounds' = rounds + 1
  /\ UNCHANGED <<pc, byInstance, desc, todo, batch, result, m>>

(* The exchange fails, or its answer cannot be parsed. *)
RoundFails ==
  /\ pc = "round" /\ pending # {} /\ RoundsLeft
  /\ pc' = "failed"
  /\ UNCHANGED <<byInstance, desc, todo, batch, pending, offset, chunk, status, rounds, result, m>>

TooManyRounds ==
  /\ pc = "round" /\ pending # {} /\ ~RoundsLeft
  /\ pc' = "exceeded"
  /\ UNCHANGED <<byInstance, desc, todo, batch, pending, offset, chunk, status, rounds, result, m>>

(* The batch is answered.  A tag whose data does not decode is an error in  *)
(* its place; or, by instance, of the whole call.                           *)
decodeReadTagValue ==
  /\ pc = "round" /\ pending = {}
  /\ \E bad \in SUBSET {t \in batch : status[t] = "ok"} :
       \/ /\ byInstance /\ bad # {}
          /\ pc' = "failed"
          /\ UNCHANGED result
       \/ /\ byInstance => bad = {}
          /\ pc' = "select"
          /\ result' = [t \in Tags |->
               IF t \notin batch THEN result[t]
               ELSE IF status[t] # "ok" \/ t \in bad THEN Err
               ELSE [is |-> "value", spans |-> chunk[t]]]
  /\ UNCHANGED <<byInstance, desc, todo, batch, pending, offset, chunk, status, rounds, m>>

(* Every tag is answered: the caller's map is filled. *)
Finish ==
  /\ pc = "select" /\ todo = {}
  /\ m' = result
  /\ pc' = "done"
  /\ UNCHANGED <<byInstance, desc, todo, batch, pending, offset, chunk, status, rounds, result>>

-----------------------------------------------------------------------------
Call ==
  \/ Start \/ selectPackedTagBatch \/ readListFragRound \/ RoundFails \/ TooManyRounds
  \/ decodeReadTagValue \/ Finish

Returned == pc \in {"done", "skipped", "failed", "exceeded"}

Next == Call \/ (Returned /\ UNCHANGED vars)

Spec == Init /\ [][Next]_vars

(* The calling goroutine runs, and every exchange ends: it has a timeout.   *)
FairSpec == Spec /\ WF_vars(Call)

-----------------------------------------------------------------------------
(* Properties.                                                              *)

Span == [tag : Tags, from : Nat, upto : Nat]
Value == [is : {"unread", "error", "value"}, spans : Seq(Span)]

(* The tags asked again are of the current request, and rounds stay within  *)
(* their bound (readListFragAll).                                           *)
TypeOK ==
  /\ pc \in {"start", "select", "round", "done", "skipped", "failed", "exceeded"}
  /\ byInstance \in BOOLEAN
  /\ desc \in [Tags -> Descs]
  /\ todo \subseteq Tags /\ batch \subseteq Tags /\ pending \subseteq batch
  /\ offset \in [Tags -> Nat]
  /\ chunk \in [Tags -> Seq(Span)]
  /\ status \in [Tags -> {"ok", "partial", "error"}]
  /\ rounds \in 0..(MaxRounds + 1)
  /\ result \in [Tags -> Value] /\ m \in [Tags -> Value]

(* Spans that are a tag's value: its own bytes, each of them once, in order. *)
Whole(t, spans) ==
  /\ spans # <<>>
  /\ spans[1].from = 0
  /\ spans[Len(spans)].upto = desc[t].size
  /\ \A k \in DOMAIN spans : spans[k].tag = t
  /\ \A k \in 1..(Len(spans) - 1) : spans[k].upto = spans[k + 1].from

(* A call that returns what it read has, for each key of the map, an error  *)
(* or the whole value of that tag: however the tags were packed, whatever   *)
(* was answered in part and asked again, no tag is forgotten, mixed up with *)
(* another, or cut short.                                                   *)
OwnWholeValues ==
  pc = "done" => \A t \in Tags : m[t] = Err \/ (m[t] # Unread /\ Whole(t, m[t].spans))

(* A request for several tags fits a message, and so does the reply if the  *)
(* Go values are as large as the tags.                                      *)
RequestsFit ==
  pc = "round" /\ Cardinality(batch) > 1 =>
    /\ RequestSize(batch) < ConnectionSize
    /\ (\A t \in batch : desc[t].declared >= desc[t].size) =>
         \A t \in batch : status[t] # "partial"

(* Every call returns, also if a tag is larger than any message.            *)
Returns == <>Returned

(* Properties that documentation and comments claim and the code breaks.    *)

(* read.go:1423-1426 "automatic continuation offsets to fetch large         *)
(* payloads reliably" ... "handles partial transfers transparently".        *)
PartialTransfersHandled == pc # "exceeded"

(* read.go:1317 "After the function completes successfully, the map values  *)
(* are updated with the current PLC values": a call without an error fills  *)
(* the map.                                                                 *)
SuccessFillsMap == pc \in {"done", "skipped"} => \A t \in Tags : m[t] # Unread

=============================================================================
