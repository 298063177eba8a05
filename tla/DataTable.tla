----------------------------- MODULE DataTable ------------------------------
(***************************************************************************)
(* A DataTableBuffer: tags are listed in the client, sent to a buffer in   *)
(* the controller in batches, and read back as one string of bytes that    *)
(* says nothing of the tags.  What belongs to whom is known from the       *)
(* client's list alone.                                                    *)
(*                                                                         *)
(* The type is not safe for concurrent use, so one step is one call.  A    *)
(* tag stands for its name, type and IOI (of less than 512 bytes: its      *)
(* words are counted in a byte); a byte stands for whose it is.            *)
(***************************************************************************)
EXTENDS Naturals, Sequences, FiniteSets, SequencesExt

CONSTANTS
  Tags,
  Size,            \* DataTypeSize of each tag
  Undecoded,       \* tags whose bytes do not decode or do not fit their Var
  CountSize,       \* tags are counted in a request modulo this: 256
  Renumbers,       \* does the controller renumber its tags when one is removed?
  AddAfterRemove,  \* does the caller add tags after removing one?
  MaxTags,         \* bound: tags in the list
  MaxBatches,      \* bound: batches sent
  MaxLost          \* bound: exchanges that fail after the controller has acted

ASSUME DataTableAssumption ==
  /\ IsFiniteSet(Tags)
  /\ Size \in [Tags -> Nat \ {0}]
  /\ Undecoded \subseteq Tags
  /\ CountSize \in Nat \ {0}
  /\ Renumbers \in BOOLEAN /\ AddAfterRemove \in BOOLEAN
  /\ MaxTags \in Nat /\ MaxBatches \in Nat /\ MaxLost \in Nat

VARIABLES
  created, synched,
  tags,         \* DataTableBufferTag: name, index, batchID, synched
  expansions,   \* the tags AddTagGroup recorded
  allocated,    \* does the controller's buffer exist?
  buffer,       \* its tags, in the order it sends them: name, index, batch
  indexes,      \* tags the controller has numbered
  batches,      \* batches it has numbered
  removed,      \* has the caller asked to remove a tag?
  lost,         \* exchanges of which the controller's reply was lost
  result,       \* what the last read returned; the values of one that failed
                \* are those it had put into the tags' Vars by then
  closing       \* what the last Close returned

list == <<created, synched, tags, expansions>>
controller == <<allocated, buffer, indexes, batches>>
vars == <<list, controller, removed, lost, result, closing>>

(* The elements of s at the positions S, in their order. *)
Selected(s, S) ==
  LET upto[n \in 0..Len(s)] ==
        IF n = 0 THEN <<>> ELSE IF n \in S THEN Append(upto[n - 1], s[n]) ELSE upto[n - 1]
  IN  upto[Len(s)]

Result(status, values) == [status |-> status, values |-> values]

(* NewDataTableBuffer succeeded. *)
Init ==
  /\ created = TRUE /\ synched = FALSE
  /\ tags = <<>> /\ expansions = {}
  /\ allocated = TRUE
  /\ buffer = <<>> /\ indexes = 0 /\ batches = 0
  /\ removed = FALSE /\ lost = 0
  /\ result = Result("none", <<>>) /\ closing = "none"

-----------------------------------------------------------------------------
(* AddTag and its relatives only change the list.                           *)

(* Mutant: indexes start at 0. *)
FirstIndexZero == Len(tags)

FirstIndex == Len(tags) + 1

Extend(names) ==
  /\ created
  /\ Len(tags) + Len(names) <= MaxTags
  /\ removed => AddAfterRemove
  /\ tags' = tags \o [i \in DOMAIN names |->
                        [name |-> names[i], index |-> FirstIndex + i - 1, batchID |-> 0, synched |-> FALSE]]
  /\ synched' = FALSE

AddTag(t) ==
  /\ Extend(<<t>>)
  /\ UNCHANGED <<created, expansions, controller, removed, lost, result, closing>>

(* The map is walked in any order. *)
AddTags(S) ==
  /\ \E names \in SetToSeqs(S) : Extend(names)
  /\ UNCHANGED <<created, expansions, controller, removed, lost, result, closing>>

AddTagGroup(S) ==
  /\ \E names \in SetToSeqs(S) : Extend(names)
  /\ expansions' = expansions \union S
  /\ UNCHANGED <<created, controller, removed, lost, result, closing>>

(* A name of the group makes no IOI: AddTags fails before it appends. *)
AddTagGroupFails(S) ==
  /\ created
  /\ expansions' = expansions \union S
  /\ UNCHANGED <<created, synched, tags, controller, removed, lost, result, closing>>

-----------------------------------------------------------------------------
(* SyncTags.  The controller numbers every request and every tag in it.     *)

(* Mutant: every tag is sent. *)
UnsentAll == tags

Unsent == Selected(tags, {i \in DOMAIN tags : ~tags[i].synched})

(* The request has all of them, and their number modulo CountSize: the      *)
(* controller takes so many.                                                *)
Sent == SubSeq(Unsent, 1, Len(Unsent) % CountSize)

Stored ==
  [i \in DOMAIN Sent |-> [name |-> Sent[i].name, index |-> indexes + i, batch |-> batches + 1]]

Store ==
  /\ allocated /\ batches < MaxBatches
  /\ buffer' = buffer \o Stored
  /\ indexes' = indexes + Len(Sent)
  /\ batches' = batches + 1
  /\ UNCHANGED allocated

(* Mutant: the tags get the number of the batch before theirs. *)
MarkedStale ==
  [i \in DOMAIN tags |->
     IF tags[i].synched THEN tags[i] ELSE [tags[i] EXCEPT !.batchID = batches, !.synched = TRUE]]

Marked ==
  [i \in DOMAIN tags |->
     IF tags[i].synched THEN tags[i]
     ELSE [tags[i] EXCEPT !.batchID = batches + 1, !.synched = TRUE]]

Sync ==
  /\ Store
  /\ tags' = Marked
  /\ synched' = TRUE
  /\ UNCHANGED <<created, expansions>>

(* Also a ReadAll that fails after it has synched. *)
SyncTags ==
  /\ Sync
  /\ UNCHANGED <<removed, lost, result, closing>>

(* The controller acted, and the reply was lost. *)
SyncTagsFails ==
  /\ lost < MaxLost
  /\ lost' = lost + 1
  /\ Store
  /\ UNCHANGED <<list, removed, result, closing>>

-----------------------------------------------------------------------------
(* ReadAll, ReadAllRaw.                                                     *)

(* The two bytes before each batch after a, up to b. *)
Headers(a, b) == [k \in 1..(2 * (b - a)) |-> <<a + (k + 1) \div 2, k % 2>>]

Bytes(t) == [k \in 1..Size[t] |-> <<t, k>>]

(* The batch of the tag before the n-th. *)
Before(es, n) == IF n = 1 THEN 0 ELSE es[n - 1].batch

(* The controller's answer has a header for every request it was sent, in   *)
(* their order, and after it what is left of the request's tags.            *)
Entry(es, n) == Headers(Before(es, n), es[n].batch) \o Bytes(es[n].name)

Response(es, last) ==
  LET upto[n \in 0..Len(es)] == IF n = 0 THEN <<>> ELSE upto[n - 1] \o Entry(es, n)
  IN  upto[Len(es)] \o Headers(Before(es, Len(es) + 1), last)

(* Mutant: a header is taken to stand before every tag. *)
ValueStartAlways(at, t) == at.pos + 2

ValueStart(at, t) == IF t.batchID = at.batch THEN at.pos ELSE at.pos + 2

(* decodeDataTableValue, and setGoVar when the tag has a Var.  ReadAllRaw    *)
(* calls neither.                                                           *)
Decodes(t, raw) == raw \/ t \notin Undecoded

(* A tag takes its bytes off the data, if there are as many and it can use  *)
(* them.                                                                    *)
Take(at, t, data, raw) ==
  LET start == ValueStart(at, t)
      end == start + Size[t.name]
  IN IF ~at.ok \/ end > Len(data) \/ ~Decodes(t.name, raw) THEN [at EXCEPT !.ok = FALSE]
     ELSE [ok |-> TRUE, pos |-> end, batch |-> t.batchID,
           map |-> [n \in DOMAIN at.map \cup {t.name} |->
                      IF n = t.name THEN SubSeq(data, start + 1, end) ELSE at.map[n]]]

(* Where tag i is in the order of the indexes. *)
Rank(ts, i) ==
  Cardinality({j \in DOMAIN ts : ts[j].index < ts[i].index \/ (ts[j].index = ts[i].index /\ j <= i)})

Sorted(ts) == [k \in DOMAIN ts |-> ts[CHOOSE i \in DOMAIN ts : Rank(ts, i) = k]]

Parse(ts, data, raw) ==
  LET upto[n \in 0..Len(ts)] ==
        IF n = 0 THEN [ok |-> TRUE, pos |-> 0, batch |-> 0, map |-> <<>>]
        ELSE Take(upto[n - 1], Sorted(ts)[n], data, raw)
      end == upto[Len(ts)]
  IN Result(IF end.ok THEN "read" ELSE "error", end.map)

Read(raw) ==
  /\ created /\ tags # <<>>
  /\ IF synched THEN UNCHANGED <<list, controller>> ELSE Sync
  /\ result' = Parse(tags', Response(buffer', batches'), raw)
  /\ UNCHANGED <<removed, lost, closing>>

ReadAll == Read(FALSE)

ReadAllRaw == Read(TRUE)

(* The error ReadAllTyped adds to those of ReadAll. *)
ReadAllTypedFails == result.status = "read" /\ ~(expansions \subseteq DOMAIN result.values)

-----------------------------------------------------------------------------
(* RemoveTag, Close.                                                        *)

(* How the controller numbers its tags, and where number n is. *)
NumberOf(i) == IF Renumbers THEN i ELSE buffer[i].index
Numbered(n) == {i \in DOMAIN buffer : NumberOf(i) = n}

Listed(t) == {i \in DOMAIN tags : tags[i].name = t}

IsFirst(i, S) == i \in S /\ \A j \in S : i <= j

(* The first t in the list is the i-th, and the controller finds its index  *)
(* at n.                                                                    *)
Finds(t, i, n) == IsFirst(i, Listed(t)) /\ IsFirst(n, Numbered(tags[i].index))

RemoveTag(t) ==
  /\ created
  /\ \E i \in DOMAIN tags : \E n \in DOMAIN buffer :
       /\ Finds(t, i, n)
       /\ buffer' = RemoveAt(buffer, n)
       /\ tags' = RemoveAt(tags, i)
  /\ removed' = TRUE
  /\ UNCHANGED <<created, synched, expansions, allocated, indexes, batches, lost, result, closing>>

RemoveTagFails(t) ==
  /\ lost < MaxLost
  /\ lost' = lost + 1
  /\ created
  /\ \E i \in DOMAIN tags : \E n \in DOMAIN buffer :
       /\ Finds(t, i, n)
       /\ buffer' = RemoveAt(buffer, n)
  /\ removed' = TRUE
  /\ UNCHANGED <<list, allocated, indexes, batches, result, closing>>

Close ==
  /\ closing' = "ok"
  /\ created' = FALSE
  /\ allocated' = IF created THEN FALSE ELSE allocated
  /\ buffer' = IF created THEN <<>> ELSE buffer
  /\ UNCHANGED <<synched, tags, expansions, indexes, batches, removed, lost, result>>

CloseFails ==
  /\ created
  /\ closing' = "error"
  /\ created' = FALSE
  /\ UNCHANGED <<synched, tags, expansions, controller, removed, lost, result>>

Next ==
  \/ \E t \in Tags : AddTag(t) \/ RemoveTag(t) \/ RemoveTagFails(t)
  \/ \E S \in SUBSET Tags \ {{}} : AddTags(S) \/ AddTagGroup(S) \/ AddTagGroupFails(S)
  \/ SyncTags \/ SyncTagsFails
  \/ ReadAll \/ ReadAllRaw
  \/ Close \/ CloseFails

Spec == Init /\ [][Next]_vars

-----------------------------------------------------------------------------
(* Properties.                                                              *)

TagEntry == [name : Tags, index : Nat, batchID : Nat, synched : BOOLEAN]
BufferEntry == [name : Tags, index : Nat, batch : Nat]

(* A synched tag has the number of a batch the controller has seen, and a  *)
(* list that counts as synched has no other tags.                           *)
TypeOK ==
  /\ created \in BOOLEAN /\ synched \in BOOLEAN /\ removed \in BOOLEAN /\ allocated \in BOOLEAN
  /\ expansions \subseteq Tags
  /\ tags \in Seq(TagEntry) /\ Len(tags) <= MaxTags
  /\ buffer \in Seq(BufferEntry)
  /\ indexes \in Nat /\ batches \in 0..MaxBatches /\ lost \in 0..MaxLost
  /\ result.status \in {"none", "read", "error"} /\ closing \in {"none", "ok", "error"}
  /\ \A i \in DOMAIN tags :
       /\ tags[i].batchID \in 0..batches
       /\ tags[i].synched <=> tags[i].batchID > 0
       /\ synched => tags[i].synched
  /\ \A i \in DOMAIN buffer : buffer[i].batch \in 1..batches /\ buffer[i].index \in 1..indexes

(* The part of the list that has been synched. *)
Known == Selected(tags, {i \in DOMAIN tags : tags[i].synched})

(* Unless a reply was lost or a tag was added after one was removed, the     *)
(* controller's buffer is the synched part of the client's list: the same   *)
(* tags in the same order, with the same indexes and batches.  ReadAll and  *)
(* RemoveTag have nothing else to go by.                                    *)
BufferMatches ==
  created /\ lost = 0 =>
    buffer = [i \in DOMAIN Known |->
                [name |-> Known[i].name, index |-> Known[i].index, batch |-> Known[i].batchID]]

(* The part of the buffer that is of batches the list knows. *)
Held ==
  LET numbers == {Known[i].batchID : i \in DOMAIN Known}
  IN  Selected(buffer, {i \in DOMAIN buffer : buffer[i].batch \in numbers})

(* When replies are lost, tags are sent again and the controller keeps more *)
(* of them than the list has; but as long as none is removed the batches    *)
(* the list knows are there whole and in its order.                         *)
BatchesHeld ==
  created /\ ~removed =>
    /\ Len(Held) = Len(Known)
    /\ \A i \in DOMAIN Known : Held[i].name = Known[i].name /\ Held[i].batch = Known[i].batchID

(* The tags of the buffer are of the first batches, each of which has some: *)
(* none was emptied by RemoveTag, or sent empty, and is followed by others. *)
NoBatchEmptied ==
  \A i \in DOMAIN buffer : buffer[i].batch \in {Before(buffer, i), Before(buffer, i) + 1}

(* What a read should give: to each tag its own bytes; all of them, unless  *)
(* one could not be decoded or stored.                                      *)
ReadsOwn(raw) ==
  /\ \A t \in DOMAIN result'.values : result'.values[t] = Bytes(t)
  /\ IF \A i \in DOMAIN tags : Decodes(tags[i].name, raw)
     THEN result'.status = "read" /\ DOMAIN result'.values = {tags[i].name : i \in DOMAIN tags}
     ELSE result'.status = "error"

(* ReadAll and ReadAllRaw give every tag of the list its own bytes, however *)
(* the tags were spread over batches and whichever were removed, provided   *)
(* that no reply was lost before, no tag was added after one was removed,   *)
(* the controller does not number its tags anew when one is removed, and no *)
(* batch that others follow is without tags.                                *)
OwnValues ==
  [][lost = 0 /\ NoBatchEmptied' => (ReadAll => ReadsOwn(FALSE)) /\ (ReadAllRaw => ReadsOwn(TRUE))]_vars

Named(s, t) == Cardinality({i \in DOMAIN s : s[i].name = t})

(* Unless a reply was lost or a tag was added after one was removed,        *)
(* RemoveTag takes off the controller's buffer the tag it takes off the     *)
(* list, and no other.                                                      *)
RemovesOwn ==
  [][\A t \in Tags : lost' = 0 /\ allocated' /\ Named(buffer', t) < Named(buffer, t)
                       => Named(tags', t) < Named(tags, t)]_vars

(* Properties that documentation and comments claim and the code breaks.    *)

(* datatable.go:395 SyncTags sends the tags "that have not yet been sent to *)
(* the PLC": the controller has no tag more often than the list.            *)
SentOnce == created => \A t \in Tags : Named(buffer, t) <= Named(tags, t)

(* datatable.go:502-504 "We track batch boundaries via each tag's batchID   *)
(* field, skipping the 2-byte entry header whenever we encounter a new      *)
(* batch": but the header of a batch that has no tags left is not skipped,  *)
(* and the tags behind it get bytes that are not theirs.                    *)
EmptiedSkipped == [][lost = 0 => (ReadAllRaw => ReadsOwn(TRUE))]_vars

(* datatable.go:396 SyncTags is "marking them as synched if successful":    *)
(* the controller has every tag that counts as synched.  Of CountSize tags  *)
(* in one request it is told there are none.                                *)
SynchedAreHeld == created /\ lost = 0 => Len(Known) = Len(buffer)

(* Once Close has returned without an error the controller's buffer is      *)
(* freed.                                                                   *)
CloseFrees == closing = "ok" => ~allocated

(* ReadAllTyped returns what ReadAll read: a read that succeeded does not   *)
(* fail for what AddTagGroup recorded.                                      *)
TypedAsRead == ~ReadAllTypedFails

=============================================================================
