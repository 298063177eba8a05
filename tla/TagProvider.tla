---------------------------- MODULE TagProvider -----------------------------
(***************************************************************************)
(* A MapTagProvider and the handlers of a server that read and write its   *)
(* tags: single reads and writes, with a connection or without, lists of   *)
(* services in one message, and attributes of the class that names tags by *)
(* their position in the list of tags.                                     *)
(*                                                                         *)
(* One step is one critical section of the provider's mutex, or the        *)
(* serializing of one element outside of it: a Go slice that TagRead       *)
(* returned is the stored array itself.  heap is the memory of values and  *)
(* arrays that were ever stored.  What the tags are meant to hold, and had *)
(* to hold while a handler was reading, is kept in tagmap and in seen.     *)
(***************************************************************************)
EXTENDS Naturals, Sequences, FiniteSets, SequencesExt

CONSTANTS
  Handlers,
  Names,        \* all names of tags, in alphabetical order
  Values,
  Conversion,   \* what Go makes of a value that it converts: to a narrower type, another value
  Initial,      \* what the application put into Data: Absent or a stored value
  Requests,     \* the requests clients may send
  Absent,
  MaxRequests   \* bound: requests, over all handlers

Tags == ToSet(Names)
Types == {"int", "dint", "string"}

(* The elements of a Go value: one for a scalar.  type is that of an        *)
(* element, "any" if the array is an []any.                                 *)
Stored == [slice : BOOLEAN, type : Types \cup {"any"}, cells : Seq(Values) \ {<<>>}]

(* elem: the element the path names, counted from 1, or 0 if it names none; *)
(* vals, type: what is written.                                             *)
Service ==
  [op : {"read", "write"}, tag : Tags, elem : Nat, qty : Nat \ {0},
   vals : Seq(Values), type : Types]

(* via: how it came, instance: the tag's position, for an attribute.        *)
Request == [via : {"unit", "rr", "multi", "attr"}, instance : Nat, services : Seq(Service) \ {<<>>}]

ASSUME TagProviderAssumption ==
  /\ Names \in Seq(Tags) \ {<<>>}
  /\ \A i, j \in DOMAIN Names : Names[i] = Names[j] => i = j
  /\ \A t \in Tags : Initial[t] \in Stored \cup {Absent}
  /\ Requests \subseteq Request
  /\ \A r \in Requests :
       /\ r.via # "multi" => Len(r.services) = 1
       /\ r.via = "attr" => Len(r.services[1].vals) <= 1
  /\ Absent \notin Stored
  /\ MaxRequests \in Nat

ASSUME ConversionAssumption == Conversion \in [Types -> [Types -> [Values -> Values]]]

VARIABLES
  Data,       \* MapTagProvider.Data: where in heap a tag's value is, 0 if nowhere
  heap,       \* the values and arrays, in the order they were made
  tagmap,     \* what a tag holds, as the writes say
  pc,         \* control state of each handler
  todo,       \* the request it handles, with the services left
  reading,    \* the array it serializes: where, from which element, how many
  got, seen,  \* the elements so far; what the tag held since TagRead
  touched,    \* was an element of the tag written since TagRead?
  names,      \* the tags in the symbol list last sent to the handler's client
  requests

vars == <<Data, heap, tagmap, pc, todo, reading, got, seen, touched, names, requests>>
store == <<Data, heap, tagmap>>
copy == <<reading, got, seen, touched>>

(* A request with the services left. *)
Pending == [via : {"unit", "rr", "multi", "attr"}, instance : Nat, services : Seq(Service)]
Idle == [via |-> "unit", instance |-> 0, services |-> <<>>]
Nowhere == [tag |-> Names[1], at |-> 0, from |-> 1, qty |-> 0]

(* The initial values are in the heap in the order of their names, with a   *)
(* place for each name.                                                     *)
Place(t) == CHOOSE i \in DOMAIN Names : Names[i] = t

Init ==
  /\ heap = [i \in DOMAIN Names |-> Initial[Names[i]]]
  /\ Data = [t \in Tags |-> IF Initial[t] = Absent THEN 0 ELSE Place(t)]
  /\ tagmap = [t \in Tags |-> IF Initial[t] = Absent THEN <<>> ELSE Initial[t].cells]
  /\ pc = [h \in Handlers |-> "idle"]
  /\ todo = [h \in Handlers |-> Idle]
  /\ reading = [h \in Handlers |-> Nowhere]
  /\ got = [h \in Handlers |-> <<>>]
  /\ seen = [h \in Handlers |-> {}]
  /\ touched = [h \in Handlers |-> FALSE]
  /\ names = [h \in Handlers |-> <<>>]
  /\ requests = 0

-----------------------------------------------------------------------------
(* The handler's side.                                                      *)

Goto(h, l) == pc' = [pc EXCEPT ![h] = l]
Current(h) == Head(todo[h].services)
At(h, op) == pc[h] = "serve" /\ Current(h).op = op

(* A request is read off the socket and dispatched. *)
Receive(h, r) ==
  /\ pc[h] = "idle" /\ requests < MaxRequests
  /\ requests' = requests + 1
  /\ Goto(h, IF r.via = "attr" THEN "resolve" ELSE "serve")
  /\ todo' = [todo EXCEPT ![h] = r]
  /\ UNCHANGED <<store, copy, names>>

(* One service is done: the next one, or the reply. *)
Done(h) ==
  /\ todo' = [todo EXCEPT ![h].services = Tail(@)]
  /\ Goto(h, IF Len(todo[h].services) > 1 THEN "serve" ELSE "idle")

(* An error that a handler returns ends its session, services left or not.  *)
SessionEnds(h) == todo' = [todo EXCEPT ![h] = Idle] /\ Goto(h, "gone")

(* An error that is answered does not. *)
sendUnconnectedErrorReply(h) == todo' = [todo EXCEPT ![h] = Idle] /\ Goto(h, "idle")

(* A panic of one handler is recovered by none: the whole server dies. *)
ServerDies ==
  /\ pc' = [g \in Handlers |-> "gone"]
  /\ todo' = [g \in Handlers |-> Idle]

(* An error of the provider is answered in the handlers of attributes only. *)
ProviderFails(h) == IF todo[h].via = "attr" THEN sendUnconnectedErrorReply(h) ELSE SessionEnds(h)

-----------------------------------------------------------------------------
(* TagList, and the tags by position.                                       *)

Existing == {t \in Tags : Data[t] # 0}

(* Mutant: the list is in the order in which Go goes through the map. *)
TagListUnsorted == SetToSeqs(Existing)

(* sort.Strings: what is in position k has k - 1 names before it. *)
Before(S, t) == {u \in S : Place(u) < Place(t)}
Sorted(S) == [k \in 1..Cardinality(S) |-> CHOOSE t \in S : Cardinality(Before(S, t)) = k - 1]

TagList == {Sorted(Existing)}

connectedSymbolList(h) ==
  /\ pc[h] = "idle" /\ requests < MaxRequests
  /\ requests' = requests + 1
  /\ \E l \in TagList : names' = [names EXCEPT ![h] = l]
  /\ UNCHANGED <<store, pc, todo, copy>>

resolveSymbolicTagFromCustomClass(instance) ==
  UNION {IF instance \in DOMAIN l THEN {l[instance]} ELSE {} : l \in TagList}

(* The tag is found in a critical section of its own, before it is used. *)
Resolve(h, op) ==
  /\ pc[h] = "resolve" /\ Current(h).op = op
  /\ LET found == resolveSymbolicTagFromCustomClass(todo[h].instance) IN
       \/ /\ \E t \in found : todo' = [todo EXCEPT ![h].services[1].tag = t]
          /\ Goto(h, "serve")
       \/ found = {} /\ sendUnconnectedErrorReply(h)
  /\ UNCHANGED <<store, copy, names, requests>>

unconnectedServiceGetAttrSingle(h) == Resolve(h, "read")

unconnectedServiceSetAttrSingle(h) == Resolve(h, "write")

-----------------------------------------------------------------------------
(* TagRead.                                                                 *)

Value(t) == heap[Data[t]]

(* A count is made an int16. *)
Negative(qty) == qty >= 32768

(* The elements a read asks for are there. *)
Readable(s) ==
  /\ Data[s.tag] # 0
  /\ s.elem # 0 => Value(s.tag).slice
  /\ Value(s.tag).slice =>
       /\ ~Negative(s.qty)
       /\ IF s.elem = 0 THEN s.qty <= Len(Value(s.tag).cells)
                        ELSE s.elem + s.qty - 1 <= Len(Value(s.tag).cells)

(* A negative count is not too large: the array is sliced with it. *)
SlicePanics(s) ==
  /\ Data[s.tag] # 0 /\ Value(s.tag).slice
  /\ Negative(s.qty) /\ s.elem <= Len(Value(s.tag).cells)

TagReadPanics(h) ==
  /\ At(h, "read")
  /\ SlicePanics(Current(h))
  /\ ServerDies
  /\ UNCHANGED <<store, copy, names, requests>>

(* One element, or a scalar, is a copy; anything else is a slice of the     *)
(* stored array.                                                            *)
IsCopy(s) == ~Value(s.tag).slice \/ (s.elem # 0 /\ s.qty = 1)

First(s) == IF s.elem = 0 THEN 1 ELSE s.elem

TagRead(h) ==
  /\ At(h, "read")
  /\ LET s == Current(h) IN
       /\ Readable(s)
       /\ seen' = [seen EXCEPT ![h] = {tagmap[s.tag]}]
       /\ touched' = [touched EXCEPT ![h] = FALSE]
       /\ IF IsCopy(s)
          THEN /\ got' = [got EXCEPT ![h] = <<Value(s.tag).cells[First(s)]>>]
               /\ reading' = [reading EXCEPT ![h] = [tag |-> s.tag, at |-> 0, from |-> First(s), qty |-> 1]]
               /\ Done(h)
          ELSE /\ got' = [got EXCEPT ![h] = <<>>]
               /\ reading' = [reading EXCEPT ![h] =
                                [tag |-> s.tag, at |-> Data[s.tag], from |-> First(s), qty |-> s.qty]]
               /\ Goto(h, "serialize")
               /\ UNCHANGED todo
  /\ UNCHANGED <<store, names, requests>>

TagReadFails(h) ==
  /\ At(h, "read")
  /\ ~Readable(Current(h)) /\ ~SlicePanics(Current(h))
  /\ ProviderFails(h)
  /\ UNCHANGED <<store, copy, names, requests>>

(* Can the elements be serialized?  Those of an []any cannot, and those of  *)
(* a []string not as one of several services.                               *)
Serializable(h) ==
  LET type == heap[reading[h].at].type IN
  type # "any" /\ (type = "string" => todo[h].via # "multi")

SerializeFails(h) ==
  /\ pc[h] = "serialize"
  /\ ~Serializable(h)
  /\ SessionEnds(h)
  /\ UNCHANGED <<store, copy, names, requests>>

(* Serialize looks at one element after the other, without the mutex. *)
SerializeElement(h) ==
  /\ pc[h] = "serialize"
  /\ Serializable(h)
  /\ LET r == reading[h] IN
       /\ got' = [got EXCEPT ![h] = Append(@, heap[r.at].cells[r.from + Len(@)])]
       /\ IF Len(got[h]) + 1 = r.qty THEN Done(h) ELSE UNCHANGED <<pc, todo>>
  /\ UNCHANGED <<store, reading, seen, touched, names, requests>>

-----------------------------------------------------------------------------
(* TagWrite.                                                                *)

(* A number converts to any type (to a string, as a character), a string    *)
(* to no other.                                                             *)
ConvertibleTo(from, to) == from = to \/ to = "any" \/ from # "string"

convertToElement(v, from, to) == IF from = to \/ to = "any" THEN v ELSE Conversion[from][to][v]

IsArray(s) == Len(s.vals) > 1
HoldsSlice(t) == Data[t] # 0 /\ Value(t).slice

(* Only an array of known elements can refuse a value: convertToElement. *)
Writable(s) ==
  /\ s.vals # <<>>
  /\ IF s.elem = 0
     THEN IsArray(s) /\ HoldsSlice(s.tag) => ConvertibleTo(s.type, Value(s.tag).type)
     ELSE /\ HoldsSlice(s.tag) /\ s.elem <= Len(Value(s.tag).cells)
          /\ ~IsArray(s) /\ ConvertibleTo(s.type, Value(s.tag).type)

(* The value that goes into an element of the array there is. *)
NewElement(s) == convertToElement(s.vals[1], s.type, Value(s.tag).type)

(* Mutant: the next element is written. *)
StoreElementNext(s) ==
  /\ heap' = [heap EXCEPT ![Data[s.tag]].cells[(s.elem % Len(Value(s.tag).cells)) + 1] = NewElement(s)]
  /\ UNCHANGED Data

(* An element is changed in place. *)
StoreElement(s) ==
  /\ heap' = [heap EXCEPT ![Data[s.tag]].cells[s.elem] = NewElement(s)]
  /\ UNCHANGED Data

(* An array over an array keeps its type; else it stays an []any. *)
ElementType(s) ==
  IF ~IsArray(s) THEN s.type
  ELSE IF HoldsSlice(s.tag) THEN Value(s.tag).type ELSE "any"

NewCells(s) == [k \in DOMAIN s.vals |-> convertToElement(s.vals[k], s.type, ElementType(s))]

(* Mutant: an array of the same length is overwritten in place. *)
StoreInPlace(s) ==
  LET new == [slice |-> IsArray(s), type |-> ElementType(s), cells |-> NewCells(s)] IN
  IF HoldsSlice(s.tag) /\ Len(Value(s.tag).cells) = Len(s.vals)
  THEN heap' = [heap EXCEPT ![Data[s.tag]] = new] /\ UNCHANGED Data
  ELSE heap' = Append(heap, new) /\ Data' = [Data EXCEPT ![s.tag] = Len(heap) + 1]

(* The tag's entry in the map is replaced, or made. *)
Store(s) ==
  /\ heap' = Append(heap, [slice |-> IsArray(s), type |-> ElementType(s), cells |-> NewCells(s)])
  /\ Data' = [Data EXCEPT ![s.tag] = Len(heap) + 1]

Writes(s) == IF s.elem = 0 THEN NewCells(s) ELSE [tagmap[s.tag] EXCEPT ![s.elem] = NewElement(s)]
Reads(g, t) == pc[g] = "serialize" /\ reading[g].tag = t

TagWrite(h) ==
  /\ At(h, "write")
  /\ LET s == Current(h) IN
       /\ Writable(s)
       /\ IF s.elem = 0 THEN Store(s) ELSE StoreElement(s)
       /\ tagmap' = [tagmap EXCEPT ![s.tag] = Writes(s)]
       /\ seen' = [g \in Handlers |-> IF Reads(g, s.tag) THEN seen[g] \cup {Writes(s)} ELSE seen[g]]
       /\ touched' = [g \in Handlers |-> touched[g] \/ (Reads(g, s.tag) /\ s.elem # 0)]
  /\ Done(h)
  /\ UNCHANGED <<reading, got, names, requests>>

(* A write of no values: its first value is taken, except in the handler of *)
(* attributes, which looks.                                                 *)
ValuesPanic(h) == Current(h).vals = <<>> /\ todo[h].via # "attr"

TagWritePanics(h) ==
  /\ At(h, "write")
  /\ ValuesPanic(h)
  /\ ServerDies
  /\ UNCHANGED <<store, copy, names, requests>>

TagWriteFails(h) ==
  /\ At(h, "write")
  /\ ~Writable(Current(h)) /\ ~ValuesPanic(h)
  /\ ProviderFails(h)
  /\ UNCHANGED <<store, copy, names, requests>>

-----------------------------------------------------------------------------
Next ==
  \E h \in Handlers :
    \/ \E r \in Requests : Receive(h, r)
    \/ connectedSymbolList(h)
    \/ unconnectedServiceGetAttrSingle(h) \/ unconnectedServiceSetAttrSingle(h)
    \/ TagRead(h) \/ TagReadFails(h) \/ TagReadPanics(h)
    \/ SerializeElement(h) \/ SerializeFails(h)
    \/ TagWrite(h) \/ TagWriteFails(h) \/ TagWritePanics(h)

Spec == Init /\ [][Next]_vars

-----------------------------------------------------------------------------
(* Properties.                                                              *)

(* What Data names is in the heap and what a handler serializes is within   *)
(* the array it was given (TagRead, TagWrite).                              *)
TypeOK ==
  /\ heap \in Seq(Stored \cup {Absent})
  /\ Data \in [Tags -> 0..Len(heap)] /\ \A t \in Existing : Value(t) \in Stored
  /\ tagmap \in [Tags -> Seq(Values)]
  /\ pc \in [Handlers -> {"idle", "resolve", "serve", "serialize", "gone"}]
  /\ todo \in [Handlers -> Pending]
  /\ reading \in [Handlers -> [tag : Tags, at : 0..Len(heap), from : Nat \ {0}, qty : Nat]]
  /\ got \in [Handlers -> Seq(Values)]
  /\ seen \in [Handlers -> SUBSET Seq(Values)]
  /\ touched \in [Handlers -> BOOLEAN]
  /\ names \in [Handlers -> Seq(Tags)]
  /\ requests \in 0..MaxRequests
  /\ \A h \in Handlers : pc[h] = "serialize" =>
       LET r == reading[h] IN
       /\ r.at # 0 /\ heap[r.at] \in Stored
       /\ r.from + r.qty - 1 <= Len(heap[r.at].cells) /\ Len(got[h]) < r.qty

(* The elements h has read so far are those of s.                           *)
Matches(h, s) ==
  \A i \in DOMAIN got[h] :
    reading[h].from + i - 1 \in DOMAIN s /\ got[h][i] = s[reading[h].from + i - 1]

(* Every element of an answer was in the tag at some time since the read    *)
(* began, although TagRead hands out the stored array and others write in   *)
(* it or replace it: nothing is older, of another element or of another tag.*)
Regular ==
  \A h \in Handlers : \A i \in DOMAIN got[h] : \E s \in seen[h] :
    reading[h].from + i - 1 \in DOMAIN s /\ got[h][i] = s[reading[h].from + i - 1]

(* If no element of the tag was written meanwhile, the answer is the tag at *)
(* one time: whole writes do not disturb who holds the old array (TagWrite).*)
Snapshot == \A h \in Handlers : got[h] # <<>> /\ ~touched[h] => \E s \in seen[h] : Matches(h, s)

(* A client that addresses tags by their position in the list it was sent   *)
(* gets the tag it means, unless a tag was created since: the list is the   *)
(* same every time (resolveSymbolicTagFromCustomClass).                     *)
CachedInstance ==
  \A h \in Handlers :
    pc[h] = "serve" /\ todo[h].via = "attr" /\ ToSet(names[h]) = Existing
      => Current(h).tag = names[h][todo[h].instance]

(* Properties that comments claim and the code breaks.                      *)

(* server_router.go:91 "this is a thread-safe way to get the value for a    *)
(* tag": the answer is a value the tag had.                                 *)
ThreadSafe == \A h \in Handlers : got[h] # <<>> => \E s \in seen[h] : Matches(h, s)

(* server_router.go:146-151 keeps arrays typed, for otherwise "the next     *)
(* read of the tag explodes": what is read can be serialized.               *)
Serializes == \A h \in Handlers : pc[h] = "serialize" => heap[reading[h].at].type # "any"

(* server_unconnected.go:544-546 "the same tag always lands on the same     *)
(* instance [...] clients need this stability": a client gets the tag that  *)
(* it was told has the instance.                                            *)
StableInstance ==
  \A h \in Handlers :
    pc[h] = "serve" /\ todo[h].via = "attr" /\ todo[h].instance \in DOMAIN names[h]
      => Current(h).tag = names[h][todo[h].instance]

=============================================================================
