-------------------------- MODULE TagProviderProofs -------------------------
(***************************************************************************)
(* Proofs about a MapTagProvider and the handlers that use it, for any     *)
(* number of handlers, tags, values and requests: what a read answers was  *)
(* in the tag while it was read, although arrays are handed out and the    *)
(* elements are read without the mutex, and a position in the list of tags *)
(* means the same tag until one is created.                                *)
(***************************************************************************)
EXTENDS TagProvider, FiniteSetTheorems, TLAPS

(* What is left of a list when its first element is taken.                  *)
LEMMA TailLeft ==
  ASSUME NEW S, NEW s \in Seq(S), s # <<>>
  PROVE  (Len(s) > 1 => Tail(s) # <<>>) /\ Len(Tail(s)) = Len(s) - 1 /\ Len(s) \in Nat
<1>1. Tail(s) \in Seq(S) /\ Len(Tail(s)) = Len(s) - 1 /\ Len(s) \in Nat
  OBVIOUS
<1>2. Len(s) > 1 => Len(Tail(s)) # 0
  BY <1>1
<1>3. Len(<<>>) = 0
  OBVIOUS
<1> QED BY <1>1, <1>2, <1>3

USE TagProviderAssumption

(* A handler that serves has a service to serve, only one unless a message  *)
(* of several services came.                                                *)
ServicesLeft ==
  \A h \in Handlers :
    /\ pc[h] \in {"resolve", "serve", "serialize"} => todo[h].services # <<>>
    /\ todo[h].via # "multi" => Len(todo[h].services) <= 1

(* The map holds what the writes say, and no two tags share a value.        *)
HeldAsWritten == \A t \in Existing : Value(t).cells = tagmap[t]
NotShared == \A t, u \in Existing : Data[t] = Data[u] => t = u

(* A list that was sent has the tags that there were.                       *)
ListSent == \A h \in Handlers : \E S \in SUBSET Existing : names[h] = Sorted(S)

(* A tag that was found by its position was found in a list of tags that    *)
(* had those of the list sent before, and that there still are.             *)
FoundInList ==
  \A h \in Handlers : pc[h] = "serve" /\ todo[h].via = "attr" =>
    \E S \in SUBSET Existing :
      /\ ToSet(names[h]) \subseteq S
      /\ todo[h].instance \in DOMAIN Sorted(S) /\ Current(h).tag = Sorted(S)[todo[h].instance]

-----------------------------------------------------------------------------
(* The sorted list of a set of tags.                                        *)

LEMMA Places ==
  /\ \A t \in Tags : Place(t) \in 1..Len(Names) /\ Names[Place(t)] = t
  /\ \A i \in 1..Len(Names) : Names[i] \in Tags
<1>1. DOMAIN Names = 1..Len(Names)
  OBVIOUS
<1>2. \A t \in Tags : \E i \in DOMAIN Names : Names[i] = t
  BY DEF Tags, ToSet
<1>3. \A t \in Tags : Place(t) \in DOMAIN Names /\ Names[Place(t)] = t
  BY <1>2 DEF Place
<1> QED BY <1>1, <1>3 DEF Tags, ToSet

LEMMA TagsFinite == IsFiniteSet(Tags)
<1>1. Len(Names) \in Nat /\ DOMAIN Names = 1..Len(Names)
  OBVIOUS
<1>2. IsFiniteSet(1..Len(Names))
  BY <1>1, FS_Interval
<1>3. Names \in Surjection(1..Len(Names), Tags)
  BY <1>1, Places DEF Surjection
<1> QED BY <1>2, <1>3, FS_Surjection

(* Fewer tags come before a tag than there are. *)
LEMMA BeforeFewer ==
  ASSUME NEW S \in SUBSET Tags, NEW t \in S
  PROVE  /\ IsFiniteSet(S) /\ Cardinality(S) \in Nat
         /\ IsFiniteSet(Before(S, t)) /\ Cardinality(Before(S, t)) \in 0..(Cardinality(S) - 1)
<1>1. IsFiniteSet(S) /\ Cardinality(S) \in Nat
  BY TagsFinite, FS_Subset, FS_CardinalityType
<1>2. Before(S, t) \in SUBSET S
  BY DEF Before
<1>3. ~(Place(t) < Place(t))
  BY Places
<1>4. Before(S, t) # S
  BY <1>3 DEF Before
<1> QED BY <1>1, <1>2, <1>4, FS_Subset, FS_CardinalityType

(* Two tags of a set do not have equally many before them. *)
LEMMA BeforeGrows ==
  ASSUME NEW S \in SUBSET Tags, NEW t \in S, NEW u \in S, t # u
  PROVE  Cardinality(Before(S, t)) # Cardinality(Before(S, u))
<1>1. ASSUME NEW v \in S, NEW w \in S, Place(v) < Place(w)
      PROVE  Cardinality(Before(S, v)) # Cardinality(Before(S, w))
  <2>1. \A x \in S : Place(x) \in Int
    BY Places
  <2>2. Before(S, v) \in SUBSET Before(S, w) /\ v \in Before(S, w) /\ v \notin Before(S, v)
    BY <1>1, <2>1 DEF Before
  <2>3. Before(S, v) # Before(S, w)
    BY <2>2
  <2> QED BY BeforeFewer, <2>2, <2>3, FS_Subset
<1>2. Place(t) < Place(u) \/ Place(u) < Place(t)
  BY Places
<1> QED BY <1>1, <1>2

(* The sorted list of a set has its tags. *)
LEMMA SortedTags ==
  ASSUME NEW S \in SUBSET Tags
  PROVE  Sorted(S) \in Seq(Tags) /\ ToSet(Sorted(S)) = S
<1> DEFINE n == Cardinality(S)
           rank == [t \in S |-> Cardinality(Before(S, t)) + 1]
<1>1. IsFiniteSet(S) /\ n \in Nat
  BY TagsFinite, FS_Subset, FS_CardinalityType
<1>2. IsFiniteSet(1..n) /\ Cardinality(1..n) = n
  BY <1>1, FS_Interval
<1>3. \A t \in S : rank[t] \in 1..n /\ Cardinality(Before(S, t)) = rank[t] - 1
  <2>1. \A t \in S : Cardinality(Before(S, t)) \in 0..(n - 1)
    BY BeforeFewer
  <2> QED BY ONLY <1>1, <2>1
<1>4. \A t, u \in S : rank[t] = rank[u] => t = u
  BY <1>3, BeforeGrows
<1>5. rank \in Injection(S, 1..n)
  <2>1. rank \in [S -> 1..n]
    BY <1>3
  <2> HIDE DEF rank, n
  <2> QED BY <1>4, <2>1 DEF Injection, IsInjective
<1>6. rank \in Surjection(S, 1..n)
  BY <1>1, <1>2, <1>5, FS_Injection
<1>7. \A k \in 1..n : \E t \in S : rank[t] = k
  BY <1>6 DEF Surjection
<1> HIDE DEF rank, n
<1>8. Sorted(S) = [k \in 1..n |-> CHOOSE t \in S : Cardinality(Before(S, t)) = k - 1]
  BY DEF Sorted, n
<1>9. \A k \in 1..n : Sorted(S)[k] \in S /\ rank[Sorted(S)[k]] = k
  <2> SUFFICES ASSUME NEW k \in 1..n PROVE Sorted(S)[k] \in S /\ rank[Sorted(S)[k]] = k
    OBVIOUS
  <2>1. \E t \in S : Cardinality(Before(S, t)) = k - 1
    BY <1>3, <1>7
  <2>2. Sorted(S)[k] \in S /\ Cardinality(Before(S, Sorted(S)[k])) = k - 1
    BY <1>8, <2>1
  <2> QED BY <1>1, <1>3, <2>2
<1>10. \A t \in S : Sorted(S)[rank[t]] = t
  BY <1>3, <1>4, <1>9
<1>11. Sorted(S) \in [1..n -> S] /\ DOMAIN Sorted(S) = 1..n
  BY <1>8, <1>9
<1>12. ToSet(Sorted(S)) = S
  BY <1>3, <1>9, <1>10, <1>11 DEF ToSet
<1>13. Sorted(S) \in Seq(Tags)
  BY <1>1, <1>11
<1> QED BY <1>12, <1>13

-----------------------------------------------------------------------------
(* Control: what a handler has left to do.                                  *)

ControlTypes ==
  /\ pc \in [Handlers -> {"idle", "resolve", "serve", "serialize", "gone"}]
  /\ todo \in [Handlers -> Pending]
  /\ requests \in 0..MaxRequests

Control == ControlTypes /\ ServicesLeft

(* The handler that takes a step keeps a request, or drops it. *)
LEMMA ControlOfOne ==
  ASSUME Control, NEW h \in Handlers, NEW r \in Pending, NEW l \in {"idle", "resolve", "serve", "serialize", "gone"},
         todo' = [todo EXCEPT ![h] = r], pc' = [pc EXCEPT ![h] = l], requests' \in 0..MaxRequests,
         l \in {"resolve", "serve", "serialize"} => r.services # <<>>,
         r.via # "multi" => Len(r.services) <= 1
  PROVE  Control'
<1>1. ControlTypes'
  BY DEF Control, ControlTypes
<1>2. ServicesLeft'
  BY DEF Control, ControlTypes, ServicesLeft
<1> QED BY <1>1, <1>2 DEF Control

LEMMA DoneControl ==
  ASSUME Control, NEW h \in Handlers, pc[h] \in {"serve", "serialize"}, Done(h), UNCHANGED requests
  PROVE  Control'
<1> DEFINE q == todo[h].services
           r == [todo[h] EXCEPT !.services = Tail(q)]
<1>1. q \in Seq(Service) /\ q # <<>> /\ todo[h] \in Pending
  BY DEF Control, ControlTypes, ServicesLeft, Pending
<1>2. Tail(q) \in Seq(Service)
  BY <1>1
<1>3. (Len(q) > 1 => Tail(q) # <<>>) /\ Len(Tail(q)) = Len(q) - 1 /\ Len(q) \in Nat
  BY <1>1, TailLeft
<1>4. r \in Pending /\ r.services = Tail(q) /\ r.via = todo[h].via
  BY <1>1, <1>2 DEF Pending
<1>5. todo' = [todo EXCEPT ![h] = r]
  BY DEF Done
<1>6. PICK l \in {"serve", "idle"} : pc' = [pc EXCEPT ![h] = l] /\ (l = "serve" => Len(q) > 1)
  BY DEF Done, Goto
<1>7. requests' \in 0..MaxRequests
  BY DEF Control, ControlTypes
<1>8. r.via # "multi" => Len(r.services) <= 1
  BY <1>3, <1>4 DEF Control, ServicesLeft
<1> HIDE DEF q, r
<1> QED BY <1>3, <1>4, <1>5, <1>6, <1>7, <1>8, ControlOfOne

LEMMA EndControl ==
  ASSUME Control, NEW h \in Handlers, SessionEnds(h) \/ sendUnconnectedErrorReply(h), UNCHANGED requests
  PROVE  Control'
<1>1. Idle \in Pending /\ Idle.services = <<>> /\ Len(Idle.services) <= 1
  BY DEF Idle, Pending
<1>2. PICK l \in {"idle", "gone"} : todo' = [todo EXCEPT ![h] = Idle] /\ pc' = [pc EXCEPT ![h] = l]
  BY DEF SessionEnds, sendUnconnectedErrorReply, Goto
<1>3. requests' \in 0..MaxRequests
  BY DEF Control, ControlTypes
<1> QED BY <1>1, <1>2, <1>3, ControlOfOne

LEMMA ReceiveControl ==
  ASSUME Control, NEW h \in Handlers, NEW r \in Requests, Receive(h, r)
  PROVE  Control'
<1>1. r \in Pending /\ r.services # <<>>
  BY DEF Request, Pending
<1>2. PICK l \in {"resolve", "serve"} : todo' = [todo EXCEPT ![h] = r] /\ pc' = [pc EXCEPT ![h] = l]
  BY DEF Receive, Goto
<1>3. requests' \in 0..MaxRequests
  BY DEF Control, ControlTypes, Receive
<1>4. r.via # "multi" => Len(r.services) = 1
  BY Zenon
<1>5. r.via # "multi" => Len(r.services) <= 1
  <2>1. \A n : n = 1 => n <= 1
    OBVIOUS
  <2> QED BY ONLY <1>4, <2>1
<1> QED BY <1>1, <1>2, <1>3, <1>4, <1>5, ControlOfOne

(* A position is found in the list, or is not. *)
LEMMA ResolveFinds ==
  ASSUME Control, NEW h \in Handlers, NEW op, Resolve(h, op)
  PROVE  \/ \E k \in DOMAIN Sorted(Existing) :
               /\ k = todo[h].instance
               /\ todo' = [todo EXCEPT ![h].services[1].tag = Sorted(Existing)[k]]
               /\ Goto(h, "serve")
         \/ sendUnconnectedErrorReply(h)
BY DEF Resolve, resolveSymbolicTagFromCustomClass, TagList

LEMMA ResolveControl ==
  ASSUME Control, NEW h \in Handlers, NEW op, Resolve(h, op)
  PROVE  Control'
<1>1. UNCHANGED requests
  BY DEF Resolve
<1>2. CASE sendUnconnectedErrorReply(h)
  BY <1>1, <1>2, EndControl
<1>3. ASSUME NEW k \in DOMAIN Sorted(Existing),
             todo' = [todo EXCEPT ![h].services[1].tag = Sorted(Existing)[k]], Goto(h, "serve")
      PROVE  Control'
  <2> DEFINE t == Sorted(Existing)[k]
             q == todo[h].services
             q1 == [q EXCEPT ![1] = [q[1] EXCEPT !.tag = t]]
             r == [todo[h] EXCEPT !.services = q1]
  <2>1. t \in Tags
    <3>1. Existing \in SUBSET Tags
      BY DEF Existing
    <3>2. Sorted(Existing) \in Seq(Tags)
      BY <3>1, SortedTags
    <3> QED BY <3>2
  <2>2. q \in Seq(Service) /\ q # <<>> /\ todo[h] \in Pending
    BY DEF Control, ControlTypes, ServicesLeft, Pending, Resolve
  <2>3. 1 \in DOMAIN q /\ q[1] \in Service
    BY <2>2
  <2>4. [q[1] EXCEPT !.tag = t] \in Service
    BY <2>1, <2>3 DEF Service
  <2>5. q1 \in Seq(Service) /\ q1 # <<>> /\ Len(q1) = Len(q)
    BY <2>2, <2>3, <2>4
  <2>6. r \in Pending /\ r.services = q1 /\ r.via = todo[h].via
    BY <2>2, <2>5 DEF Pending
  <2>7. todo' = [todo EXCEPT ![h] = r]
    BY <1>3
  <2>8. pc' = [pc EXCEPT ![h] = "serve"]
    BY <1>3 DEF Goto
  <2>9. requests' \in 0..MaxRequests
    BY <1>1 DEF Control, ControlTypes
  <2>10. r.via # "multi" => Len(r.services) <= 1
    BY <2>5, <2>6 DEF Control, ServicesLeft
  <2> HIDE DEF r, q1, q, t
  <2> QED BY <2>5, <2>6, <2>7, <2>8, <2>9, <2>10, ControlOfOne
<1> QED BY <1>2, <1>3, ResolveFinds

LEMMA ControlStep == Control /\ [Next]_vars => Control'
<1> SUFFICES ASSUME Control, [Next]_vars PROVE Control'
  OBVIOUS
<1>1. CASE UNCHANGED <<pc, todo, requests>>
  BY <1>1 DEF Control, ControlTypes, ServicesLeft
<1>2. ASSUME NEW h \in Handlers, NEW r \in Requests, Receive(h, r) PROVE Control'
  BY <1>2, ReceiveControl
<1>3. ASSUME NEW h \in Handlers, connectedSymbolList(h) PROVE Control'
  BY <1>3 DEF connectedSymbolList, Control, ControlTypes, ServicesLeft
<1>4. ASSUME NEW h \in Handlers, unconnectedServiceGetAttrSingle(h) \/ unconnectedServiceSetAttrSingle(h)
      PROVE  Control'
  BY <1>4, ResolveControl DEF unconnectedServiceGetAttrSingle, unconnectedServiceSetAttrSingle
<1>5. ASSUME NEW h \in Handlers, TagRead(h) PROVE Control'
  <2>1. pc[h] = "serve" /\ UNCHANGED requests
    BY <1>5 DEF TagRead, At
  <2>2. CASE Done(h)
    BY <2>1, <2>2, DoneControl
  <2>3. CASE Goto(h, "serialize") /\ UNCHANGED todo
    BY <2>1, <2>3 DEF Goto, Control, ControlTypes, ServicesLeft
  <2> QED BY <1>5, <2>2, <2>3 DEF TagRead
<1>6. ASSUME NEW h \in Handlers, SerializeElement(h) PROVE Control'
  <2>1. pc[h] = "serialize" /\ UNCHANGED requests
    BY <1>6 DEF SerializeElement
  <2>2. CASE Done(h)
    BY <2>1, <2>2, DoneControl
  <2> QED BY <1>1, <1>6, <2>1, <2>2 DEF SerializeElement
<1>7. ASSUME NEW h \in Handlers, TagWrite(h) PROVE Control'
  BY <1>7, DoneControl DEF TagWrite, At
<1>8. ASSUME NEW h \in Handlers, TagReadFails(h) \/ TagWriteFails(h) \/ SerializeFails(h) PROVE Control'
  BY <1>8, EndControl DEF TagReadFails, TagWriteFails, SerializeFails, ProviderFails
<1>9. ASSUME NEW h \in Handlers, TagReadPanics(h) \/ TagWritePanics(h) PROVE Control'
  <2>1. ServerDies /\ UNCHANGED requests
    BY <1>9 DEF TagReadPanics, TagWritePanics
  <2>2. Idle \in Pending /\ Len(Idle.services) <= 1
    BY DEF Idle, Pending
  <2>3. ControlTypes'
    BY <2>1, <2>2 DEF ServerDies, Control, ControlTypes
  <2>4. ServicesLeft'
    BY <2>1, <2>2 DEF ServerDies, ServicesLeft
  <2> QED BY <2>3, <2>4 DEF Control
<1> QED BY <1>1, <1>2, <1>3, <1>4, <1>5, <1>6, <1>7, <1>8, <1>9 DEF Next, vars

-----------------------------------------------------------------------------
(* The store.                                                               *)

StoreTypes ==
  /\ heap \in Seq(Stored \cup {Absent})
  /\ Data \in [Tags -> 0..Len(heap)] /\ \A t \in Existing : Value(t) \in Stored
  /\ tagmap \in [Tags -> Seq(Values)]

StoreInv == StoreTypes /\ HeldAsWritten /\ NotShared

(* What a handler has to serve is a service. *)
LEMMA CurrentService ==
  ASSUME Control, NEW h \in Handlers, pc[h] \in {"resolve", "serve", "serialize"}
  PROVE  Current(h) \in Service
<1>1. todo[h].services \in Seq(Service) /\ todo[h].services # <<>>
  BY DEF Control, ControlTypes, ServicesLeft, Pending
<1>2. Current(h) = todo[h].services[1] /\ 1 \in DOMAIN todo[h].services
  BY <1>1 DEF Current
<1> QED BY <1>1, <1>2

(* A value that is converted is a value again. *)
LEMMA ConvertTyped ==
  ASSUME NEW v \in Values, NEW from \in Types, NEW to \in Types \cup {"any"}
  PROVE  convertToElement(v, from, to) \in Values
<1>1. CASE from = to \/ to = "any"
  BY <1>1 DEF convertToElement
<1>2. CASE ~(from = to \/ to = "any")
  <2>1. to \in Types
    BY <1>2
  <2>2. Conversion[from][to][v] \in Values
    BY <2>1, ConversionAssumption
  <2> QED BY <1>2, <2>2 DEF convertToElement
<1> QED BY <1>1, <1>2

(* A write keeps the type of the array there is, or gets its own. *)
LEMMA ElementTyped ==
  ASSUME StoreInv, NEW s \in Service
  PROVE  ElementType(s) \in Types \cup {"any"}
<1>1. s.tag \in Tags /\ s.type \in Types
  BY DEF Service
<1>2. HoldsSlice(s.tag) => Value(s.tag) \in Stored
  BY <1>1 DEF HoldsSlice, StoreInv, StoreTypes, Existing
<1> QED BY <1>1, <1>2 DEF ElementType, Stored

LEMMA CellsTyped ==
  ASSUME StoreInv, NEW s \in Service, s.vals # <<>>
  PROVE  NewCells(s) \in Seq(Values) \ {<<>>}
<1> DEFINE n == Len(s.vals)
<1>1. s.vals \in Seq(Values) /\ s.type \in Types
  BY DEF Service
<1>2. n \in Nat /\ n # 0 /\ DOMAIN s.vals = 1..n
  BY <1>1
<1>3. \A k \in 1..n : convertToElement(s.vals[k], s.type, ElementType(s)) \in Values
  BY <1>1, <1>2, ElementTyped, ConvertTyped
<1>4. NewCells(s) = [k \in 1..n |-> convertToElement(s.vals[k], s.type, ElementType(s))]
  BY <1>2 DEF NewCells
<1>5. NewCells(s) \in [1..n -> Values]
  BY <1>3, <1>4
<1> HIDE DEF n
<1>6. NewCells(s) \in Seq(Values) /\ Len(NewCells(s)) = n
  BY <1>2, <1>5
<1> QED BY <1>2, <1>6

(* A whole write makes a new value: the old one stays as it is. *)
LEMMA StoreWhole ==
  ASSUME StoreInv, NEW s \in Service, Store(s), Writable(s), s.elem = 0,
         tagmap' = [tagmap EXCEPT ![s.tag] = Writes(s)]
  PROVE  /\ StoreInv' /\ Existing' = Existing \cup {s.tag}
         /\ Len(heap') = Len(heap) + 1 /\ \A i \in 1..Len(heap) : heap'[i] = heap[i]
         /\ \A t \in Tags : Data'[t] = IF t = s.tag THEN Len(heap) + 1 ELSE Data[t]
<1> DEFINE new == [slice |-> IsArray(s), type |-> ElementType(s), cells |-> NewCells(s)]
           n == Len(heap) + 1
<1>1. s.tag \in Tags /\ NewCells(s) \in Seq(Values) \ {<<>>} /\ Writes(s) = NewCells(s)
  BY CellsTyped DEF Service, Writes, Writable
<1>2. ElementType(s) \in Types \cup {"any"}
  BY ElementTyped
<1>3. new \in Stored
  BY <1>1, <1>2 DEF Stored, IsArray
<1>4. heap \in Seq(Stored \cup {Absent}) /\ Len(heap) \in Nat
  BY DEF StoreInv, StoreTypes
<1>5. heap' = Append(heap, new) /\ Data' = [Data EXCEPT ![s.tag] = n]
  BY DEF Store
<1> HIDE DEF new
<1>6. /\ heap' \in Seq(Stored \cup {Absent}) /\ Len(heap') = n /\ heap'[n] = new
      /\ \A i \in 1..Len(heap) : heap'[i] = heap[i]
  BY <1>3, <1>4, <1>5
<1>7. /\ Data \in [Tags -> 0..Len(heap)]
      /\ Data' \in [Tags -> 0..Len(heap')] /\ \A t \in Tags : Data'[t] = IF t = s.tag THEN n ELSE Data[t]
  BY <1>1, <1>4, <1>5, <1>6 DEF StoreInv, StoreTypes
<1>8. Existing' = Existing \cup {s.tag}
  BY <1>1, <1>4, <1>7 DEF Existing
<1>9. /\ Value(s.tag)' = new /\ \A t \in Existing : t # s.tag => Value(t)' = Value(t)
  BY <1>1, <1>4, <1>6, <1>7 DEF Value, Existing
<1>10. StoreTypes'
  <2>1. \A t \in Existing' : Value(t)' \in Stored
    BY <1>3, <1>8, <1>9 DEF StoreInv, StoreTypes
  <2>2. tagmap' \in [Tags -> Seq(Values)]
    BY <1>1 DEF StoreInv, StoreTypes
  <2> QED BY <1>6, <1>7, <2>1, <2>2 DEF StoreTypes
<1>11. HeldAsWritten'
  <2>1. new.cells = NewCells(s)
    BY DEF new
  <2> QED BY <1>1, <1>8, <1>9, <2>1 DEF HeldAsWritten, StoreInv, StoreTypes, Existing
<1>12. NotShared'
  BY <1>1, <1>4, <1>7, <1>8 DEF NotShared, StoreInv, Existing
<1> QED BY <1>6, <1>7, <1>8, <1>10, <1>11, <1>12 DEF StoreInv

(* A write of an element changes that element of the tag's array, in place. *)
LEMMA StoreOne ==
  ASSUME StoreInv, NEW s \in Service, StoreElement(s), Writable(s), s.elem # 0,
         tagmap' = [tagmap EXCEPT ![s.tag] = Writes(s)]
  PROVE  /\ StoreInv' /\ Existing' = Existing /\ Data' = Data /\ s.tag \in Existing
         /\ Len(heap') = Len(heap) /\ Writes(s) \in Seq(Values)
         /\ \A i \in 1..Len(heap) : i # Data[s.tag] => heap'[i] = heap[i]
         /\ heap'[Data[s.tag]] \in Stored /\ heap'[Data[s.tag]].cells = Writes(s)
         /\ Len(Writes(s)) = Len(heap[Data[s.tag]].cells)
<1> DEFINE d == Data[s.tag]
           v == heap[d]
           c == [v.cells EXCEPT ![s.elem] = NewElement(s)]
           w == [v EXCEPT !.cells = c]
<1>1. s.tag \in Tags /\ s.elem \in Nat /\ s.type \in Types /\ s.vals[1] \in Values
  BY DEF Service, Writable
<1>2. s.tag \in Existing /\ v \in Stored /\ s.elem <= Len(v.cells) /\ v.cells = tagmap[s.tag]
  BY <1>1 DEF Writable, HoldsSlice, Existing, StoreInv, StoreTypes, HeldAsWritten, Value
<1>3. heap \in Seq(Stored \cup {Absent}) /\ Data \in [Tags -> 0..Len(heap)] /\ d \in 1..Len(heap)
  BY <1>1, <1>2 DEF StoreInv, StoreTypes, Existing
<1>4. v.cells \in Seq(Values) /\ v.cells # <<>>
  BY <1>2 DEF Stored
<1>5. s.elem \in DOMAIN v.cells
  BY <1>1, <1>2, <1>4
<1>6. c \in Seq(Values) /\ c # <<>> /\ Len(c) = Len(v.cells)
  <2>1. Value(s.tag).type \in Types \cup {"any"}
    BY <1>2 DEF Value, Stored
  <2>2. NewElement(s) \in Values
    BY <1>1, <2>1, ConvertTyped DEF NewElement
  <2> QED BY <1>4, <1>5, <2>2
<1>7. w \in Stored /\ w.cells = c
  BY <1>2, <1>6 DEF Stored
<1>8. heap' = [heap EXCEPT ![d] = w] /\ Data' = Data
  BY DEF StoreElement
<1>9. Writes(s) = c
  BY <1>2 DEF Writes
<1> HIDE DEF w, c, v, d
<1>10. /\ heap' \in Seq(Stored \cup {Absent}) /\ Len(heap') = Len(heap) /\ heap'[d] = w
       /\ \A i \in 1..Len(heap) : i # d => heap'[i] = heap[i]
  BY <1>3, <1>7, <1>8
<1>11. Existing' = Existing
  BY <1>8 DEF Existing
<1>12. Value(s.tag)' = w /\ \A t \in Existing : t # s.tag => Value(t)' = Value(t)
  <2>1. \A t \in Existing : t # s.tag => Data[t] \in 1..Len(heap) /\ Data[t] # d
    BY <1>2, <1>3 DEF NotShared, StoreInv, Existing, d
  <2> QED BY <1>8, <1>10, <2>1 DEF Value, d
<1>13. StoreTypes'
  <2>1. \A t \in Existing' : Value(t)' \in Stored
    BY <1>7, <1>11, <1>12 DEF StoreInv, StoreTypes
  <2>2. tagmap' \in [Tags -> Seq(Values)]
    BY <1>1, <1>6, <1>9 DEF StoreInv, StoreTypes
  <2> QED BY <1>3, <1>8, <1>10, <2>1, <2>2 DEF StoreTypes
<1>14. HeldAsWritten'
  BY <1>1, <1>7, <1>9, <1>11, <1>12 DEF HeldAsWritten, StoreInv, StoreTypes, Existing
<1>15. NotShared'
  BY <1>8, <1>11 DEF NotShared, StoreInv
<1> QED BY <1>2, <1>6, <1>7, <1>8, <1>9, <1>10, <1>11, <1>13, <1>14, <1>15 DEF StoreInv, d, v

LEMMA StoreStep == Control /\ StoreInv /\ [Next]_vars => StoreInv' /\ Existing \subseteq Existing'
<1> SUFFICES ASSUME Control, StoreInv, [Next]_vars PROVE StoreInv' /\ Existing \subseteq Existing'
  OBVIOUS
<1>1. CASE UNCHANGED store
  BY <1>1 DEF store, StoreInv, StoreTypes, HeldAsWritten, NotShared, Existing, Value
<1>2. ASSUME NEW h \in Handlers, TagWrite(h) PROVE StoreInv' /\ Existing \subseteq Existing'
  <2>1. Current(h) \in Service
    BY <1>2, CurrentService DEF TagWrite, At
  <2> QED BY <1>2, <2>1, StoreWhole, StoreOne DEF TagWrite
<1> QED BY <1>1, <1>2 DEF Next, vars, store, Receive, connectedSymbolList, unconnectedServiceGetAttrSingle,
       unconnectedServiceSetAttrSingle, Resolve, TagRead, TagReadFails, SerializeElement, SerializeFails, TagWriteFails,
       TagReadPanics, TagWritePanics

-----------------------------------------------------------------------------
(* What a handler reads.                                                    *)

CopyTypes ==
  /\ reading \in [Handlers -> [tag : Tags, at : 0..Len(heap), from : Nat \ {0}, qty : Nat]]
  /\ got \in [Handlers -> Seq(Values)]
  /\ seen \in [Handlers -> SUBSET Seq(Values)]
  /\ touched \in [Handlers -> BOOLEAN]

(* A handler's read.  The array it serializes is, as it is now, something   *)
(* the tag held since TagRead, and no other tag's; while no element was     *)
(* written it is as it was handed out.  What it has so far is Regular and   *)
(* a Snapshot.                                                              *)
ReadOf(h) ==
  /\ pc[h] = "serialize" =>
       /\ reading[h].at # 0 /\ heap[reading[h].at] \in Stored
       /\ reading[h].from + reading[h].qty - 1 <= Len(heap[reading[h].at].cells)
       /\ Len(got[h]) < reading[h].qty
       /\ heap[reading[h].at].cells \in seen[h]
       /\ \A t \in Existing : Data[t] = reading[h].at => t = reading[h].tag
       /\ ~touched[h] => Matches(h, heap[reading[h].at].cells)
  /\ \A i \in DOMAIN got[h] : \E c \in seen[h] :
       reading[h].from + i - 1 \in DOMAIN c /\ got[h][i] = c[reading[h].from + i - 1]
  /\ got[h] # <<>> /\ ~touched[h] => \E c \in seen[h] : Matches(h, c)

CopyInv == CopyTypes /\ \A h \in Handlers : ReadOf(h)

(* Handlers that do not read are left alone by what others do. *)
LEMMA ReadUndisturbed ==
  ASSUME NEW h \in Handlers, ReadOf(h), UNCHANGED <<heap, Data>>, pc'[h] = "serialize" => pc[h] = "serialize",
         reading'[h] = reading[h], got'[h] = got[h], seen'[h] = seen[h], touched'[h] = touched[h]
  PROVE  ReadOf(h)'
BY DEF ReadOf, Matches, Existing

(* What is asked for is in the array. *)
LEMMA ReadableFits ==
  ASSUME StoreInv, NEW s \in Service, Readable(s)
  PROVE  /\ s.tag \in Existing /\ Value(s.tag) \in Stored
         /\ Value(s.tag).cells = tagmap[s.tag] /\ tagmap[s.tag] \in Seq(Values)
         /\ First(s) \in Nat \ {0} /\ First(s) <= Len(tagmap[s.tag])
         /\ s.qty \in Nat \ {0} /\ (~IsCopy(s) => First(s) + s.qty - 1 <= Len(tagmap[s.tag]))
<1>1. s.tag \in Tags /\ s.elem \in Nat /\ s.qty \in Nat \ {0}
  BY DEF Service
<1>2. s.tag \in Existing /\ Value(s.tag) \in Stored
  BY <1>1 DEF Readable, Existing, StoreInv, StoreTypes
<1>3. Value(s.tag).cells = tagmap[s.tag] /\ tagmap[s.tag] \in Seq(Values)
  BY <1>1, <1>2 DEF StoreInv, StoreTypes, HeldAsWritten
<1>4. tagmap[s.tag] # <<>>
  BY <1>2, <1>3 DEF Stored
<1>5. Len(tagmap[s.tag]) \in Nat /\ Len(tagmap[s.tag]) >= 1
  BY <1>3, <1>4
<1> QED BY <1>1, <1>2, <1>3, <1>5 DEF Readable, First, IsCopy

(* TagRead: an element or a scalar is a copy, made at once; else the array  *)
(* is handed out as it is.                                                  *)
LEMMA TagReadCopies ==
  ASSUME Control, StoreInv, CopyInv, NEW h \in Handlers, TagRead(h)
  PROVE  CopyInv'
<1> DEFINE s == Current(h)
           v == Value(s.tag)
           c == tagmap[s.tag]
<1>1. s \in Service /\ Readable(s) /\ pc[h] = "serve"
  BY CurrentService DEF TagRead, At
<1>2. /\ s.tag \in Existing /\ v \in Stored /\ v.cells = c /\ c \in Seq(Values)
      /\ First(s) \in Nat \ {0} /\ First(s) <= Len(c)
      /\ s.qty \in Nat \ {0} /\ (~IsCopy(s) => First(s) + s.qty - 1 <= Len(c))
  BY <1>1, ReadableFits
<1>3. /\ UNCHANGED <<heap, Data>>
      /\ seen' = [seen EXCEPT ![h] = {c}] /\ touched' = [touched EXCEPT ![h] = FALSE]
  BY DEF TagRead, store
<1>4. \A g \in Handlers : g # h => pc'[g] = pc[g]
  BY DEF TagRead, Done, Goto, Control, ControlTypes
<1>5. First(s) \in DOMAIN c /\ c[First(s)] \in Values
  BY <1>2
<1>6. s.tag \in Tags /\ Data[s.tag] \in 0..Len(heap) /\ Data[s.tag] # 0 /\ v = heap[Data[s.tag]]
  BY <1>2 DEF Existing, StoreInv, StoreTypes, Value
<1>7. CASE IsCopy(s)
  <2> DEFINE r == [tag |-> s.tag, at |-> 0, from |-> First(s), qty |-> 1]
  <2>1. got' = [got EXCEPT ![h] = <<v.cells[First(s)]>>] /\ reading' = [reading EXCEPT ![h] = r]
    BY <1>7 DEF TagRead
  <2>2. pc'[h] # "serialize"
    BY <1>7 DEF TagRead, Done, Goto, Control, ControlTypes
  <2> HIDE DEF s, v, c
  <2>3. /\ got'[h] = <<c[First(s)]>> /\ reading'[h] = r /\ seen'[h] = {c} /\ touched'[h] = FALSE
        /\ \A g \in Handlers : g # h => /\ reading'[g] = reading[g] /\ got'[g] = got[g]
                                        /\ seen'[g] = seen[g] /\ touched'[g] = touched[g]
    BY <1>2, <1>3, <2>1 DEF CopyInv, CopyTypes
  <2>4. CopyTypes'
    BY <1>2, <1>3, <1>5, <1>6, <2>1 DEF CopyInv, CopyTypes
  <2>5. \A d : d = c => Matches(h, d)'
    BY <1>2, <1>5, <2>3 DEF Matches
  <2>6. ReadOf(h)'
    <3>1. \E d \in seen'[h] : Matches(h, d)'
      BY <2>3, <2>5
    <3> QED BY <2>2, <3>1 DEF ReadOf, Matches
  <2>7. \A g \in Handlers : g # h => ReadOf(g)'
    BY <1>3, <1>4, <2>3, ReadUndisturbed DEF CopyInv
  <2> QED BY <2>4, <2>6, <2>7 DEF CopyInv
<1>8. CASE ~IsCopy(s)
  <2> DEFINE r == [tag |-> s.tag, at |-> Data[s.tag], from |-> First(s), qty |-> s.qty]
  <2>1. got' = [got EXCEPT ![h] = <<>>] /\ reading' = [reading EXCEPT ![h] = r]
    BY <1>8 DEF TagRead
  <2> HIDE DEF s, v, c
  <2>2. /\ got'[h] = <<>> /\ reading'[h] = r /\ seen'[h] = {c} /\ touched'[h] = FALSE
        /\ \A g \in Handlers : g # h => /\ reading'[g] = reading[g] /\ got'[g] = got[g]
                                        /\ seen'[g] = seen[g] /\ touched'[g] = touched[g]
    BY <1>2, <1>3, <2>1 DEF CopyInv, CopyTypes
  <2>3. CopyTypes'
    BY <1>2, <1>3, <1>6, <2>1 DEF CopyInv, CopyTypes
  <2>4. Existing' = Existing /\ \A t \in Existing : Data[t] = Data[s.tag] => t = s.tag
    BY <1>2, <1>3 DEF Existing, StoreInv, NotShared
  <2>5. ReadOf(h)'
    BY <1>2, <1>3, <1>6, <1>8, <2>2, <2>4 DEF ReadOf, Matches
  <2>6. \A g \in Handlers : g # h => ReadOf(g)'
    BY <1>3, <1>4, <2>2, ReadUndisturbed DEF CopyInv
  <2> QED BY <2>3, <2>5, <2>6 DEF CopyInv
<1> QED BY <1>7, <1>8

(* Serialize takes the next element of the array, as it is now. *)
LEMMA SerializeTakes ==
  ASSUME Control, StoreInv, CopyInv, NEW h \in Handlers, SerializeElement(h)
  PROVE  CopyInv'
<1> DEFINE r == reading[h]
           c == heap[r.at].cells
           k == r.from + Len(got[h])
           x == c[k]
<1>1. pc[h] = "serialize" /\ got' = [got EXCEPT ![h] = Append(@, x)] /\ UNCHANGED <<heap, Data, reading, seen, touched>>
  BY DEF SerializeElement, store
<1>2. /\ r.at # 0 /\ heap[r.at] \in Stored /\ r.from + r.qty - 1 <= Len(c) /\ Len(got[h]) < r.qty
      /\ c \in seen[h] /\ \A t \in Existing : Data[t] = r.at => t = r.tag
      /\ ~touched[h] => Matches(h, c)
  BY <1>1 DEF CopyInv, ReadOf
<1>3. c \in Seq(Values) /\ got[h] \in Seq(Values) /\ r.from \in Nat \ {0} /\ r.qty \in Nat
  BY <1>2 DEF CopyInv, CopyTypes, Stored
<1>4. k \in DOMAIN c /\ x \in Values
  <2> HIDE DEF c, r
  <2>1. Len(got[h]) \in Nat /\ Len(c) \in Nat /\ DOMAIN c = 1..Len(c)
    BY <1>3
  <2>2. k \in 1..Len(c)
    BY <1>2, <1>3, <2>1
  <2> QED BY <1>3, <2>1, <2>2
<1>5. \A g \in Handlers : g # h => pc'[g] = pc[g] /\ got'[g] = got[g]
  BY <1>1 DEF SerializeElement, Done, Goto, Control, ControlTypes, CopyInv, CopyTypes
<1>6. pc'[h] = "serialize" => Len(got[h]) + 1 # r.qty
  BY <1>1 DEF SerializeElement, Done, Goto, Control, ControlTypes
<1>7. got'[h] = Append(got[h], x) /\ Len(got'[h]) = Len(got[h]) + 1 /\ got'[h] \in Seq(Values)
  BY <1>1, <1>3, <1>4 DEF CopyInv, CopyTypes
<1> HIDE DEF x, c
<1>8. \A i \in DOMAIN got'[h] : \/ i \in DOMAIN got[h] /\ got'[h][i] = got[h][i]
                                \/ r.from + i - 1 = k /\ got'[h][i] = x
  <2> HIDE DEF r
  <2>1. Len(got[h]) \in Nat /\ DOMAIN got'[h] = 1..(Len(got[h]) + 1) /\ DOMAIN got[h] = 1..Len(got[h])
    BY <1>3, <1>7
  <2>2. \A i \in 1..Len(got[h]) : got'[h][i] = got[h][i]
    BY <1>3, <1>7
  <2>3. got'[h][Len(got[h]) + 1] = x
    BY <1>3, <1>7
  <2>4. r.from \in Nat /\ k = r.from + Len(got[h])
    BY <1>3
  <2> HIDE DEF k
  <2> QED BY ONLY <2>1, <2>2, <2>3, <2>4
<1>9. CopyTypes'
  BY <1>1, <1>7 DEF CopyInv, CopyTypes
<1>10. ~touched[h] => Matches(h, c)'
  <2>1. x = c[k]
    BY DEF x
  <2> QED BY <1>1, <1>2, <1>4, <1>8, <2>1 DEF Matches, c
<1>11. ReadOf(h)'
  <2>1. \A i \in DOMAIN got'[h] : \E d \in seen[h] : r.from + i - 1 \in DOMAIN d /\ got'[h][i] = d[r.from + i - 1]
    <3>1. x = c[k]
      BY DEF x
    <3> QED BY <1>2, <1>4, <1>8, <3>1 DEF CopyInv, ReadOf
  <2>2. got'[h] # <<>> /\ ~touched'[h] => \E d \in seen'[h] : Matches(h, d)'
    <3>1. ~touched[h] => \A d : d = c => Matches(h, d)'
      BY <1>1, <1>10 DEF c, Matches
    <3> QED BY <1>1, <1>2, <3>1
  <2>3. pc'[h] = "serialize" => Len(got'[h]) < r.qty
    BY <1>2, <1>3, <1>6, <1>7
  <2>4. Existing' = Existing
    BY <1>1 DEF Existing
  <2> QED BY <1>1, <1>2, <1>10, <2>1, <2>2, <2>3, <2>4 DEF ReadOf, c
<1>12. \A g \in Handlers : g # h => ReadOf(g)'
  BY <1>1, <1>5, ReadUndisturbed DEF CopyInv
<1> QED BY <1>9, <1>11, <1>12 DEF CopyInv

(* A write disturbs no read: a whole write leaves the array that was handed *)
(* out alone, and an element that is written in it is something the tag     *)
(* holds now.                                                               *)
LEMMA WriteKeepsReads ==
  ASSUME Control, StoreInv, CopyInv, NEW h \in Handlers, TagWrite(h)
  PROVE  CopyInv'
<1> DEFINE s == Current(h)
           w == Writes(s)
<1>1. s \in Service /\ pc[h] = "serve" /\ Writable(s)
  BY CurrentService DEF TagWrite, At
<1>2. /\ UNCHANGED <<reading, got>>
      /\ seen' = [g \in Handlers |-> IF Reads(g, s.tag) THEN seen[g] \cup {w} ELSE seen[g]]
      /\ touched' = [g \in Handlers |-> touched[g] \/ (Reads(g, s.tag) /\ s.elem # 0)]
      /\ tagmap' = [tagmap EXCEPT ![s.tag] = w]
      /\ IF s.elem = 0 THEN Store(s) ELSE StoreElement(s)
  BY DEF TagWrite
<1>3. \A g \in Handlers : pc'[g] = "serialize" => pc[g] = "serialize"
  BY DEF TagWrite, Done, Goto, Control, ControlTypes
<1> HIDE DEF s
<1>4. w \in Seq(Values)
  BY <1>1, <1>2, StoreOne, CellsTyped DEF Writes, Writable
<1>5. Len(heap) \in Nat /\ Len(heap') \in Nat /\ Len(heap) <= Len(heap')
  <2>1. Len(heap) \in Nat
    BY DEF StoreInv, StoreTypes
  <2>2. Len(heap') \in {Len(heap), Len(heap) + 1}
    <3>1. CASE s.elem = 0
      BY <1>1, <1>2, <3>1, StoreWhole
    <3>2. CASE s.elem # 0
      BY <1>1, <1>2, <3>2, StoreOne
    <3> QED BY <3>1, <3>2
  <2> QED BY <2>1, <2>2
<1>6. CopyTypes'
  <2>1. \A g \in Handlers : touched'[g] \in BOOLEAN
    BY <1>2
  <2>2. seen' \in [Handlers -> SUBSET Seq(Values)]
    BY <1>2, <1>4 DEF CopyInv, CopyTypes
  <2>3. touched' \in [Handlers -> BOOLEAN]
    BY <1>2, <2>1
  <2>4. reading' \in [Handlers -> [tag : Tags, at : 0..Len(heap'), from : Nat \ {0}, qty : Nat]]
    <3>1. 0..Len(heap) \subseteq 0..Len(heap')
      BY <1>5
    <3> QED BY <1>2, <3>1 DEF CopyInv, CopyTypes
  <2> QED BY <1>2, <2>2, <2>3, <2>4 DEF CopyInv, CopyTypes
<1>7. ASSUME NEW g \in Handlers PROVE ReadOf(g)'
  <2> DEFINE r == reading[g]
  <2>1. ReadOf(g) /\ reading'[g] = r /\ got'[g] = got[g] /\ seen[g] \subseteq seen'[g] /\ (~touched'[g] => ~touched[g])
    BY <1>2 DEF CopyInv
  <2>2. \A i \in DOMAIN got'[g] : \E c \in seen'[g] :
          reading'[g].from + i - 1 \in DOMAIN c /\ got'[g][i] = c[reading'[g].from + i - 1]
    BY <2>1 DEF ReadOf
  <2>3. \A d : Matches(g, d) => Matches(g, d)'
    BY <1>2 DEF Matches
  <2>4. got'[g] # <<>> /\ ~touched'[g] => \E c \in seen'[g] : Matches(g, c)'
    BY <2>1, <2>3 DEF ReadOf
  <2>5. CASE pc[g] # "serialize"
    BY <1>3, <2>2, <2>4, <2>5 DEF ReadOf
  <2>6. CASE pc[g] = "serialize"
    <3>1. /\ r.at # 0 /\ heap[r.at] \in Stored /\ r.from + r.qty - 1 <= Len(heap[r.at].cells)
          /\ Len(got[g]) < r.qty /\ heap[r.at].cells \in seen[g]
          /\ \A t \in Existing : Data[t] = r.at => t = r.tag
          /\ ~touched[g] => Matches(g, heap[r.at].cells)
      BY <2>1, <2>6 DEF ReadOf
    <3>2. r.at \in 1..Len(heap)
      BY <1>5, <3>1 DEF CopyInv, CopyTypes
    <3>3. /\ heap'[r.at] \in Stored /\ Len(heap'[r.at].cells) = Len(heap[r.at].cells)
          /\ heap'[r.at].cells \in seen'[g]
          /\ heap'[r.at] = heap[r.at] \/ touched'[g]
          /\ \A t \in Existing' : Data'[t] = r.at => t = r.tag
      <4>1. CASE s.elem = 0
        <5>1. /\ Existing' = Existing \cup {s.tag} /\ heap'[r.at] = heap[r.at]
              /\ \A t \in Tags : Data'[t] = IF t = s.tag THEN Len(heap) + 1 ELSE Data[t]
          BY <1>1, <1>2, <3>2, <4>1, StoreWhole
        <5>2. s.tag \in Tags /\ Existing \subseteq Tags
          BY <1>1 DEF Service, Existing
        <5>3. \A t \in Existing' : Data'[t] = r.at => t = r.tag
          BY <1>5, <3>1, <3>2, <5>1, <5>2
        <5> QED BY <2>1, <3>1, <5>1, <5>3
      <4>2. CASE s.elem # 0
        <5>1. /\ Existing' = Existing /\ Data' = Data /\ s.tag \in Existing
              /\ \A i \in 1..Len(heap) : i # Data[s.tag] => heap'[i] = heap[i]
              /\ heap'[Data[s.tag]] \in Stored /\ heap'[Data[s.tag]].cells = w
              /\ Len(w) = Len(heap[Data[s.tag]].cells)
          BY <1>1, <1>2, <4>2, StoreOne
        <5>2. CASE r.at # Data[s.tag]
          BY <2>1, <3>1, <3>2, <5>1, <5>2
        <5>3. CASE r.at = Data[s.tag]
          <6>1. Reads(g, s.tag)
            BY <2>6, <3>1, <5>1, <5>3 DEF Reads
          <6>2. seen'[g] = seen[g] \cup {w} /\ touched'[g]
            BY <1>2, <4>2, <6>1
          <6> QED BY <3>1, <5>1, <5>3, <6>2
        <5> QED BY <5>2, <5>3
      <4> QED BY <4>1, <4>2
    <3>4. ~touched'[g] => Matches(g, heap[r.at].cells)' /\ heap'[r.at] = heap[r.at]
      BY <2>1, <2>3, <3>1, <3>3 DEF Matches
    <3> QED BY <2>1, <2>2, <2>4, <3>1, <3>3, <3>4 DEF ReadOf
  <2> QED BY <2>5, <2>6
<1> QED BY <1>6, <1>7 DEF CopyInv

LEMMA CopyStep == Control /\ StoreInv /\ CopyInv /\ [Next]_vars => CopyInv'
<1> SUFFICES ASSUME Control, StoreInv, CopyInv, [Next]_vars PROVE CopyInv'
  OBVIOUS
<1>1. CASE \E h \in Handlers : TagRead(h) \/ SerializeElement(h) \/ TagWrite(h)
  BY <1>1, TagReadCopies, SerializeTakes, WriteKeepsReads
<1>2. CASE UNCHANGED <<store, copy>> /\ \A g \in Handlers : pc'[g] = "serialize" => pc[g] = "serialize"
  <2>1. CopyTypes'
    BY <1>2 DEF CopyInv, CopyTypes, store, copy
  <2>2. \A g \in Handlers : ReadOf(g)'
    BY <1>2, ReadUndisturbed DEF CopyInv, store, copy
  <2> QED BY <2>1, <2>2 DEF CopyInv
<1> QED BY <1>1, <1>2 DEF Next, vars, store, copy, Receive, connectedSymbolList, unconnectedServiceGetAttrSingle,
       unconnectedServiceSetAttrSingle, Resolve, TagReadFails, SerializeFails, TagWriteFails, ProviderFails,
       TagReadPanics, TagWritePanics, ServerDies, SessionEnds, sendUnconnectedErrorReply, Goto, Control, ControlTypes

-----------------------------------------------------------------------------
(* Lists of tags.                                                           *)

ListInv == names \in [Handlers -> Seq(Tags)] /\ ListSent /\ FoundInList

(* What was said of a list stays true while only tags are added.            *)
LEMMA ListKept ==
  ASSUME ListInv, NEW h \in Handlers, Existing \subseteq Existing', names'[h] = names[h],
         pc'[h] = "serve" /\ todo'[h].via = "attr" =>
            pc[h] = "serve" /\ todo'[h] = todo[h]
  PROVE  /\ \E S \in SUBSET Existing' : names'[h] = Sorted(S)
         /\ pc'[h] = "serve" /\ todo'[h].via = "attr" =>
              \E S \in SUBSET Existing' :
                /\ ToSet(names'[h]) \subseteq S
                /\ todo'[h].instance \in DOMAIN Sorted(S) /\ Current(h)'.tag = Sorted(S)[todo'[h].instance]
<1>1. \E S \in SUBSET Existing' : names'[h] = Sorted(S)
  BY DEF ListInv, ListSent
<1>2. ASSUME pc'[h] = "serve", todo'[h].via = "attr"
      PROVE  \E S \in SUBSET Existing' :
                /\ ToSet(names'[h]) \subseteq S
                /\ todo'[h].instance \in DOMAIN Sorted(S) /\ Current(h)'.tag = Sorted(S)[todo'[h].instance]
  BY <1>2 DEF ListInv, FoundInList, Current
<1> QED BY <1>1, <1>2

(* A handler that goes on to another service has not looked up a position.  *)
LEMMA DoneLists ==
  ASSUME Control, NEW h \in Handlers, pc[h] \in {"serve", "serialize"}, Done(h), todo'[h].via = "attr"
  PROVE  pc'[h] # "serve"
<1>1. todo[h] \in Pending /\ todo[h].services \in Seq(Service) /\ todo'[h].via = todo[h].via
  BY DEF Done, Control, ControlTypes, Pending
<1>2. ~(Len(todo[h].services) > 1)
  <2>1. Len(todo[h].services) <= 1 /\ Len(todo[h].services) \in Nat
    BY <1>1 DEF Control, ServicesLeft
  <2> QED BY <2>1
<1> QED BY <1>2 DEF Done, Goto, Control, ControlTypes

LEMMA ResolveLists ==
  ASSUME Control, ListInv, NEW h \in Handlers, NEW op, Resolve(h, op), pc'[h] = "serve"
  PROVE  \E S \in SUBSET Existing :
           /\ ToSet(names[h]) \subseteq S
           /\ todo'[h].instance \in DOMAIN Sorted(S) /\ Current(h)'.tag = Sorted(S)[todo'[h].instance]
<1>1. PICK k \in DOMAIN Sorted(Existing) :
        k = todo[h].instance /\ todo' = [todo EXCEPT ![h].services[1].tag = Sorted(Existing)[k]]
  BY ResolveFinds DEF sendUnconnectedErrorReply, Goto, Control, ControlTypes
<1>2. todo[h] \in Pending /\ todo[h].services \in Seq(Service) /\ todo[h].services # <<>>
  BY DEF Control, ControlTypes, ServicesLeft, Pending, Resolve
<1>3. 1 \in DOMAIN todo[h].services /\ todo[h].services[1] \in Service
  BY <1>2
<1> DEFINE q1 == [todo[h].services EXCEPT ![1].tag = Sorted(Existing)[k]]
<1>4. todo'[h] = [todo[h] EXCEPT !.services = q1]
  BY <1>1 DEF Control, ControlTypes
<1>5. q1[1].tag = Sorted(Existing)[k] /\ Head(q1) = q1[1]
  BY <1>2, <1>3 DEF Service
<1>6. todo'[h].services = q1 /\ todo'[h].instance = k
  <2> HIDE DEF q1
  <2> QED BY <1>1, <1>2, <1>4 DEF Pending
<1>7. Current(h)'.tag = Sorted(Existing)[todo'[h].instance] /\ todo'[h].instance \in DOMAIN Sorted(Existing)
  BY <1>1, <1>5, <1>6 DEF Current
<1>8. ToSet(names[h]) \subseteq Existing
  <2>1. PICK S \in SUBSET Existing : names[h] = Sorted(S)
    BY DEF ListInv, ListSent
  <2>2. S \in SUBSET Tags
    BY DEF Existing
  <2> QED BY <2>1, <2>2, SortedTags
<1> QED BY <1>7, <1>8

LEMMA ListStep == Control /\ StoreInv /\ ListInv /\ [Next]_vars => ListInv'
<1> SUFFICES ASSUME Control, StoreInv, ListInv, [Next]_vars PROVE ListInv'
  OBVIOUS
<1>1. Existing \subseteq Existing' /\ Existing \in SUBSET Tags
  BY StoreStep DEF Existing
<1> DEFINE Sent(h) == \E S \in SUBSET Existing' : names'[h] = Sorted(S)
           Found(h) == pc'[h] = "serve" /\ todo'[h].via = "attr" =>
              \E S \in SUBSET Existing' :
                /\ ToSet(names'[h]) \subseteq S
                /\ todo'[h].instance \in DOMAIN Sorted(S) /\ Current(h)'.tag = Sorted(S)[todo'[h].instance]
<1>2. SUFFICES names' \in [Handlers -> Seq(Tags)] /\ \A h \in Handlers : Sent(h) /\ Found(h)
  BY DEF ListInv, ListSent, FoundInList
<1> HIDE DEF Sent, Found
<1>3. ASSUME NEW h \in Handlers, names'[h] = names[h], pc'[h] # "serve" \/ todo'[h].via # "attr" \/ UNCHANGED <<pc[h], todo[h]>>
      PROVE  Sent(h) /\ Found(h)
  BY <1>1, <1>3, ListKept DEF Sent, Found
<1>4. CASE UNCHANGED vars
  BY <1>3, <1>4 DEF vars, ListInv
<1>5. ASSUME NEW h \in Handlers, NEW r \in Requests, Receive(h, r)
      PROVE  names' \in [Handlers -> Seq(Tags)] /\ \A g \in Handlers : Sent(g) /\ Found(g)
  <2>1. names' = names /\ (pc'[h] = "serve" => todo'[h].via # "attr") /\ \A g \in Handlers : g # h => UNCHANGED <<pc[g], todo[g]>>
    BY <1>5 DEF Receive, Goto, Control, ControlTypes
  <2> QED BY <1>3, <2>1 DEF ListInv
<1>6. ASSUME NEW h \in Handlers, connectedSymbolList(h)
      PROVE  names' \in [Handlers -> Seq(Tags)] /\ \A g \in Handlers : Sent(g) /\ Found(g)
  <2>1. names' = [names EXCEPT ![h] = Sorted(Existing)] /\ UNCHANGED <<pc, todo>> /\ pc[h] = "idle"
    BY <1>6 DEF connectedSymbolList, TagList
  <2>2. Sorted(Existing) \in Seq(Tags)
    BY <1>1, SortedTags
  <2>3. names' \in [Handlers -> Seq(Tags)] /\ names'[h] = Sorted(Existing) /\ \A g \in Handlers : g # h => names'[g] = names[g]
    BY <2>1, <2>2 DEF ListInv
  <2>4. Sent(h) /\ Found(h)
    BY <1>1, <2>1, <2>3 DEF Sent, Found
  <2>5. \A g \in Handlers : g # h => Sent(g) /\ Found(g)
    BY <1>3, <2>1, <2>3
  <2> QED BY <2>3, <2>4, <2>5
<1>7. ASSUME NEW h \in Handlers, NEW op, Resolve(h, op)
      PROVE  names' \in [Handlers -> Seq(Tags)] /\ \A g \in Handlers : Sent(g) /\ Found(g)
  <2>1. names' = names /\ \A g \in Handlers : g # h => UNCHANGED <<pc[g], todo[g]>>
    BY <1>7, ResolveFinds DEF Resolve, sendUnconnectedErrorReply, Goto, Control, ControlTypes
  <2>2. Sent(h) /\ Found(h)
    <3>1. Sent(h)
      BY <1>1, <2>1 DEF Sent, ListInv, ListSent
    <3>2. Found(h)
      BY <1>1, <1>7, <2>1, ResolveLists DEF Found
    <3> QED BY <3>1, <3>2
  <2>3. \A g \in Handlers : g # h => Sent(g) /\ Found(g)
    BY <1>3, <2>1
  <2> QED BY <2>1, <2>2, <2>3 DEF ListInv
<1>8. ASSUME NEW h \in Handlers,
             TagRead(h) \/ TagReadFails(h) \/ SerializeElement(h) \/ SerializeFails(h) \/ TagWrite(h) \/ TagWriteFails(h)
      PROVE  names' \in [Handlers -> Seq(Tags)] /\ \A g \in Handlers : Sent(g) /\ Found(g)
  <2>1. names' = names /\ pc[h] \in {"serve", "serialize"}
    BY <1>8 DEF TagRead, TagReadFails, SerializeElement, SerializeFails, TagWrite, TagWriteFails, At
  <2>2. \/ Done(h) \/ SessionEnds(h) \/ sendUnconnectedErrorReply(h)
        \/ UNCHANGED <<pc, todo>>
        \/ Goto(h, "serialize") /\ UNCHANGED todo
    BY <1>8 DEF TagRead, TagReadFails, SerializeElement, SerializeFails, TagWrite, TagWriteFails, ProviderFails
  <2>3. \A g \in Handlers : g # h => UNCHANGED <<pc[g], todo[g]>>
    BY <2>2 DEF Done, SessionEnds, sendUnconnectedErrorReply, Goto, Control, ControlTypes
  <2>4. pc'[h] # "serve" \/ todo'[h].via # "attr" \/ UNCHANGED <<pc[h], todo[h]>>
    BY <2>1, <2>2, DoneLists DEF SessionEnds, sendUnconnectedErrorReply, Goto, Control, ControlTypes
  <2> QED BY <1>3, <2>1, <2>3, <2>4 DEF ListInv
<1>9. ASSUME NEW h \in Handlers, TagReadPanics(h) \/ TagWritePanics(h)
      PROVE  names' \in [Handlers -> Seq(Tags)] /\ \A g \in Handlers : Sent(g) /\ Found(g)
  <2>1. names' = names /\ \A g \in Handlers : pc'[g] = "gone"
    BY <1>9 DEF TagReadPanics, TagWritePanics, ServerDies
  <2> QED BY <1>3, <2>1 DEF ListInv
<1> QED BY <1>2, <1>4, <1>5, <1>6, <1>7, <1>8, <1>9 DEF Next, unconnectedServiceGetAttrSingle, unconnectedServiceSetAttrSingle

-----------------------------------------------------------------------------
(* Theorems.                                                                *)

IInv == Control /\ StoreInv /\ CopyInv /\ ListInv

LEMMA InitStore == Init => StoreInv
<1> SUFFICES ASSUME Init PROVE StoreInv
  OBVIOUS
<1>1. /\ heap = [i \in DOMAIN Names |-> Initial[Names[i]]]
      /\ Data = [t \in Tags |-> IF Initial[t] = Absent THEN 0 ELSE Place(t)]
      /\ tagmap = [t \in Tags |-> IF Initial[t] = Absent THEN <<>> ELSE Initial[t].cells]
  BY DEF Init
<1>2. DOMAIN Names = 1..Len(Names) /\ Len(Names) \in Nat
  OBVIOUS
<1>3. heap \in Seq(Stored \cup {Absent}) /\ Len(heap) = Len(Names)
  <2>1. heap \in [1..Len(Names) -> Stored \cup {Absent}]
    BY <1>1, <1>2, Places
  <2> QED BY <1>2, <2>1
<1>4. Data \in [Tags -> 0..Len(heap)]
  BY <1>1, <1>2, <1>3, Places
<1>5. \A t \in Existing : Data[t] = Place(t) /\ Value(t) = Initial[t] /\ Initial[t] \in Stored /\ tagmap[t] = Initial[t].cells
  <2> SUFFICES ASSUME NEW t \in Existing
               PROVE  Data[t] = Place(t) /\ Value(t) = Initial[t] /\ Initial[t] \in Stored /\ tagmap[t] = Initial[t].cells
    OBVIOUS
  <2>1. t \in Tags /\ Data[t] # 0
    BY DEF Existing
  <2>2. Initial[t] # Absent /\ Data[t] = Place(t) /\ Initial[t] \in Stored
    BY <1>1, <2>1
  <2>3. Place(t) \in DOMAIN Names /\ Names[Place(t)] = t
    BY <1>2, <2>1, Places
  <2>4. Value(t) = Initial[t]
    BY <1>1, <2>2, <2>3 DEF Value
  <2> QED BY <1>1, <2>1, <2>2, <2>4
<1>6. tagmap \in [Tags -> Seq(Values)]
  <2>1. ASSUME NEW t \in Tags PROVE (IF Initial[t] = Absent THEN <<>> ELSE Initial[t].cells) \in Seq(Values)
    <3>1. CASE Initial[t] = Absent
      BY <3>1
    <3>2. CASE Initial[t] # Absent
      <4>1. Initial[t] \in Stored
        BY <3>2
      <4> QED BY <3>2, <4>1 DEF Stored
    <3> QED BY <3>1, <3>2
  <2> QED BY <1>1, <2>1
<1>7. StoreTypes
  BY <1>3, <1>4, <1>5, <1>6 DEF StoreTypes
<1>8. HeldAsWritten
  BY <1>5 DEF HeldAsWritten
<1>9. NotShared
  <2>1. \A t \in Existing : t \in Tags
    BY DEF Existing
  <2> QED BY <1>5, <2>1, Places DEF NotShared
<1> QED BY <1>7, <1>8, <1>9 DEF StoreInv

LEMMA Invariant == Spec => []IInv
<1>1. Init => IInv
  <2> SUFFICES ASSUME Init PROVE IInv
    OBVIOUS
  <2>1. StoreInv
    BY InitStore
  <2>2. Control
    <3>1. Idle \in Pending /\ Idle.services = <<>> /\ Len(Idle.services) <= 1
      BY DEF Idle, Pending
    <3> QED BY <3>1 DEF Init, Control, ControlTypes, ServicesLeft
  <2>3. CopyInv
    <3>1. 1 \in DOMAIN Names /\ Names[1] \in Tags
      OBVIOUS
    <3>2. Nowhere \in [tag : Tags, at : 0..Len(heap), from : Nat \ {0}, qty : Nat]
      <4>1. Len(heap) \in Nat
        BY <2>1 DEF StoreInv, StoreTypes
      <4> QED BY <3>1, <4>1 DEF Nowhere
    <3>3. CopyTypes
      BY <3>2 DEF Init, CopyTypes
    <3>4. \A h \in Handlers : ReadOf(h)
      BY DEF Init, ReadOf
    <3> QED BY <3>3, <3>4 DEF CopyInv
  <2>4. ListInv
    <3>1. Sorted({}) = <<>>
      <4>1. {} \in SUBSET Tags
        OBVIOUS
      <4>2. Sorted({}) \in Seq(Tags) /\ ToSet(Sorted({})) = {}
        BY ONLY <4>1, SortedTags
      <4>3. Len(Sorted({})) = 0
        <5> DEFINE l == Sorted({})
        <5>1. l \in Seq(Tags) /\ ToSet(l) = {}
          BY <4>2
        <5> HIDE DEF l
        <5>2. 1 \notin DOMAIN l
          BY <5>1 DEF ToSet
        <5>3. Len(l) = 0
          BY <5>1, <5>2
        <5> QED BY <5>3 DEF l
      <4> QED BY <4>2, <4>3
    <3>2. \A h \in Handlers : names[h] = <<>> /\ pc[h] = "idle"
      BY DEF Init
    <3>3. names \in [Handlers -> Seq(Tags)]
      BY DEF Init
    <3> QED BY <3>1, <3>2, <3>3 DEF ListInv, ListSent, FoundInList
  <2> QED BY <2>1, <2>2, <2>3, <2>4 DEF IInv
<1>2. IInv /\ [Next]_vars => IInv'
  BY ControlStep, StoreStep, CopyStep, ListStep DEF IInv
<1> QED BY <1>1, <1>2, PTL DEF Spec

(* The state keeps its types: a handler never serializes beyond the array   *)
(* it was given, whatever was written meanwhile (TagRead, TagWrite).        *)
THEOREM ProviderTypes == Spec => []TypeOK
<1>1. IInv => TypeOK
  BY DEF IInv, Control, ControlTypes, StoreInv, StoreTypes, CopyInv, CopyTypes, ReadOf, ListInv, TypeOK
<1> QED BY Invariant, <1>1, PTL

(* Every element of an answer was in the tag at some time since the read    *)
(* began, for any writes that come between two elements (TagRead).          *)
THEOREM ReadsRegular == Spec => []Regular
<1>1. IInv => Regular
  BY DEF IInv, CopyInv, ReadOf, Regular
<1> QED BY Invariant, <1>1, PTL

(* With no element written meanwhile, an answer is the tag at one time,     *)
(* also if the whole tag was replaced again and again (TagWrite).           *)
THEOREM ReadsSnapshot == Spec => []Snapshot
<1>1. IInv => Snapshot
  BY DEF IInv, CopyInv, ReadOf, Snapshot
<1> QED BY Invariant, <1>1, PTL

(* A position in the list a client was sent means the same tag until a tag  *)
(* is created: the list depends on the set of tags only, and tags are never *)
(* removed (TagList, resolveSymbolicTagFromCustomClass).                    *)
THEOREM PositionsKept == Spec => []CachedInstance
<1>1. IInv => CachedInstance
  <2> SUFFICES ASSUME IInv, NEW h \in Handlers, pc[h] = "serve", todo[h].via = "attr", ToSet(names[h]) = Existing
               PROVE  Current(h).tag = names[h][todo[h].instance]
    BY DEF CachedInstance
  <2>1. PICK S \in SUBSET Existing : ToSet(names[h]) \subseteq S /\ Current(h).tag = Sorted(S)[todo[h].instance]
    BY DEF IInv, ListInv, FoundInList
  <2>2. PICK R \in SUBSET Existing : names[h] = Sorted(R)
    BY DEF IInv, ListInv, ListSent
  <2>3. R \in SUBSET Tags
    BY DEF Existing
  <2>4. R = Existing /\ S = Existing
    BY <2>1, <2>2, <2>3, SortedTags
  <2> QED BY <2>1, <2>2, <2>4
<1> QED BY Invariant, <1>1, PTL

=============================================================================
