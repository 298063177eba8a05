--------------------------- MODULE TagAccessProofs ---------------------------
(***************************************************************************)
(* What the module TagAccess promises of reads and writes through a shared  *)
(* cache of paths, for any callers, tags, lists and sizes.                  *)
(*                                                                         *)
(* The cache is keyed by the path alone, and what it holds depends on the   *)
(* type as well, so that the theorems are about programs that use a path    *)
(* with one type (OneType); the run of the divergences shows what happens   *)
(* to the others.                                                           *)
(***************************************************************************)
EXTENDS TagAccess, Naturals, FiniteSetTheorems, TLAPS

(* A path is always used with the same type. *)
OneType == \A u, v \in Uses : u.path = v.path => u.type = v.type

(* The element and the bit of it that a use asks for. *)
ElemOf(u) == IF u.type = "BOOL" THEN u.path.idx \div 32 ELSE u.path.idx
BitOf(u) == IF u.type = "BOOL" THEN u.path.idx % 32 ELSE NoIdx

(* An encoded path is one of the use: of its element, bit and, by name, tag.*)
Encodes(ioi, u) ==
  /\ ioi.via \in {"name", "instance"}
  /\ ioi.elem = ElemOf(u) /\ ioi.bit = BitOf(u)
  /\ ioi.via = "name" => ioi.tag = u.path.tag

CacheInv == \A u \in Uses : cache[u.path] = NoIOI \/ Encodes(cache[u.path], u)

-----------------------------------------------------------------------------
(* What holds of a call r while the tags' values are val.                   *)

InCall(r) == r.pc \in {"count", "plan", "ask"}
InList(r) == r.kind \in {"ReadMulti", "ReadList"}
InRead(r) == InList(r) \/ r.kind = "Read"

(* What the message of r asks for, as Asked. *)
AskedOf(r) == SubSeq(r.uses, Len(r.results) + 1, Head(r.ends))

(* The ends of the lists to be read go up to the end of the uses. *)
EndsInv(r) ==
  /\ r.uses \in Arguments(r.kind)
  /\ Len(r.ends) > 0 /\ r.ends[Len(r.ends)] = Len(r.uses)
  /\ \A i \in 1..Len(r.ends) : Len(r.results) <= r.ends[i] /\ r.ends[i] <= Len(r.uses)
  /\ \A i, j \in 1..Len(r.ends) : i < j => r.ends[i] < r.ends[j]
  /\ r.pc = "count" => r.kind = "ReadList" /\ Len(r.results) < Head(r.ends)
  /\ ~InList(r) => Len(r.results) = 0 /\ Len(r.ends) = 1

(* The encoded paths of the message are those of what it asks for. *)
PathsInv(r) ==
  /\ Len(r.ioi) <= Len(AskedOf(r))
  /\ r.pc = "count" => Len(r.ioi) < Len(AskedOf(r))
  /\ r.pc = "ask" => Len(r.ioi) = Len(AskedOf(r))
  /\ \A k \in 1..Len(r.ioi) : Encodes(r.ioi[k], AskedOf(r)[k])

(* A cell of the value of u, as it was after the call began. *)
IsCellOf(r, val, cell, k, u) ==
  /\ cell.tag = u.path.tag /\ cell.at = k /\ cell.elem = ElemOf(u) /\ cell.bit = BitOf(u)
  /\ r.began[u.path.tag] <= cell.ver /\ cell.ver <= val[u.path.tag]

(* The parts of a Read so far are the first cells of its value. *)
DataInv(r, val) ==
  r.kind = "Read" =>
    /\ Len(r.data) <= r.uses[1].size
    /\ ~r.stale => \A k \in 1..Len(r.data) : IsCellOf(r, val, r.data[k], k, r.uses[1])

(* The results so far are values of the first uses, or errors. *)
ResultsInv(r, val) ==
  (InRead(r) /\ ~r.stale) =>
    /\ Len(r.results) <= Len(r.uses)
    /\ \A k \in 1..Len(r.results) :
         r.results[k] # Bad =>
           /\ Len(r.results[k]) = r.uses[k].size
           /\ \A i \in 1..Len(r.results[k]) : IsCellOf(r, val, r.results[k][i], i, r.uses[k])

(* A call that has returned without an error has read or written all. *)
DoneInv(r) ==
  r.pc = "done" =>
    /\ InRead(r) => Len(r.results) = Len(r.uses)
    /\ r.kind \in {"Write", "GenericCIPMessage"} => ~r.refused
    /\ (r.kind \in {"Write", "WriteMap", "WriteMulti"} /\ ~r.refused /\ ~r.stale) =>
         \A k \in 1..Len(r.uses) :
           (r.kind = "Write" \/ r.uses[k].size = 1) =>
             <<r.uses[k].path.tag, r.uses[k].path.idx, r.uses[k].size>> \in r.did

CallInv(r, val) ==
  /\ InCall(r) => EndsInv(r) /\ PathsInv(r) /\ DataInv(r, val)
  /\ InCall(r) => \A t \in Tags : r.began[t] <= val[t]
  /\ (InCall(r) \/ r.pc = "done") => ResultsInv(r, val)
  /\ DoneInv(r)

(* What a step makes of a call: a path more, a list split or left as it is,  *)
(* a message sent, a part of a value more, all results, the results of one  *)
(* more list, an answer to a write and to a message without a tag; and what *)
(* the parts of a value are with the next one, up to a given cell.          *)
WithPath(r, x) == [r EXCEPT !.ioi = Append(@, x)]
Split(r, n) == [r EXCEPT !.pc = "plan", !.ioi = <<>>, !.ends = <<Len(r.results) + n>> \o r.ends]
Counted(r) == [r EXCEPT !.pc = "plan", !.ioi = <<>>]
Sent(r) == [r EXCEPT !.pc = "ask"]
WithData(r, d, n, b) == [r EXCEPT !.data = d, !.rounds = n, !.stale = b]
Finished(r, all) == Over([r EXCEPT !.pc = "done", !.results = all])
WithResults(r, all, b, p) ==
  [r EXCEPT !.results = all, !.ends = Tail(@), !.ioi = <<>>, !.stale = b, !.pc = p]
Written(r, did, ref, b, p) == Over([r EXCEPT !.did = did, !.refused = ref, !.stale = b, !.pc = p])
Told(r, ref, p) == [r EXCEPT !.refused = ref, !.pc = p]
Begun(kind, p, us, val, n) ==
  [Idle EXCEPT !.kind = kind, !.pc = p, !.uses = us, !.ends = <<Len(us)>>, !.began = val, !.calls = n]
Refused(kind, n) == [Idle EXCEPT !.kind = kind, !.pc = "error", !.calls = n]
PartsTo(c, t, upto) ==
  call[c].data \o SubSeq(CellsOf(t, call[c].ioi[1], call[c].uses[1]), Offset(c) + 1, upto)

IInv == TypeOK /\ CacheInv /\ \A c \in Callers : CallInv(call[c], value)

-----------------------------------------------------------------------------
(* Facts about numbers and sequences.                                       *)

(* A set of natural numbers that is not empty has a least element: one      *)
(* whose interval from 1 on contains that of no other.                      *)
LEMMA Least ==
  ASSUME NEW T \in SUBSET Nat, T # {}
  PROVE  \E x \in T : \A y \in T : x <= y
<1> DEFINE R == StrictSubsetOrdering(Nat)
           U == {1..k : k \in T}
<1>1. U \subseteq FiniteSubsetsOf(Nat)
  <2>1. \A k \in T : IsFiniteSet(1..k) /\ 1..k \subseteq Nat
    BY FS_Interval
  <2> QED BY <2>1 DEF FiniteSubsetsOf
<1>2. PICK s \in U : \A t \in U : ~(<<t, s>> \in R)
  <2>1. U # {}
    OBVIOUS
  <2> HIDE DEF U
  <2>2. IsWellFoundedOn(R, FiniteSubsetsOf(Nat))
    BY FS_StrictSubsetOrderingWellFounded
  <2> HIDE DEF R
  <2> QED BY <1>1, <2>1, <2>2, WFMin, Zenon
<1>3. PICK x \in T : s = 1..x
  OBVIOUS
<1>4. ASSUME NEW y \in T, y < x PROVE FALSE
  <2>1. 1..y \in U
    OBVIOUS
  <2>2. 1..y \subseteq 1..x /\ x \in 1..x /\ x \notin 1..y
    BY <1>4
  <2>3. 1..y \in SUBSET Nat /\ 1..x \in SUBSET Nat
    OBVIOUS
  <2>4. <<1..y, s>> \in R
    BY <2>2, <2>3, <1>3 DEF StrictSubsetOrdering
  <2> QED BY <2>1, <2>4, <1>2
<1> QED BY <1>4

LEMMA MinIn ==
  ASSUME NEW T \in SUBSET Nat, T # {}
  PROVE  Min(T) \in T
BY Least DEF Min

(* A list is split: the ends stay in order, and the new one comes first.    *)
LEMMA EndsSplit ==
  ASSUME NEW e \in Seq(Nat), Len(e) > 0, NEW n \in Nat, n < e[1],
         \A i, j \in 1..Len(e) : i < j => e[i] < e[j]
  PROVE  /\ <<n>> \o e \in Seq(Nat) /\ Len(<<n>> \o e) = Len(e) + 1
         /\ Head(<<n>> \o e) = n /\ (<<n>> \o e)[1] = n
         /\ \A i \in 2..(Len(e) + 1) : (<<n>> \o e)[i] = e[i - 1]
         /\ \A i, j \in 1..(Len(e) + 1) : i < j => (<<n>> \o e)[i] < (<<n>> \o e)[j]
<1> DEFINE f == <<n>> \o e
<1>1. f \in Seq(Nat) /\ Len(f) = Len(e) + 1 /\ f[1] = n /\ Head(f) = n
  OBVIOUS
<1>2. \A i \in 2..(Len(e) + 1) : f[i] = e[i - 1]
  OBVIOUS
<1>3. \A i \in 1..Len(e) : e[i] \in Nat /\ e[1] <= e[i]
  OBVIOUS
<1>4. \A i, j \in 1..(Len(e) + 1) : i < j => f[i] < f[j]
  <2> HIDE DEF f
  <2> TAKE i, j \in 1..(Len(e) + 1)
  <2> HAVE i < j
  <2>1. Len(e) \in Nat
    OBVIOUS
  <2>2. f[j] = e[j - 1] /\ j - 1 \in 1..Len(e)
    BY <1>2, <2>1
  <2>3. CASE i = 1
    <3>1. f[i] = n /\ e[1] \in Nat /\ e[j - 1] \in Nat /\ e[1] <= e[j - 1]
      BY <1>1, <1>3, <2>2, <2>3
    <3> QED BY <2>2, <3>1
  <2>4. CASE i # 1
    <3>1. f[i] = e[i - 1] /\ i - 1 \in 1..Len(e) /\ i - 1 < j - 1
      BY <1>2, <2>1, <2>4
    <3> QED BY <2>2, <3>1
  <2> QED BY <2>3, <2>4
<1> QED BY <1>1, <1>2, <1>4

(* A part of a sequence. *)
LEMMA Part ==
  ASSUME NEW S, NEW s \in Seq(S), NEW m \in Nat, NEW n \in Nat, m <= n, n <= Len(s)
  PROVE  /\ SubSeq(s, m + 1, n) \in Seq(S) /\ Len(SubSeq(s, m + 1, n)) = n - m /\ n - m \in Nat
         /\ \A k \in 1..(n - m) : SubSeq(s, m + 1, n)[k] = s[m + k]
OBVIOUS

(* Two sequences, one after the other. *)
LEMMA Joined ==
  ASSUME NEW S, NEW a \in Seq(S), NEW b \in Seq(S)
  PROVE  /\ a \o b \in Seq(S) /\ Len(a \o b) = Len(a) + Len(b)
         /\ Len(a) \in Nat /\ Len(b) \in Nat
         /\ \A k \in 1..Len(a) : (a \o b)[k] = a[k]
         /\ \A k \in (Len(a) + 1)..(Len(a) + Len(b)) : (a \o b)[k] = b[k - Len(a)]
OBVIOUS

(* A call that has got more data, and one that has returned.                *)
LEMMA GotData ==
  ASSUME NEW r \in Calls, NEW d \in Seq(Cells), NEW n \in Nat, NEW b \in BOOLEAN,
         NEW s, s = WithData(r, d, n, b)
  PROVE  /\ s \in Calls /\ s.data = d /\ s.stale = b
         /\ s.kind = r.kind /\ s.uses = r.uses /\ s.pc = r.pc /\ s.ioi = r.ioi /\ s.ends = r.ends
         /\ s.results = r.results /\ s.began = r.began
BY DEF Calls, WithData

LEMMA GotResults ==
  ASSUME NEW r \in Calls, NEW all \in Seq(Seq(Cells)),
         NEW s, s = Finished(r, all)
  PROVE  /\ s \in Calls /\ s.stale = r.stale /\ s.kind = r.kind /\ s.uses = r.uses
         /\ s.pc = "done" /\ s.results = all /\ s.began = r.began
<1> DEFINE last == [r EXCEPT !.pc = "done", !.results = all]
<1>1. last \in Calls /\ last.stale = r.stale /\ last.kind = r.kind
      /\ last.uses = r.uses /\ last.began = r.began /\ last.pc = "done" /\ last.results = all
  BY DEF Calls
<1>2. s = Over(last)
  BY DEF Finished
<1> HIDE DEF last
<1>3. <<>> \in Seq(IOIs) /\ <<>> \in Seq(Nat) /\ <<>> \in Seq(Cells)
  OBVIOUS
<1>4. s = [last EXCEPT !.ioi = <<>>, !.ends = <<>>, !.data = <<>>, !.rounds = 0]
  BY <1>2 DEF Over
<1>5. s \in Calls
  BY ONLY <1>1, <1>3, <1>4 DEF Calls
<1>6. /\ s.stale = last.stale /\ s.kind = last.kind /\ s.uses = last.uses
      /\ s.pc = last.pc /\ s.results = last.results /\ s.began = last.began
  BY ONLY <1>1, <1>4 DEF Calls
<1> QED BY ONLY <1>1, <1>5, <1>6

LEMMA GotAnswer ==
  ASSUME NEW r \in Calls, NEW did \in SUBSET (Tags \X Nat \X Nat), NEW ref \in BOOLEAN,
         NEW b \in BOOLEAN, NEW p \in {"done", "error"},
         NEW s, s = Written(r, did, ref, b, p)
  PROVE  /\ s \in Calls /\ s.did = did /\ s.refused = ref /\ s.stale = b /\ s.pc = p
         /\ s.kind = r.kind /\ s.uses = r.uses
<1> DEFINE last == [r EXCEPT !.did = did, !.refused = ref, !.stale = b, !.pc = p]
<1>1. /\ last \in Calls /\ last.did = did /\ last.refused = ref /\ last.stale = b /\ last.pc = p
      /\ last.kind = r.kind /\ last.uses = r.uses
  BY DEF Calls
<1>2. s = Over(last)
  BY DEF Written
<1> HIDE DEF last
<1>3. <<>> \in Seq(IOIs) /\ <<>> \in Seq(Nat) /\ <<>> \in Seq(Cells)
  OBVIOUS
<1>4. s = [last EXCEPT !.ioi = <<>>, !.ends = <<>>, !.data = <<>>, !.rounds = 0]
  BY <1>2 DEF Over
<1>5. s \in Calls
  BY ONLY <1>1, <1>3, <1>4 DEF Calls
<1>6. /\ s.did = last.did /\ s.refused = last.refused /\ s.stale = last.stale /\ s.pc = last.pc
      /\ s.kind = last.kind /\ s.uses = last.uses
  BY ONLY <1>1, <1>4 DEF Calls
<1> QED BY ONLY <1>1, <1>5, <1>6

(* What comes after the first of a sequence of ends. *)
LEMMA EndsLeft ==
  ASSUME NEW e \in Seq(Nat), Len(e) > 0, \A i, j \in 1..Len(e) : i < j => e[i] < e[j]
  PROVE  /\ Tail(e) \in Seq(Nat) /\ Len(Tail(e)) = Len(e) - 1 /\ Len(Tail(e)) \in Nat
         /\ Tail(e) = <<>> => Len(e) = 1
         /\ Tail(e) # <<>> => Len(e) > 1 /\ Tail(e)[1] = e[2] /\ Head(Tail(e)) = e[2]
         /\ \A i \in 1..(Len(e) - 1) : Tail(e)[i] = e[i + 1] /\ e[1] < e[i + 1]
         /\ \A i, j \in 1..(Len(e) - 1) : i < j => Tail(e)[i] < Tail(e)[j]
<1>1. Tail(e) \in Seq(Nat) /\ Len(Tail(e)) = Len(e) - 1 /\ Len(Tail(e)) \in Nat /\ Len(e) \in Nat
  OBVIOUS
<1>2. Tail(e) = <<>> => Len(Tail(e)) = 0
  <2>1. Len(<<>>) = 0
    BY ONLY Zenon
  <2> QED BY ONLY <2>1
<1>3. \A i \in 1..(Len(e) - 1) : Tail(e)[i] = e[i + 1] /\ i + 1 \in 1..Len(e)
  <2>1. \A i \in 1..(Len(e) - 1) : Tail(e)[i] = e[i + 1]
    BY e \in Seq(Nat), Len(e) > 0
  <2> QED BY <1>1, <2>1
<1>4. \A i \in 1..(Len(e) - 1) : e[1] < e[i + 1]
  <2> TAKE i \in 1..(Len(e) - 1)
  <2>1. 1 \in 1..Len(e) /\ i + 1 \in 1..Len(e) /\ 1 < i + 1
    BY ONLY <1>1, i \in 1..(Len(e) - 1)
  <2> QED BY <2>1
<1>5. ASSUME NEW i \in 1..(Len(e) - 1), NEW j \in 1..(Len(e) - 1), i < j
      PROVE  Tail(e)[i] < Tail(e)[j]
  <2>1. e[i + 1] < e[j + 1]
    BY <1>1, <1>5
  <2> QED BY <1>3, <2>1
<1>6. ASSUME Tail(e) # <<>> PROVE Len(e) > 1 /\ Tail(e)[1] = e[2] /\ Head(Tail(e)) = e[2]
  <2>1. Len(Tail(e)) # 0
    BY <1>1, <1>6
  <2>2. Len(e) > 1 /\ 1 \in 1..(Len(e) - 1)
    BY ONLY <1>1, <2>1
  <2>3. Tail(e)[1] = e[1 + 1]
    BY <1>3, <2>2
  <2>4. Head(Tail(e)) = Tail(e)[1]
    BY <1>1, <1>6
  <2> QED BY <2>2, <2>3, <2>4
<1> QED BY <1>1, <1>2, <1>3, <1>4, <1>5, <1>6

USE TagAccessAssumption

LEMMA UsesTyped ==
  \A u \in Uses :
    /\ u.path \in Paths /\ u.path.tag \in Tags /\ u.path.idx \in Nat /\ u.path.name \in Nat
    /\ u.size \in Nat \ {0} /\ u.type \in {"DINT", "BOOL"}
    /\ u.type = "BOOL" => u.size = 1 /\ u.path.idx # NoIdx
    /\ ElemOf(u) \in Nat /\ BitOf(u) \in Nat
<1>1. \A u \in Uses :
        /\ u.path \in Paths /\ u.path.tag \in Tags /\ u.path.idx \in Nat /\ u.path.name \in Nat
        /\ u.size \in Nat \ {0} /\ u.type \in {"DINT", "BOOL"}
        /\ u.type = "BOOL" => u.size = 1 /\ u.path.idx # NoIdx
  BY DEF Use, Path
<1> QED BY <1>1 DEF ElemOf, BitOf, NoIdx

(* A path that is encoded, or taken from the cache, is that of its use.     *)
LEMMA NewPath ==
  ASSUME NEW u \in Uses, NEW old \in IOIs, old = NoIOI \/ Encodes(old, u),
         known \in [Tags -> Instances \cup {NoInstance}]
  PROVE  newIOI(old, u) \in IOIs /\ Encodes(newIOI(old, u), u)
<1> USE UsesTyped
<1>1. newSymbolicIOI(u) \in IOIs /\ Encodes(newSymbolicIOI(u), u)
  BY DEF newSymbolicIOI, IOIs, Encodes, ElemOf, BitOf, NoIdx
<1>2. findKnownTagPrefix(u) => newKnownTagIOI(u) \in IOIs /\ Encodes(newKnownTagIOI(u), u)
  BY DEF findKnownTagPrefix, newKnownTagIOI, IOIs, Encodes, ElemOf, BitOf, NoIdx, NoInstance
<1> QED BY <1>1, <1>2 DEF newIOI

(* What a message asks for is the next of the uses. *)
LEMMA AskedUses ==
  ASSUME NEW r \in Calls, EndsInv(r)
  PROVE  /\ AskedOf(r) \in Seq(Uses) /\ Head(r.ends) = r.ends[1] /\ r.ends[1] \in Nat
         /\ Len(AskedOf(r)) = r.ends[1] - Len(r.results) /\ Len(AskedOf(r)) \in Nat
         /\ \A k \in 1..Len(AskedOf(r)) : AskedOf(r)[k] = r.uses[Len(r.results) + k]
<1>1. /\ r.uses \in Seq(Uses) /\ Len(r.results) \in Nat /\ r.ends \in Seq(Nat) /\ Len(r.ends) > 0
  BY DEF Calls, EndsInv
<1>2. Head(r.ends) = r.ends[1] /\ r.ends[1] \in Nat /\ 1 \in 1..Len(r.ends)
  BY <1>1
<1>3. Len(r.results) <= r.ends[1] /\ r.ends[1] <= Len(r.uses)
  BY <1>2 DEF EndsInv
<1>4. AskedOf(r) = SubSeq(r.uses, Len(r.results) + 1, r.ends[1])
  BY <1>2 DEF AskedOf
<1> DEFINE m == Len(r.results)
           n == r.ends[1]
           s == r.uses
<1>5. m \in Nat /\ n \in Nat /\ s \in Seq(Uses) /\ m <= n /\ n <= Len(s)
  BY <1>1, <1>2, <1>3
<1>6. AskedOf(r) = SubSeq(s, m + 1, n) /\ Head(r.ends) = n
  BY <1>2, <1>4
<1> HIDE DEF m, n, s
<1>7. /\ AskedOf(r) \in Seq(Uses) /\ Len(AskedOf(r)) = n - m /\ n - m \in Nat
      /\ \A k \in 1..(n - m) : AskedOf(r)[k] = s[m + k]
  BY ONLY <1>5, <1>6, Part
<1> QED BY ONLY <1>5, <1>6, <1>7 DEF m, n, s

-----------------------------------------------------------------------------
(* Calls that are not in the step, and calls that go on in it.              *)

(* Values that grow, as other callers write, keep what holds of a call.     *)
LEMMA Grow ==
  ASSUME NEW r \in Calls, NEW v \in [Tags -> Nat], NEW w \in [Tags -> Nat],
         \A t \in Tags : v[t] <= w[t], CallInv(r, v)
  PROVE  CallInv(r, w)
<1>1. r.began \in [Tags -> Nat] /\ r.uses \in Seq(Uses) /\ r.data \in Seq(Cells)
      /\ r.results \in Seq(Seq(Cells))
  BY DEF Calls
<1>2. ASSUME NEW cell \in Cells, NEW k, NEW u \in Uses, IsCellOf(r, v, cell, k, u)
      PROVE  IsCellOf(r, w, cell, k, u)
  <2>1. /\ u.path.tag \in Tags /\ cell.ver \in Nat
        /\ cell.ver <= v[u.path.tag] /\ v[u.path.tag] <= w[u.path.tag]
    BY <1>2, UsesTyped DEF IsCellOf, Cells
  <2>2. v[u.path.tag] \in Nat /\ w[u.path.tag] \in Nat
    BY <2>1
  <2>3. cell.ver <= w[u.path.tag]
    BY <2>1, <2>2
  <2> QED BY <1>2, <2>3 DEF IsCellOf
<1>3. InCall(r) => DataInv(r, w)
  <2> SUFFICES ASSUME InCall(r), r.kind = "Read" PROVE DataInv(r, w)
    BY DEF DataInv
  <2>1. DataInv(r, v) /\ EndsInv(r)
    BY DEF CallInv
  <2>2. r.uses[1] \in Uses
    BY <2>1, UsesTyped DEF EndsInv, Arguments
  <2>3. \A k \in 1..Len(r.data) : r.data[k] \in Cells
    BY <1>1
  <2> QED BY <1>2, <2>1, <2>2, <2>3 DEF DataInv
<1>4. InCall(r) => \A t \in Tags : r.began[t] <= w[t]
  <2> SUFFICES ASSUME InCall(r), NEW t \in Tags PROVE r.began[t] <= w[t]
    OBVIOUS
  <2>1. r.began[t] \in Nat /\ v[t] \in Nat /\ w[t] \in Nat /\ r.began[t] <= v[t] /\ v[t] <= w[t]
    BY <1>1 DEF CallInv
  <2> QED BY <2>1
<1>5. (InCall(r) \/ r.pc = "done") => ResultsInv(r, w)
  <2> SUFFICES ASSUME InCall(r) \/ r.pc = "done", InRead(r), ~r.stale PROVE ResultsInv(r, w)
    BY DEF ResultsInv
  <2>1. ResultsInv(r, v)
    BY DEF CallInv
  <2>2. Len(r.results) <= Len(r.uses) /\ Len(r.results) \in Nat /\ Len(r.uses) \in Nat
    BY <1>1, <2>1 DEF ResultsInv
  <2>3. \A k \in 1..Len(r.results) : r.uses[k] \in Uses /\ r.results[k] \in Seq(Cells)
    BY <1>1, <2>2
  <2>4. \A k \in 1..Len(r.results) : \A i \in 1..Len(r.results[k]) : r.results[k][i] \in Cells
    BY <2>3
  <2> QED BY <1>2, <2>1, <2>3, <2>4 DEF ResultsInv
<1> QED BY <1>3, <1>4, <1>5 DEF CallInv

(* A step of one call, in which the values of the tags may grow.            *)
LEMMA OneCall ==
  ASSUME TypeOK, \A d \in Callers : CallInv(call[d], value),
         NEW c \in Callers, NEW r \in Calls, call' = [call EXCEPT ![c] = r],
         value' \in [Tags -> Nat], \A t \in Tags : value[t] <= value'[t], CallInv(r, value')
  PROVE  call' \in [Callers -> Calls] /\ \A d \in Callers : CallInv(call'[d], value')
<1>1. call \in [Callers -> Calls] /\ value \in [Tags -> Nat]
  BY DEF TypeOK
<1>2. call' \in [Callers -> Calls] /\ call'[c] = r /\ \A d \in Callers : d # c => call'[d] = call[d]
  BY <1>1
<1>3. \A d \in Callers : d # c => CallInv(call[d], value')
  BY <1>1, Grow
<1> QED BY <1>2, <1>3

(* A call that sends no message in a step goes on with what it has.         *)
LEMMA GoesOn ==
  ASSUME NEW r \in Calls, NEW s \in Calls, NEW v, CallInv(r, v), InCall(r), InCall(s),
         s.kind = r.kind, s.uses = r.uses, s.data = r.data, s.results = r.results,
         s.began = r.began, s.stale = r.stale, EndsInv(s), PathsInv(s)
  PROVE  CallInv(s, v)
<1>1. s.pc # "done"
  BY DEF InCall
<1>2. DataInv(s, v)
  BY DEF CallInv, DataInv, IsCellOf
<1>3. ResultsInv(s, v)
  BY DEF CallInv, ResultsInv, IsCellOf, InRead, InList
<1> QED BY <1>1, <1>2, <1>3 DEF CallInv, DoneInv

(* Another path is encoded. *)
LEMMA AddPath ==
  ASSUME NEW r \in Calls, NEW v, CallInv(r, v), r.pc \in {"count", "plan"},
         NEW x \in IOIs, Len(r.ioi) < Len(AskedOf(r)),
         r.pc = "count" => Len(r.ioi) + 1 < Len(AskedOf(r)),
         Encodes(x, AskedOf(r)[Len(r.ioi) + 1])
  PROVE  WithPath(r, x) \in Calls /\ CallInv(WithPath(r, x), v)
<1> DEFINE s == WithPath(r, x)
<1>1. EndsInv(r) /\ PathsInv(r) /\ InCall(r)
  BY DEF CallInv, InCall
<1>2. s \in Calls /\ s.ioi = Append(r.ioi, x) /\ r.ioi \in Seq(IOIs)
  <2>1. r.ioi \in Seq(IOIs) /\ Append(r.ioi, x) \in Seq(IOIs)
    BY DEF Calls
  <2> DEFINE y == Append(r.ioi, x)
  <2>2. y \in Seq(IOIs)
    BY <2>1
  <2>3. s = [r EXCEPT !.ioi = y]
    BY DEF WithPath
  <2> HIDE DEF y, s
  <2>4. s \in Calls /\ s.ioi = y
    BY <2>2, <2>3 DEF Calls
  <2> QED BY <2>1, <2>4 DEF y
<1>3. /\ s.kind = r.kind /\ s.uses = r.uses /\ s.ends = r.ends /\ s.pc = r.pc /\ s.data = r.data
      /\ s.results = r.results /\ s.began = r.began /\ s.stale = r.stale
  BY DEF Calls, WithPath
<1> HIDE DEF s
<1>4. AskedOf(s) = AskedOf(r)
  BY <1>3 DEF AskedOf
<1>5. EndsInv(s)
  BY <1>1, <1>3 DEF EndsInv, InList
<1>6. /\ Len(s.ioi) = Len(r.ioi) + 1 /\ s.ioi[Len(r.ioi) + 1] = x /\ Len(r.ioi) \in Nat
      /\ \A k \in 1..Len(r.ioi) : s.ioi[k] = r.ioi[k]
  BY <1>2
<1>7. Len(AskedOf(r)) \in Nat
  BY <1>1, AskedUses
<1>8. \A k \in 1..(Len(r.ioi) + 1) : Encodes(s.ioi[k], AskedOf(r)[k])
  BY <1>1, <1>6 DEF PathsInv
<1>9. PathsInv(s)
  BY <1>3, <1>4, <1>6, <1>7, <1>8 DEF PathsInv
<1>10. CallInv(s, v)
  BY <1>1, <1>2, <1>3, <1>5, <1>9, GoesOn DEF InCall
<1> QED BY <1>2, <1>10 DEF s

(* A list is split after its first n, fewer than all. *)
LEMMA SplitList ==
  ASSUME NEW r \in Calls, NEW v, CallInv(r, v), InCall(r), InList(r),
         NEW n \in Nat, n < Len(AskedOf(r)), NEW s, s = Split(r, n)
  PROVE  s \in Calls /\ CallInv(s, v)
<1> DEFINE m == Len(r.results) + n
           e == <<m>> \o r.ends
<1>1. EndsInv(r) /\ PathsInv(r)
  BY DEF CallInv
<1>2. /\ r.ends \in Seq(Nat) /\ Len(r.ends) > 0 /\ Len(r.results) \in Nat /\ r.ends[1] \in Nat
      /\ Len(AskedOf(r)) = r.ends[1] - Len(r.results) /\ Len(r.ends) \in Nat /\ Len(r.uses) \in Nat
  <2>1. r.ends \in Seq(Nat) /\ r.results \in Seq(Seq(Cells)) /\ r.uses \in Seq(Uses)
    BY DEF Calls
  <2>2. Len(r.ends) > 0
    BY <1>1 DEF EndsInv
  <2>3. r.ends[1] \in Nat /\ Len(AskedOf(r)) = r.ends[1] - Len(r.results)
    BY <1>1, AskedUses
  <2>4. Len(r.ends) \in Nat /\ Len(r.results) \in Nat /\ Len(r.uses) \in Nat
    BY ONLY <2>1
  <2> QED BY ONLY <2>1, <2>2, <2>3, <2>4
<1>3. m \in Nat /\ m < r.ends[1] /\ Len(r.results) <= m
  <2>1. n < Len(AskedOf(r))
    OBVIOUS
  <2> QED BY ONLY <1>2, <2>1, n \in Nat
<1>4. \A i, j \in 1..Len(r.ends) : i < j => r.ends[i] < r.ends[j]
  BY <1>1 DEF EndsInv
<1> HIDE DEF m
<1>5. /\ e \in Seq(Nat) /\ Len(e) = Len(r.ends) + 1 /\ Head(e) = m /\ e[1] = m
      /\ \A i \in 2..(Len(r.ends) + 1) : e[i] = r.ends[i - 1]
      /\ \A i, j \in 1..(Len(r.ends) + 1) : i < j => e[i] < e[j]
  BY ONLY EndsSplit, <1>2, <1>3, <1>4
<1>6. s = [r EXCEPT !.pc = "plan", !.ioi = <<>>, !.ends = e]
  BY DEF m, Split
<1> HIDE DEF e
<1>7. <<>> \in Seq(IOIs)
  OBVIOUS
<1>8. /\ s \in Calls /\ s.pc = "plan" /\ s.ioi = <<>> /\ s.ends = e
      /\ s.kind = r.kind /\ s.uses = r.uses /\ s.data = r.data
      /\ s.results = r.results /\ s.began = r.began /\ s.stale = r.stale
  BY <1>5, <1>6, <1>7 DEF Calls
<1>9. EndsInv(s)
  <2>1. \A i \in 1..Len(r.ends) : Len(r.results) <= r.ends[i] /\ r.ends[i] <= Len(r.uses)
    BY <1>1 DEF EndsInv
  <2>2. m <= Len(r.uses)
    <3>0. 1 \in 1..Len(r.ends)
      BY ONLY <1>2
    <3>1. r.ends[1] <= Len(r.uses)
      BY ONLY <2>1, <3>0
    <3> QED BY ONLY <1>2, <1>3, <3>1
  <2>3. \A i \in 1..Len(e) : Len(r.results) <= e[i] /\ e[i] <= Len(r.uses)
    <3> TAKE i \in 1..Len(e)
    <3>1. CASE i = 1
      BY <1>3, <1>5, <2>2, <3>1
    <3>2. CASE i # 1
      <4>1. i \in 2..(Len(r.ends) + 1) /\ i - 1 \in 1..Len(r.ends)
        BY ONLY <1>2, <1>5, <3>2, i \in 1..Len(e)
      <4> QED BY ONLY <1>5, <2>1, <4>1
    <3> QED BY <3>1, <3>2
  <2>4. e[Len(e)] = r.ends[Len(r.ends)] /\ Len(e) > 0
    <3>1. Len(r.ends) + 1 \in 2..(Len(r.ends) + 1) /\ Len(e) = Len(r.ends) + 1
      BY ONLY <1>2, <1>5
    <3>2. (Len(r.ends) + 1) - 1 = Len(r.ends) /\ Len(r.ends) + 1 > 0
      BY ONLY <1>2
    <3> QED BY ONLY <1>5, <3>1, <3>2
  <2>5. r.uses \in Arguments(r.kind) /\ r.ends[Len(r.ends)] = Len(r.uses)
    BY <1>1 DEF EndsInv
  <2>6. InList(s)
    BY <1>8 DEF InList
  <2>7. \A i, j \in 1..Len(e) : i < j => e[i] < e[j]
    BY <1>5
  <2> QED BY ONLY <1>8, <2>3, <2>4, <2>5, <2>6, <2>7 DEF EndsInv
<1>10. PathsInv(s)
  BY <1>8, <1>9, AskedUses DEF PathsInv
<1> QED BY <1>8, <1>9, <1>10, GoesOn DEF InCall

(* A list that has been counted is left as it is. *)
LEMMA KeepList ==
  ASSUME NEW r \in Calls, NEW v, CallInv(r, v), r.pc = "count",
         NEW s, s = Counted(r)
  PROVE  s \in Calls /\ CallInv(s, v)
<1>1. EndsInv(r) /\ PathsInv(r) /\ InCall(r)
  BY DEF CallInv, InCall
<1>2. <<>> \in Seq(IOIs)
  OBVIOUS
<1>3. /\ s \in Calls /\ s.pc = "plan" /\ s.ioi = <<>> /\ s.ends = r.ends
      /\ s.kind = r.kind /\ s.uses = r.uses /\ s.data = r.data
      /\ s.results = r.results /\ s.began = r.began /\ s.stale = r.stale
  BY <1>2 DEF Calls, Counted
<1>4. EndsInv(s)
  BY <1>1, <1>3 DEF EndsInv, InList
<1>5. PathsInv(s)
  BY <1>3, <1>4, AskedUses DEF PathsInv
<1> QED BY <1>1, <1>3, <1>4, <1>5, GoesOn DEF InCall

(* All paths are encoded and the message is sent. *)
LEMMA Sends ==
  ASSUME NEW r \in Calls, NEW v, CallInv(r, v), r.pc = "plan", Len(r.ioi) = Len(AskedOf(r)),
         NEW s, s = Sent(r)
  PROVE  s \in Calls /\ CallInv(s, v)
<1>1. EndsInv(r) /\ PathsInv(r) /\ InCall(r)
  BY DEF CallInv, InCall
<1>2. /\ s \in Calls /\ s.pc = "ask" /\ s.ioi = r.ioi /\ s.ends = r.ends
      /\ s.kind = r.kind /\ s.uses = r.uses /\ s.data = r.data
      /\ s.results = r.results /\ s.began = r.began /\ s.stale = r.stale
  BY DEF Calls, Sent
<1>3. EndsInv(s)
  BY <1>1, <1>2 DEF EndsInv, InList
<1>4. PathsInv(s)
  BY <1>1, <1>2 DEF PathsInv, AskedOf
<1> QED BY <1>1, <1>2, <1>3, <1>4, GoesOn DEF InCall

(* A call that failed says nothing of what it did. *)
LEMMA Fails ==
  ASSUME NEW c \in Callers, call[c] \in Calls, NEW v
  PROVE  Failed(c) \in Calls /\ CallInv(Failed(c), v)
<1> DEFINE r == call[c]
           s == Failed(c)
<1>1. Idle \in Calls
  BY DEF Idle, Calls
<1>2. r.kind \in AllKinds \cup {"none"} /\ r.calls \in Nat
  BY DEF Calls
<1>3. s \in Calls /\ s.pc = "error"
  BY <1>1, <1>2 DEF Failed, Calls
<1> QED BY <1>3 DEF CallInv, InCall, DoneInv

-----------------------------------------------------------------------------
(* The answers.                                                             *)

(* A message of which no path is stale is about the tags it was to be about.*)
LEMMA AskedFound ==
  ASSUME TypeOK, NEW c \in Callers, EndsInv(call[c]), PathsInv(call[c]), call[c].pc = "ask"
  PROVE  /\ Asked(c) = AskedOf(call[c]) /\ Asked(c) \in Seq(Uses)
         /\ DOMAIN Asked(c) = 1..Len(Asked(c)) /\ Len(Asked(c)) \in Nat
         /\ \A k \in 1..Len(Asked(c)) :
              /\ Asked(c)[k] \in Uses /\ Encodes(call[c].ioi[k], Asked(c)[k])
              /\ Found(call[c].ioi[k]) \subseteq Tags
              /\ ~AnyStale(c) => Found(call[c].ioi[k]) = {Asked(c)[k].path.tag}
<1>1. call[c] \in Calls
  BY DEF TypeOK
<1>2. Asked(c) = AskedOf(call[c]) /\ Asked(c) \in Seq(Uses) /\ Len(Asked(c)) \in Nat
  BY <1>1, AskedUses DEF Asked, AskedOf
<1>3. DOMAIN Asked(c) = 1..Len(Asked(c)) /\ \A k \in 1..Len(Asked(c)) : Asked(c)[k] \in Uses
  BY <1>2
<1>4. call[c].ioi \in Seq(IOIs) /\ Len(call[c].ioi) = Len(Asked(c))
  BY <1>1, <1>2 DEF Calls, PathsInv
<1>5. \A k \in 1..Len(Asked(c)) : Encodes(call[c].ioi[k], Asked(c)[k])
  BY <1>2, <1>4 DEF PathsInv
<1>6. \A k \in 1..Len(Asked(c)) : Found(call[c].ioi[k]) \subseteq Tags
  BY <1>3, <1>5, UsesTyped DEF Found, Encodes
<1>7. DOMAIN call[c].ioi = 1..Len(Asked(c))
  BY <1>4
<1>8. ~AnyStale(c) => \A k \in 1..Len(Asked(c)) : Found(call[c].ioi[k]) = {Asked(c)[k].path.tag}
  BY <1>7 DEF AnyStale, Stale
<1> QED BY <1>2, <1>3, <1>5, <1>6, <1>8

(* The value of a tag, as the controller has it, is one of the use.         *)
LEMMA WholeValue ==
  ASSUME TypeOK, NEW u \in Uses, NEW ioi, Encodes(ioi, u), NEW t \in Tags
  PROVE  /\ CellsOf(t, ioi, u) \in Seq(Cells) /\ Len(CellsOf(t, ioi, u)) = u.size
         /\ u.size \in Nat /\ u.size # 0
         /\ \A r \in Calls : (t = u.path.tag /\ r.began[t] <= value[t]) =>
              \A k \in 1..u.size : IsCellOf(r, value, CellsOf(t, ioi, u)[k], k, u)
<1>1. /\ u.size \in Nat /\ u.size # 0 /\ value[t] \in Nat
      /\ ioi.elem \in Nat /\ ioi.bit \in Nat /\ ioi.elem = ElemOf(u) /\ ioi.bit = BitOf(u)
  BY UsesTyped DEF TypeOK, Encodes
<1>2. \A k \in 1..u.size : Cell(t, ioi.elem, k, value[t], ioi.bit) \in Cells
  BY <1>1 DEF Cell, Cells
<1>3. CellsOf(t, ioi, u) \in [1..u.size -> Cells]
  BY <1>2 DEF CellsOf
<1>4. CellsOf(t, ioi, u) \in Seq(Cells) /\ Len(CellsOf(t, ioi, u)) = u.size
  BY <1>1, <1>3
<1>5. \A k \in 1..u.size : CellsOf(t, ioi, u)[k] = Cell(t, ioi.elem, k, value[t], ioi.bit)
  BY DEF CellsOf
<1>6. \A r \in Calls : (t = u.path.tag /\ r.began[t] <= value[t]) =>
        \A k \in 1..u.size : IsCellOf(r, value, CellsOf(t, ioi, u)[k], k, u)
  <2> TAKE r \in Calls
  <2> HAVE t = u.path.tag /\ r.began[t] <= value[t]
  <2> TAKE k \in 1..u.size
  <2> DEFINE x == Cell(t, ioi.elem, k, value[t], ioi.bit)
  <2>1. x.tag = t /\ x.elem = ioi.elem /\ x.at = k /\ x.ver = value[t] /\ x.bit = ioi.bit
    BY DEF Cell
  <2>2. CellsOf(t, ioi, u)[k] = x
    BY <1>5
  <2>3. value[t] <= value[t]
    BY <1>1
  <2> HIDE DEF x
  <2> QED BY ONLY <1>1, <2>1, <2>2, <2>3, t = u.path.tag, r.began[t] <= value[t] DEF IsCellOf
<1> QED BY <1>1, <1>4, <1>6

(* A part of a value is put where the one before ended. *)
LEMMA PartsJoin ==
  ASSUME TypeOK, NEW c \in Callers, CallInv(call[c], value),
         call[c].pc = "ask", call[c].kind = "Read",
         NEW t \in Found(call[c].ioi[1]), NEW upto \in 0..call[c].uses[1].size,
         Offset(c) <= upto, NEW data,
         data = PartsTo(c, t, upto)
  PROVE  /\ call[c].uses \in Seq(Uses) /\ Len(call[c].uses) = 1 /\ call[c].uses[1] \in Uses
         /\ data \in Seq(Cells) /\ Len(data) = upto
         /\ (~call[c].stale /\ ~AnyStale(c)) =>
              \A k \in 1..Len(data) : IsCellOf(call[c], value, data[k], k, call[c].uses[1])
<1> DEFINE r == call[c]
           u == r.uses[1]
           cells == CellsOf(t, r.ioi[1], u)
           off == Len(r.data)
           part == SubSeq(cells, off + 1, upto)
<1>1. r \in Calls /\ EndsInv(r) /\ PathsInv(r) /\ DataInv(r, value) /\ \A x \in Tags : r.began[x] <= value[x]
  BY DEF TypeOK, CallInv, InCall
<1>2. r.uses \in Seq(Uses) /\ Len(r.uses) = 1 /\ u \in Uses
  <2>1. r.kind = "Read" /\ r.uses \in Arguments(r.kind)
    BY <1>1 DEF EndsInv
  <2>2. PICK x \in Uses : r.uses = <<x>>
    BY <2>1 DEF Arguments
  <2> QED BY <2>2
<1>3. Len(r.results) = 0 /\ Len(r.ends) = 1 /\ r.ends[1] = 1
  <2>1. ~InList(r)
    BY DEF InList
  <2> QED BY ONLY <1>1, <1>2, <2>1 DEF EndsInv
<1>4. Asked(c) = AskedOf(r) /\ Len(Asked(c)) = 1 /\ Asked(c)[1] = u
  <2>1. Asked(c) = AskedOf(r)
    BY <1>1, AskedFound
  <2>2. Len(AskedOf(r)) = 1 - 0 /\ \A k \in 1..Len(AskedOf(r)) : AskedOf(r)[k] = r.uses[0 + k]
    BY <1>1, <1>3, AskedUses
  <2>3. 1 \in 1..Len(AskedOf(r)) /\ Len(AskedOf(r)) = 1
    BY ONLY <2>2
  <2>4. AskedOf(r)[1] = r.uses[0 + 1]
    BY ONLY <2>2, <2>3
  <2>5. AskedOf(r)[1] = r.uses[1]
    BY ONLY <2>4
  <2> QED BY <2>1, <2>3, <2>5
<1>5. /\ Encodes(r.ioi[1], u) /\ t \in Tags
      /\ ~AnyStale(c) => t = u.path.tag
  <2>1. 1 \in 1..Len(Asked(c))
    BY ONLY <1>4
  <2>2. \A k \in 1..Len(Asked(c)) :
          /\ Encodes(call[c].ioi[k], Asked(c)[k]) /\ Found(call[c].ioi[k]) \subseteq Tags
          /\ ~AnyStale(c) => Found(call[c].ioi[k]) = {Asked(c)[k].path.tag}
    BY <1>1, AskedFound
  <2>3. /\ Encodes(r.ioi[1], u) /\ Found(r.ioi[1]) \subseteq Tags
        /\ ~AnyStale(c) => Found(r.ioi[1]) = {u.path.tag}
    BY ONLY <1>4, <2>1, <2>2
  <2> QED BY ONLY <2>3, t \in Found(call[c].ioi[1])
<1>6. /\ cells \in Seq(Cells) /\ Len(cells) = u.size /\ u.size \in Nat
      /\ ~AnyStale(c) => \A k \in 1..u.size : IsCellOf(r, value, cells[k], k, u)
  BY <1>1, <1>2, <1>5, WholeValue
<1>7. /\ r.data \in Seq(Cells) /\ off \in Nat /\ off <= upto /\ upto \in Nat /\ upto <= u.size
      /\ ~r.stale => \A k \in 1..off : IsCellOf(r, value, r.data[k], k, u)
  BY <1>1, <1>6 DEF Calls, DataInv, Offset
<1>8. data = r.data \o part
  BY DEF Offset, PartsTo
<1> HIDE DEF r, u, cells, off
<1>9. /\ part \in Seq(Cells) /\ Len(part) = upto - off
      /\ \A k \in 1..(upto - off) : part[k] = cells[off + k]
  BY ONLY <1>6, <1>7, Part
<1> HIDE DEF part
<1>10. /\ data \in Seq(Cells) /\ Len(data) = off + Len(part)
       /\ \A k \in 1..off : data[k] = r.data[k]
       /\ \A k \in (off + 1)..(off + Len(part)) : data[k] = part[k - off]
  BY ONLY <1>7, <1>8, <1>9, Joined DEF off
<1>11. Len(data) = upto
  BY ONLY <1>7, <1>9, <1>10
<1>12. \A k \in (off + 1)..upto : data[k] = cells[k] /\ k \in 1..u.size
  <2> TAKE k \in (off + 1)..upto
  <2>1. k - off \in 1..(upto - off) /\ off + (k - off) = k /\ k \in (off + 1)..(off + Len(part))
    BY ONLY <1>7, <1>9, k \in (off + 1)..upto
  <2>2. k \in 1..u.size
    BY ONLY <1>6, <1>7, k \in (off + 1)..upto
  <2> QED BY ONLY <1>9, <1>10, <2>1, <2>2
<1>13. ASSUME ~r.stale, ~AnyStale(c), NEW k \in 1..Len(data) PROVE IsCellOf(r, value, data[k], k, u)
  <2>1. CASE k \in 1..off
    BY <1>7, <1>10, <1>13, <2>1
  <2>2. CASE k \in (off + 1)..upto
    BY <1>6, <1>12, <1>13, <2>2
  <2>3. k \in 1..off \/ k \in (off + 1)..upto
    BY ONLY <1>7, <1>11, k \in 1..Len(data)
  <2> QED BY <2>1, <2>2, <2>3
<1> QED BY <1>2, <1>10, <1>11, <1>13 DEF r, u

(* Read_single: a part of the value, and the call goes on. *)
LEMMA ReadsPart ==
  ASSUME TypeOK, NEW c \in Callers, CallInv(call[c], value),
         call[c].pc = "ask", call[c].kind = "Read",
         NEW t \in Found(call[c].ioi[1]), NEW upto \in 0..call[c].uses[1].size,
         Offset(c) <= upto, NEW data,
         data = PartsTo(c, t, upto),
         NEW s,
         s = WithData(call[c], data, NextRound(c), call[c].stale \/ AnyStale(c))
  PROVE  s \in Calls /\ CallInv(s, value)
<1> DEFINE r == call[c]
<1>1. r \in Calls /\ EndsInv(r) /\ PathsInv(r) /\ InCall(r) /\ \A x \in Tags : r.began[x] <= value[x]
  BY DEF TypeOK, CallInv, InCall
<1>2. /\ r.uses[1] \in Uses /\ data \in Seq(Cells) /\ Len(data) = upto
      /\ (~r.stale /\ ~AnyStale(c)) =>
              \A k \in 1..Len(data) : IsCellOf(r, value, data[k], k, r.uses[1])
  BY PartsJoin
<1> DEFINE n == NextRound(c)
           b == r.stale \/ AnyStale(c)
<1>3. n \in Nat /\ b \in BOOLEAN /\ (~b => ~r.stale /\ ~AnyStale(c))
  <2>1. r.rounds \in Nat /\ n = r.rounds + 1
    BY ONLY <1>1 DEF NextRound, Calls
  <2> QED BY ONLY <2>1
<1>4. /\ s \in Calls /\ s.data = data /\ s.stale = b
      /\ s.kind = r.kind /\ s.uses = r.uses /\ s.pc = r.pc /\ s.ioi = r.ioi /\ s.ends = r.ends
      /\ s.results = r.results /\ s.began = r.began
  <2>1. s = WithData(r, data, n, b)
    OBVIOUS
  <2> HIDE DEF n, b, r
  <2> DEFINE w == WithData(r, data, n, b)
  <2>2. /\ w \in Calls /\ w.data = data /\ w.stale = b
        /\ w.kind = r.kind /\ w.uses = r.uses /\ w.pc = r.pc /\ w.ioi = r.ioi /\ w.ends = r.ends
        /\ w.results = r.results /\ w.began = r.began
    BY ONLY <1>1, <1>2, <1>3, GotData
  <2>3. s = w
    BY ONLY <2>1
  <2> HIDE DEF w
  <2> QED BY ONLY <2>2, <2>3
<1> HIDE DEF n, b
<1>5. EndsInv(s) /\ Len(s.results) = 0
  BY <1>1, <1>4 DEF EndsInv, InList
<1>6. PathsInv(s)
  BY <1>1, <1>4 DEF PathsInv, AskedOf
<1>7. DataInv(s, value)
  <2>1. Len(s.data) <= s.uses[1].size
    <3>1. r.uses[1].size \in Nat
      BY <1>2, UsesTyped
    <3>2. upto <= r.uses[1].size
      BY ONLY <3>1, upto \in 0..call[c].uses[1].size
    <3> QED BY ONLY <1>2, <1>4, <3>2
  <2>2. ASSUME ~s.stale PROVE \A k \in 1..Len(s.data) : IsCellOf(s, value, s.data[k], k, s.uses[1])
    <3>1. \A k \in 1..Len(data) : IsCellOf(r, value, data[k], k, r.uses[1])
      BY ONLY <1>2, <1>3, <1>4, <2>2
    <3> HIDE DEF r
    <3> QED BY ONLY <1>4, <3>1 DEF IsCellOf
  <2> QED BY <2>1, <2>2 DEF DataInv
<1>8. ResultsInv(s, value)
  <2>1. Len(s.uses) \in Nat
    BY ONLY <1>4 DEF Calls
  <2>2. Len(s.results) <= Len(s.uses) /\ 1..Len(s.results) = {}
    BY ONLY <1>5, <2>1
  <2> QED BY ONLY <2>2 DEF ResultsInv
<1>9. s.pc # "done" /\ \A x \in Tags : s.began[x] <= value[x]
  BY <1>1, <1>4
<1> QED BY <1>4, <1>5, <1>6, <1>7, <1>8, <1>9 DEF CallInv, DoneInv

(* Read_single: the rest of the value, and the call returns. *)
LEMMA ReadsRest ==
  ASSUME TypeOK, NEW c \in Callers, CallInv(call[c], value),
         call[c].pc = "ask", call[c].kind = "Read",
         NEW t \in Found(call[c].ioi[1]), NEW upto, upto = call[c].uses[1].size, NEW data,
         data = PartsTo(c, t, upto),
         NEW next,
         next = WithData(call[c], data, NextRound(c), call[c].stale \/ AnyStale(c)),
         NEW s, s = Finished(next, <<data>>)
  PROVE  s \in Calls /\ CallInv(s, value)
<1> DEFINE r == call[c]
<1>1. r \in Calls /\ EndsInv(r) /\ DataInv(r, value)
  BY DEF TypeOK, CallInv, InCall
<1>2. upto \in 0..r.uses[1].size /\ Offset(c) <= upto
  <2>1. r.uses[1] \in Uses
    BY <1>1 DEF EndsInv, Arguments
  <2>2. upto \in Nat
    BY <2>1, UsesTyped
  <2> QED BY <1>1, <2>2 DEF DataInv, Offset
<1>3. /\ r.uses[1] \in Uses /\ data \in Seq(Cells) /\ Len(data) = upto /\ Len(r.uses) = 1
      /\ (~r.stale /\ ~AnyStale(c)) =>
              \A k \in 1..Len(data) : IsCellOf(r, value, data[k], k, r.uses[1])
  BY <1>2, PartsJoin
<1> DEFINE n == NextRound(c)
           b == r.stale \/ AnyStale(c)
           all == <<data>>
<1>4. n \in Nat /\ b \in BOOLEAN /\ (~b => ~r.stale /\ ~AnyStale(c))
  <2>1. r.rounds \in Nat /\ n = r.rounds + 1
    BY ONLY <1>1 DEF NextRound, Calls
  <2> QED BY ONLY <2>1
<1>5. all \in Seq(Seq(Cells)) /\ Len(all) = 1 /\ all[1] = data
  BY ONLY <1>3
<1>6. next = WithData(r, data, n, b)
  OBVIOUS
<1>7. s = Finished(next, all)
  OBVIOUS
<1> HIDE DEF n, b, all
<1>8. r.kind = "Read" /\ upto = r.uses[1].size
  OBVIOUS
<1> HIDE DEF r
<1>9. /\ s \in Calls /\ s.stale = b /\ s.kind = "Read"
      /\ s.uses = r.uses /\ s.began = r.began /\ s.pc = "done" /\ s.results = all
  <2>1. next \in Calls /\ next.stale = b /\ next.kind = "Read" /\ next.uses = r.uses /\ next.began = r.began
    BY ONLY <1>1, <1>3, <1>4, <1>6, <1>8, GotData
  <2> QED BY ONLY <1>5, <1>7, <2>1, GotResults
<1>10. ResultsInv(s, value)
  <2>1. s.results[1] = data /\ upto = s.uses[1].size
    BY ONLY <1>5, <1>8, <1>9
  <2>2. ~s.stale => \A k \in 1..Len(data) : IsCellOf(r, value, data[k], k, r.uses[1])
    BY ONLY <1>3, <1>4, <1>9
  <2>3. ~s.stale => \A k \in 1..Len(data) : IsCellOf(s, value, data[k], k, s.uses[1])
    BY ONLY <1>9, <2>2 DEF IsCellOf
  <2>4. Len(s.results) = 1 /\ Len(s.uses) = 1
    BY ONLY <1>3, <1>5, <1>9
  <2>5. 1..Len(s.results) = {1} /\ Len(s.results) <= Len(s.uses)
    BY ONLY <2>4
  <2> QED BY ONLY <1>3, <2>1, <2>3, <2>5 DEF ResultsInv
<1>11. DoneInv(s)
  BY ONLY <1>3, <1>5, <1>9 DEF DoneInv
<1> QED BY <1>9, <1>10, <1>11 DEF CallInv, InCall

(* readList: the results of a message come after those of the ones before.  *)
LEMMA ReadsList ==
  ASSUME TypeOK, NEW c \in Callers, CallInv(call[c], value),
         call[c].pc = "ask", InList(call[c]),
         NEW reply, DOMAIN reply = DOMAIN Asked(c),
         reply \in [DOMAIN Asked(c) -> Seq(Cells)],
         \A k \in DOMAIN Asked(c) :
           reply[k] = Bad \/ \E t \in Found(call[c].ioi[k]) :
                               reply[k] = CellsOf(t, call[c].ioi[k], Asked(c)[k]),
         NEW s \in Calls, s.uses = call[c].uses, s.kind = call[c].kind, s.began = call[c].began,
         s.results = call[c].results \o reply, s.stale = (call[c].stale \/ AnyStale(c))
  PROVE  ResultsInv(s, value) /\ Len(s.results) = call[c].ends[1]
<1> DEFINE r == call[c]
           m == Len(r.results)
           n == Len(Asked(c))
<1>1. r \in Calls /\ EndsInv(r) /\ PathsInv(r) /\ ResultsInv(r, value) /\ \A x \in Tags : r.began[x] <= value[x]
  BY DEF TypeOK, CallInv, InCall
<1>2. /\ Asked(c) = AskedOf(r) /\ DOMAIN Asked(c) = 1..n /\ n \in Nat
      /\ \A k \in 1..n :
           /\ Asked(c)[k] \in Uses /\ Encodes(r.ioi[k], Asked(c)[k])
           /\ Found(r.ioi[k]) \subseteq Tags
           /\ ~AnyStale(c) => Found(r.ioi[k]) = {Asked(c)[k].path.tag}
  BY <1>1, AskedFound
<1>3. /\ n = r.ends[1] - m /\ r.ends[1] \in Nat /\ r.ends[1] <= Len(r.uses)
      /\ \A k \in 1..n : Asked(c)[k] = r.uses[m + k]
  <2>1. 1 \in 1..Len(r.ends)
    BY <1>1 DEF EndsInv, Calls
  <2>2. r.ends[1] <= Len(r.uses)
    BY <1>1, <2>1 DEF EndsInv
  <2>3. /\ Len(AskedOf(r)) = r.ends[1] - Len(r.results) /\ r.ends[1] \in Nat
        /\ \A k \in 1..Len(AskedOf(r)) : AskedOf(r)[k] = r.uses[Len(r.results) + k]
    BY <1>1, AskedUses
  <2> QED BY ONLY <1>2, <2>2, <2>3
<1>4. reply \in Seq(Seq(Cells)) /\ Len(reply) = n
  <2>1. reply \in [1..n -> Seq(Cells)]
    BY <1>2
  <2> HIDE DEF n
  <2> QED BY ONLY <1>2, <2>1
<1>5. r.results \in Seq(Seq(Cells)) /\ m \in Nat /\ Len(r.uses) \in Nat
  BY <1>1 DEF Calls
<1> HIDE DEF m, n, r
<1>6. /\ Len(s.results) = m + n /\ \A k \in 1..m : s.results[k] = r.results[k]
      /\ \A k \in (m + 1)..(m + n) : s.results[k] = reply[k - m]
  <2>1. s.results = r.results \o reply
    BY DEF r
  <2>2. m = Len(r.results)
    BY DEF m
  <2> DEFINE a == r.results
             all == s.results
  <2>3. all = a \o reply /\ m = Len(a) /\ n = Len(reply) /\ a \in Seq(Seq(Cells)) /\ reply \in Seq(Seq(Cells))
    BY ONLY <1>4, <1>5, <2>1, <2>2
  <2> HIDE DEF a, all
  <2>4. /\ Len(all) = m + n /\ \A k \in 1..m : all[k] = a[k]
        /\ \A k \in (m + 1)..(m + n) : all[k] = reply[k - m]
    BY ONLY <2>3, Joined
  <2> QED BY ONLY <2>4 DEF a, all
<1>7. Len(s.results) = r.ends[1] /\ Len(s.results) <= Len(s.uses)
  <2>1. s.uses = r.uses
    BY DEF r
  <2> QED BY ONLY <1>2, <1>3, <1>5, <1>6, <2>1
<1>8. ASSUME ~s.stale, NEW k \in 1..n, reply[k] # Bad
      PROVE  /\ Len(reply[k]) = r.uses[m + k].size
             /\ \A i \in 1..Len(reply[k]) : IsCellOf(r, value, reply[k][i], i, r.uses[m + k])
  <2> DEFINE u == Asked(c)[k]
  <2>1. u = r.uses[m + k] /\ u \in Uses /\ Encodes(r.ioi[k], u) /\ Found(r.ioi[k]) \subseteq Tags
    BY ONLY <1>2, <1>3, k \in 1..n
  <2>2. Found(r.ioi[k]) = {u.path.tag}
    BY <1>2, <1>8 DEF r
  <2>3. PICK t \in Found(r.ioi[k]) : reply[k] = CellsOf(t, r.ioi[k], u)
    BY <1>2, <1>8 DEF r
  <2>4. t = u.path.tag /\ t \in Tags /\ r.began[t] <= value[t]
    BY <1>1, <2>1, <2>2, <2>3
  <2> HIDE DEF u
  <2>5. /\ Len(reply[k]) = u.size
        /\ \A i \in 1..u.size : IsCellOf(r, value, reply[k][i], i, u)
    BY <1>1, <2>1, <2>3, <2>4, WholeValue
  <2> QED BY ONLY <2>1, <2>5
<1>10. ASSUME ~s.stale, NEW k \in 1..Len(s.results), s.results[k] # Bad
       PROVE  /\ Len(s.results[k]) = s.uses[k].size
              /\ \A i \in 1..Len(s.results[k]) : IsCellOf(s, value, s.results[k][i], i, s.uses[k])
  <2>1. s.uses = r.uses /\ s.began = r.began /\ ~r.stale /\ InRead(r)
    BY <1>10 DEF r, InRead
  <2>2. CASE k \in 1..m
    <3>1. s.results[k] = r.results[k]
      BY <1>6, <2>2
    <3>2. /\ Len(r.results[k]) = r.uses[k].size
          /\ \A i \in 1..Len(r.results[k]) : IsCellOf(r, value, r.results[k][i], i, r.uses[k])
      BY <1>1, <1>10, <2>1, <2>2, <3>1 DEF ResultsInv, m
    <3> QED BY ONLY <2>1, <3>1, <3>2 DEF IsCellOf
  <2>3. CASE k \in (m + 1)..(m + n)
    <3>1. s.results[k] = reply[k - m]
      BY <1>6, <2>3
    <3>2. k - m \in 1..n /\ m + (k - m) = k
      BY ONLY <1>2, <1>5, <2>3
    <3>3. /\ Len(reply[k - m]) = r.uses[k].size
          /\ \A i \in 1..Len(reply[k - m]) : IsCellOf(r, value, reply[k - m][i], i, r.uses[k])
      BY <1>8, <1>10, <3>1, <3>2
    <3> QED BY ONLY <2>1, <3>1, <3>3 DEF IsCellOf
  <2>4. k \in 1..m \/ k \in (m + 1)..(m + n)
    BY ONLY <1>2, <1>5, <1>6, k \in 1..Len(s.results)
  <2> QED BY <2>2, <2>3, <2>4
<1>11. ResultsInv(s, value)
  BY ONLY <1>7, <1>10 DEF ResultsInv
<1> QED BY <1>7, <1>11 DEF r

(* One list more has been read. *)
LEMMA NextList ==
  ASSUME NEW r \in Calls, EndsInv(r), InList(r),
         NEW all \in Seq(Seq(Cells)), Len(all) = r.ends[1], NEW b \in BOOLEAN,
         NEW p \in {"count", "plan", "done", "panic"},
         Tail(r.ends) = <<>> <=> p \in {"done", "panic"}, p = "count" => r.kind = "ReadList",
         NEW s, s = WithResults(r, all, b, p)
  PROVE  /\ s \in Calls /\ s.pc = p /\ s.results = all /\ s.stale = b
         /\ s.kind = r.kind /\ s.uses = r.uses /\ s.began = r.began
         /\ Tail(r.ends) # <<>> => EndsInv(s) /\ PathsInv(s)
         /\ Tail(r.ends) = <<>> => Len(s.results) = Len(s.uses)
<1> DEFINE e == r.ends
           rest == Tail(e)
<1>1. e \in Seq(Nat) /\ Len(e) > 0 /\ \A i, j \in 1..Len(e) : i < j => e[i] < e[j]
  BY DEF EndsInv, Calls
<1>2. /\ rest \in Seq(Nat) /\ Len(rest) = Len(e) - 1 /\ Len(e) \in Nat /\ Len(rest) \in Nat
      /\ rest = <<>> => Len(e) = 1
      /\ rest # <<>> => Len(e) > 1 /\ rest[1] = e[2] /\ Head(rest) = e[2]
      /\ \A i \in 1..Len(rest) : rest[i] = e[i + 1] /\ e[1] < e[i + 1]
      /\ \A i, j \in 1..Len(rest) : i < j => rest[i] < rest[j]
  <2> HIDE DEF e
  <2>1. Len(e) \in Nat
    BY <1>1
  <2>2. Len(rest) = Len(e) - 1
    BY ONLY <1>1, EndsLeft
  <2> QED BY ONLY <1>1, <2>1, <2>2, EndsLeft
<1>3. s = [r EXCEPT !.results = all, !.ends = rest, !.ioi = <<>>, !.stale = b, !.pc = p]
  BY DEF WithResults
<1>4. /\ \A i \in 1..Len(e) : e[i] <= Len(r.uses)
      /\ e[Len(e)] = Len(r.uses) /\ r.uses \in Arguments(r.kind) /\ Len(r.uses) \in Nat
      /\ Len(all) = e[1]
  BY DEF EndsInv, Calls
<1> HIDE DEF rest, e
<1>5. <<>> \in Seq(IOIs)
  OBVIOUS
<1>6. /\ s \in Calls /\ s.pc = p /\ s.results = all /\ s.stale = b /\ s.ends = rest /\ s.ioi = <<>>
      /\ s.kind = r.kind /\ s.uses = r.uses /\ s.began = r.began
  BY ONLY <1>2, <1>3, <1>5, r \in Calls, all \in Seq(Seq(Cells)), b \in BOOLEAN,
          p \in {"count", "plan", "done", "panic"} DEF Calls
<1>7. ASSUME rest # <<>> PROVE EndsInv(s)
  <2>1. Len(rest) > 0
    BY ONLY <1>2, <1>7
  <2>2. rest[Len(rest)] = Len(r.uses)
    <3>1. Len(rest) \in 1..Len(rest) /\ Len(rest) + 1 = Len(e)
      BY ONLY <1>2, <2>1
    <3> QED BY ONLY <1>2, <1>4, <3>1
  <2>3. ASSUME NEW i \in 1..Len(rest) PROVE Len(all) <= rest[i] /\ rest[i] <= Len(r.uses)
    <3>1. rest[i] = e[i + 1] /\ e[1] < e[i + 1] /\ i + 1 \in 1..Len(e) /\ 1 \in 1..Len(e)
      BY ONLY <1>2, <2>3
    <3>2. e[1] \in Nat /\ e[i + 1] \in Nat
      BY ONLY <1>1, <3>1
    <3> QED BY ONLY <1>4, <3>1, <3>2
  <2>4. Len(all) < Head(rest)
    <3>1. 1 \in 1..Len(rest) /\ Head(rest) = rest[1]
      BY ONLY <1>2, <1>7, <2>1
    <3> QED BY ONLY <1>2, <1>4, <3>1
  <2>5. p = "count" => r.kind = "ReadList"
    OBVIOUS
  <2>6. InList(s)
    BY <1>6 DEF InList
  <2>7. \A i, j \in 1..Len(rest) : i < j => rest[i] < rest[j]
    BY ONLY <1>2
  <2> QED BY ONLY <1>4, <1>6, <2>1, <2>2, <2>3, <2>4, <2>5, <2>6, <2>7 DEF EndsInv
<1>8. ASSUME rest # <<>> PROVE PathsInv(s)
  <2>1. EndsInv(s)
    BY <1>7, <1>8
  <2>2. /\ Len(AskedOf(s)) = s.ends[1] - Len(s.results) /\ Len(AskedOf(s)) \in Nat
    BY ONLY <1>6, <2>1, AskedUses
  <2>3. /\ s.ends[1] = Head(rest) /\ s.ends[1] \in Nat /\ Head(s.ends) = s.ends[1]
    BY ONLY <1>6, <2>1, AskedUses
  <2>4. Len(s.ioi) = 0
    BY ONLY <1>6
  <2>5. s.pc # "ask"
    BY <1>6
  <2>6. s.pc = "count" => 0 < Len(AskedOf(s))
    <3>1. Len(s.results) \in Nat
      BY ONLY <1>6 DEF Calls
    <3>2. s.pc = "count" => Len(s.results) < Head(s.ends)
      BY ONLY <2>1 DEF EndsInv
    <3> QED BY ONLY <2>2, <2>3, <3>1, <3>2
  <2> QED BY ONLY <2>2, <2>4, <2>5, <2>6 DEF PathsInv
<1>9. rest = <<>> => Len(s.results) = Len(s.uses)
  BY ONLY <1>2, <1>4, <1>6
<1> QED BY <1>6, <1>7, <1>8, <1>9 DEF rest, e

(* What WriteMulti gives to WriteMap are fields of the struct.              *)
LEMMA DictTyped ==
  ASSUME NEW s \in UNION {multi_to_dict(us) : us \in DintLists}
  PROVE  /\ s \in Seq(Uses) /\ Len(s) \in Nat
         /\ \A k \in 1..Len(s) : s[k].type = "DINT"
<1>1. PICK us \in DintLists : s \in multi_to_dict(us)
  OBVIOUS
<1>2. us \in Seq(Uses) /\ \A k \in DOMAIN us : us[k].type = "DINT"
  BY <1>1, TagAccessAssumption DEF DintLists
<1> DEFINE fields == {us[k] : k \in {j \in DOMAIN us : us[j].size = 1}}
<1>3. \A u \in fields : u \in Uses /\ u.type = "DINT"
  BY <1>2
<1>4. PICK n \in 0..Len(us) : s \in [1..n -> fields]
  BY <1>1 DEF multi_to_dict
<1>5. n \in Nat
  BY <1>2, <1>4
<1> HIDE DEF fields
<1>6. s \in [1..n -> Uses] /\ \A k \in 1..n : s[k].type = "DINT"
  BY <1>3, <1>4
<1> QED BY <1>5, <1>6

(* Write and WriteMap: what is not refused has been written where it should.*)
LEMMA Writes ==
  ASSUME TypeOK, NEW c \in Callers, CallInv(call[c], value),
         call[c].pc = "ask", call[c].kind \in {"Write", "WriteMap", "WriteMulti"},
         NEW done \in SUBSET DOMAIN Asked(c), NEW did,
         did = UNION {{<<t, call[c].ioi[k].elem, Elements(c, Asked(c)[k])>> : t \in Found(call[c].ioi[k])}
                        : k \in done}
  PROVE  /\ did \in SUBSET (Tags \X Nat \X Nat)
         /\ (done = DOMAIN Asked(c) /\ ~AnyStale(c)) =>
              \A k \in 1..Len(call[c].uses) :
                (call[c].kind = "Write" \/ call[c].uses[k].size = 1) =>
                  <<call[c].uses[k].path.tag, call[c].uses[k].path.idx, call[c].uses[k].size>> \in did
<1> DEFINE r == call[c]
           n == Len(Asked(c))
<1>1. r \in Calls /\ EndsInv(r) /\ PathsInv(r)
  BY DEF TypeOK, CallInv, InCall
<1>2. /\ Asked(c) = AskedOf(r) /\ DOMAIN Asked(c) = 1..n /\ n \in Nat
      /\ \A k \in 1..n :
           /\ Asked(c)[k] \in Uses /\ Encodes(r.ioi[k], Asked(c)[k])
           /\ Found(r.ioi[k]) \subseteq Tags
           /\ ~AnyStale(c) => Found(r.ioi[k]) = {Asked(c)[k].path.tag}
  BY <1>1, AskedFound
<1>3. n = Len(r.uses) /\ \A k \in 1..n : Asked(c)[k] = r.uses[k]
  <2>1. ~InList(r)
    BY DEF InList
  <2>2. Len(r.results) = 0 /\ Len(r.ends) = 1 /\ r.ends[1] = Len(r.uses)
    BY ONLY <1>1, <2>1 DEF EndsInv
  <2>3. /\ Len(AskedOf(r)) = r.ends[1] - Len(r.results) /\ r.ends[1] \in Nat
        /\ \A k \in 1..Len(AskedOf(r)) : AskedOf(r)[k] = r.uses[Len(r.results) + k]
    BY <1>1, AskedUses
  <2>4. Len(AskedOf(r)) = Len(r.uses) /\ \A k \in 1..Len(AskedOf(r)) : 0 + k = k
    BY ONLY <2>2, <2>3
  <2> QED BY ONLY <1>2, <2>2, <2>3, <2>4
<1>4. \A k \in 1..n : r.uses[k].type = "DINT"
  <2>1. r.uses \in Arguments(r.kind)
    BY ONLY <1>1 DEF EndsInv
  <2>2. CASE r.kind = "Write"
    <3>1. PICK u \in Uses : u.type = "DINT" /\ r.uses = <<u>>
      BY <2>1, <2>2 DEF Arguments
    <3>2. n = 1 /\ r.uses[1] = u
      BY <1>3, <3>1
    <3> HIDE DEF n, r
    <3> QED BY ONLY <3>1, <3>2
  <2>3. CASE r.kind = "WriteMap"
    <3>1. \A k \in DOMAIN r.uses : r.uses[k].type = "DINT"
      BY <2>1, <2>3 DEF Arguments, DintLists
    <3>2. DOMAIN r.uses = 1..Len(r.uses)
      BY <1>1 DEF Calls
    <3> QED BY ONLY <1>3, <3>1, <3>2
  <2>4. CASE r.kind = "WriteMulti"
    <3>1. \A k \in 1..Len(r.uses) : r.uses[k].type = "DINT"
      BY <2>1, <2>4, DictTyped DEF Arguments
    <3> QED BY ONLY <1>3, <3>1
  <2> QED BY <2>2, <2>3, <2>4
<1>5. \A k \in 1..n : Elements(c, Asked(c)[k]) \in Nat /\ r.ioi[k].elem \in Nat
  BY <1>2, UsesTyped DEF Elements, Encodes
<1>6. did \in SUBSET (Tags \X Nat \X Nat)
  <2>1. \A k \in done : k \in 1..n
    BY ONLY <1>2, done \in SUBSET DOMAIN Asked(c)
  <2>2. \A k \in done : \A t \in Found(r.ioi[k]) :
          <<t, r.ioi[k].elem, Elements(c, Asked(c)[k])>> \in Tags \X Nat \X Nat
    BY <1>2, <1>5, <2>1
  <2> QED BY <2>2
<1>7. ASSUME done = DOMAIN Asked(c), ~AnyStale(c), NEW k \in 1..Len(r.uses),
             r.kind = "Write" \/ r.uses[k].size = 1
      PROVE  <<r.uses[k].path.tag, r.uses[k].path.idx, r.uses[k].size>> \in did
  <2> DEFINE u == r.uses[k]
  <2>1. k \in done /\ k \in 1..n /\ u = Asked(c)[k]
    BY ONLY <1>2, <1>3, <1>7
  <2>2. u.path.tag \in Found(r.ioi[k]) /\ Encodes(r.ioi[k], u) /\ u.type = "DINT"
    BY ONLY <1>2, <1>4, <1>7, <2>1
  <2>3. r.ioi[k].elem = u.path.idx
    BY <2>2 DEF Encodes, ElemOf
  <2>4. Elements(c, Asked(c)[k]) = u.size
    BY <1>7, <2>1 DEF Elements
  <2>5. <<u.path.tag, r.ioi[k].elem, Elements(c, Asked(c)[k])>> \in did
    BY <2>1, <2>2
  <2> QED BY ONLY <2>3, <2>4, <2>5
<1> QED BY <1>6, <1>7

-----------------------------------------------------------------------------
(* The steps of a call.                                                     *)

(* A step of a call that leaves the controller and the cache as they are.   *)
LEMMA CallOnly ==
  ASSUME IInv, NEW c \in Callers, NEW r \in Calls, CallInv(r, value),
         call' = [call EXCEPT ![c] = r], UNCHANGED <<value, symbol, downloads, known, cache>>
  PROVE  IInv'
<1>1. TypeOK /\ CacheInv /\ \A d \in Callers : CallInv(call[d], value)
  BY DEF IInv
<1>2. value' \in [Tags -> Nat] /\ \A t \in Tags : value[t] <= value'[t]
  BY <1>1 DEF TypeOK
<1>3. CallInv(r, value')
  OBVIOUS
<1>4. call' \in [Callers -> Calls] /\ \A d \in Callers : CallInv(call'[d], value')
  BY <1>1, <1>2, <1>3, OneCall
<1>5. TypeOK'
  BY <1>1, <1>4 DEF TypeOK
<1>6. CacheInv'
  BY <1>1 DEF CacheInv
<1> QED BY <1>4, <1>5, <1>6 DEF IInv

(* newIOI: the path of the next use is encoded, and put into the cache.     *)
LEMMA NextPath ==
  ASSUME OneType, IInv, NEW c \in Callers, EndsInv(call[c]), Encoded(c) < Len(Asked(c)),
         cache' = [cache EXCEPT ![NextUse(c).path] = NextIOI(c)]
  PROVE  /\ NextIOI(c) \in IOIs /\ Encodes(NextIOI(c), AskedOf(call[c])[Len(call[c].ioi) + 1])
         /\ cache' \in [Paths -> IOIs] /\ CacheInv'
<1> DEFINE u == NextUse(c)
           x == NextIOI(c)
<1>1. /\ call[c] \in Calls /\ cache \in [Paths -> IOIs] /\ CacheInv
      /\ known \in [Tags -> Instances \cup {NoInstance}]
  BY DEF IInv, TypeOK
<1>2. Asked(c) = AskedOf(call[c]) /\ Asked(c) \in Seq(Uses) /\ Len(Asked(c)) \in Nat
  BY <1>1, AskedUses DEF Asked, AskedOf
<1>3. Len(call[c].ioi) \in Nat /\ u = AskedOf(call[c])[Len(call[c].ioi) + 1]
  BY <1>1, <1>2 DEF Calls, NextUse, Encoded
<1>4. u \in Uses
  BY <1>2, <1>3 DEF Encoded
<1>5. u.path \in Paths
  BY <1>4, UsesTyped
<1>6. cache[u.path] \in IOIs /\ (cache[u.path] = NoIOI \/ Encodes(cache[u.path], u))
  BY <1>1, <1>4, <1>5 DEF CacheInv
<1>7. x \in IOIs /\ Encodes(x, u)
  BY <1>1, <1>4, <1>6, NewPath DEF NextIOI
<1>8. cache' = [cache EXCEPT ![u.path] = x]
  OBVIOUS
<1> HIDE DEF u, x
<1>9. cache' \in [Paths -> IOIs]
  BY <1>1, <1>7, <1>8
<1>10. ASSUME NEW w \in Uses PROVE cache'[w.path] = NoIOI \/ Encodes(cache'[w.path], w)
  <2>1. CASE w.path = u.path
    <3>1. cache'[w.path] = x
      BY ONLY <1>1, <1>5, <1>8, <2>1
    <3>2. w.type = u.type
      BY <1>4, <2>1 DEF OneType
    <3>3. Encodes(x, w)
      BY ONLY <1>7, <2>1, <3>2 DEF Encodes, ElemOf, BitOf
    <3> QED BY ONLY <3>1, <3>3
  <2>2. CASE w.path # u.path
    <3>1. w.path \in Paths
      BY UsesTyped
    <3>2. cache'[w.path] = cache[w.path]
      BY ONLY <1>1, <1>8, <2>2, <3>1
    <3> QED BY <1>1, <3>2 DEF CacheInv
  <2> QED BY <2>1, <2>2
<1>11. CacheInv'
  BY <1>10 DEF CacheInv
<1> QED BY <1>3, <1>7, <1>9, <1>11 DEF x, u

(* A step of a call in which a path is encoded. *)
LEMMA CallAndCache ==
  ASSUME IInv, NEW c \in Callers, NEW r \in Calls, CallInv(r, value),
         call' = [call EXCEPT ![c] = r], UNCHANGED <<value, symbol, downloads, known>>,
         cache' \in [Paths -> IOIs], CacheInv'
  PROVE  IInv'
<1>1. TypeOK /\ \A d \in Callers : CallInv(call[d], value)
  BY DEF IInv
<1>2. value' \in [Tags -> Nat] /\ \A t \in Tags : value[t] <= value'[t]
  BY <1>1 DEF TypeOK
<1>3. CallInv(r, value')
  OBVIOUS
<1>4. call' \in [Callers -> Calls] /\ \A d \in Callers : CallInv(call'[d], value')
  BY <1>1, <1>2, <1>3, OneCall
<1>5. TypeOK'
  BY <1>1, <1>4 DEF TypeOK
<1> QED BY <1>4, <1>5 DEF IInv

LEMMA CallTyped ==
  ASSUME IInv, NEW c \in Callers
  PROVE  /\ call \in [Callers -> Calls] /\ call[c] \in Calls /\ CallInv(call[c], value) /\ TypeOK
         /\ InCall(call[c]) =>
              /\ EndsInv(call[c]) /\ PathsInv(call[c]) /\ Asked(c) = AskedOf(call[c])
              /\ Len(Asked(c)) \in Nat /\ Encoded(c) \in Nat /\ Encoded(c) = Len(call[c].ioi)
<1>1. /\ call \in [Callers -> Calls] /\ call[c] \in Calls /\ CallInv(call[c], value) /\ TypeOK
  BY DEF IInv, TypeOK
<1>2. ASSUME InCall(call[c]) PROVE EndsInv(call[c]) /\ PathsInv(call[c])
  BY <1>1, <1>2 DEF CallInv
<1>3. ASSUME InCall(call[c]) PROVE Asked(c) = AskedOf(call[c]) /\ Len(Asked(c)) \in Nat
  BY <1>1, <1>2, <1>3, AskedUses DEF Asked, AskedOf
<1>4. Encoded(c) \in Nat /\ Encoded(c) = Len(call[c].ioi)
  BY <1>1 DEF Encoded, Calls
<1> QED BY <1>1, <1>2, <1>3, <1>4

LEMMA StepEncodePath ==
  ASSUME OneType, IInv, NEW c \in Callers, EncodePath(c)
  PROVE  IInv'
<1> DEFINE r == call[c]
<1>1. /\ call \in [Callers -> Calls] /\ r \in Calls /\ CallInv(r, value) /\ EndsInv(r)
      /\ Asked(c) = AskedOf(r) /\ Encoded(c) = Len(r.ioi) /\ r.pc = "plan" /\ Encoded(c) < Len(Asked(c))
  BY CallTyped DEF EncodePath, InCall
<1>2. /\ NextIOI(c) \in IOIs /\ Encodes(NextIOI(c), AskedOf(r)[Len(r.ioi) + 1])
      /\ cache' \in [Paths -> IOIs] /\ CacheInv'
  BY <1>1, NextPath DEF EncodePath
<1>3. WithPath(r, NextIOI(c)) \in Calls /\ CallInv(WithPath(r, NextIOI(c)), value)
  BY <1>1, <1>2, AddPath
<1>4. call' = [call EXCEPT ![c] = WithPath(r, NextIOI(c))]
  BY <1>1 DEF EncodePath, WithPath
<1>5. UNCHANGED <<value, symbol, downloads, known>>
  BY DEF EncodePath
<1> QED BY <1>2, <1>3, <1>4, <1>5, CallAndCache

LEMMA StepCount ==
  ASSUME OneType, IInv, NEW c \in Callers, countIOIsThatFit(c)
  PROVE  IInv'
<1> DEFINE r == call[c]
           k == Encoded(c) + 1
           n == Len(Asked(c))
<1>1. /\ call \in [Callers -> Calls] /\ r \in Calls /\ CallInv(r, value) /\ EndsInv(r) /\ PathsInv(r)
      /\ Asked(c) = AskedOf(r) /\ Encoded(c) = Len(r.ioi) /\ Encoded(c) \in Nat /\ n \in Nat
      /\ r.pc = "count"
  BY CallTyped DEF countIOIsThatFit, InCall
<1>2. k <= n /\ r.kind = "ReadList" /\ Encoded(c) < n
  BY <1>1 DEF PathsInv, EndsInv
<1>3. cache' = [cache EXCEPT ![NextUse(c).path] = NextIOI(c)]
  BY DEF countIOIsThatFit
<1>4. /\ NextIOI(c) \in IOIs /\ Encodes(NextIOI(c), AskedOf(r)[Len(r.ioi) + 1])
      /\ cache' \in [Paths -> IOIs] /\ CacheInv'
  BY <1>1, <1>2, <1>3, NextPath
<1>5. UNCHANGED <<value, symbol, downloads, known>>
  BY DEF countIOIsThatFit
<1>6. \/ k < n /\ call' = [call EXCEPT ![c].ioi = Append(r.ioi, NextIOI(c))]
      \/ \E m \in {k - 1, k} :
           /\ m = k - 1 => k > 1
           /\ call' = [call EXCEPT ![c].pc = "plan", ![c].ioi = <<>>,
                                   ![c].ends = IF m < n THEN SplitAfter(c, m) ELSE @]
  <2> DEFINE over == \/ 30 + 2 * k + SizeOf(Append(r.ioi, NextIOI(c))) >= ConnectionSize
                     \/ 28 + 2 * k + ReplySize(SubSeq(Asked(c), 1, k)) >= ConnectionSize
             m == IF over /\ k > 1 THEN k - 1 ELSE k
  <2>1. \/ k < n /\ call' = [call EXCEPT ![c].ioi = Append(r.ioi, NextIOI(c))]
        \/ call' = [call EXCEPT ![c].pc = "plan", ![c].ioi = <<>>,
                                ![c].ends = IF m < n THEN SplitAfter(c, m) ELSE @]
    BY Zenon DEF countIOIsThatFit
  <2> HIDE DEF over
  <2>2. m \in {k - 1, k} /\ (m = k - 1 => k > 1)
    BY ONLY <1>1
  <2> HIDE DEF m, k, n, r
  <2> QED BY ONLY <2>1, <2>2
<1>7. CASE k < n /\ call' = [call EXCEPT ![c].ioi = Append(r.ioi, NextIOI(c))]
  <2>1. WithPath(r, NextIOI(c)) \in Calls /\ CallInv(WithPath(r, NextIOI(c)), value)
    BY <1>1, <1>2, <1>4, <1>7, AddPath
  <2>2. call' = [call EXCEPT ![c] = WithPath(r, NextIOI(c))]
    BY <1>1, <1>7 DEF WithPath
  <2> QED BY <1>4, <1>5, <2>1, <2>2, CallAndCache
<1>8. ASSUME NEW m \in {k - 1, k}, m = k - 1 => k > 1,
             call' = [call EXCEPT ![c].pc = "plan", ![c].ioi = <<>>,
                                  ![c].ends = IF m < n THEN SplitAfter(c, m) ELSE @]
      PROVE  IInv'
  <2>1. m \in Nat
    BY ONLY <1>1, <1>8
  <2>2. CASE m < n
    <3>1. call' = [call EXCEPT ![c].pc = "plan", ![c].ioi = <<>>, ![c].ends = SplitAfter(c, m)]
      BY <1>8, <2>2
    <3>2. call' = [call EXCEPT ![c] = Split(r, m)]
      BY ONLY <1>1, <3>1 DEF Split, SplitAfter
    <3>3. Split(r, m) \in Calls /\ CallInv(Split(r, m), value)
      BY <1>1, <1>2, <2>1, <2>2, SplitList DEF InCall, InList
    <3> QED BY <1>4, <1>5, <3>2, <3>3, CallAndCache
  <2>3. CASE ~(m < n)
    <3>1. call' = [call EXCEPT ![c].pc = "plan", ![c].ioi = <<>>, ![c].ends = @]
      BY <1>8, <2>3
    <3>2. call' = [call EXCEPT ![c] = Counted(r)]
      BY ONLY <1>1, <3>1 DEF Counted, Calls
    <3>3. Counted(r) \in Calls /\ CallInv(Counted(r), value)
      BY <1>1, KeepList
    <3> QED BY <1>4, <1>5, <3>2, <3>3, CallAndCache
  <2> QED BY <2>2, <2>3
<1> HIDE DEF k, n, r
<1> QED BY <1>6, <1>7, <1>8

LEMMA StepBuild ==
  ASSUME IInv, NEW c \in Callers, BuildRequest(c)
  PROVE  IInv'
<1> DEFINE r == call[c]
           n == Len(Asked(c))
           over == {i \in 1..n : SizeOf(SubSeq(call[c].ioi, 1, i)) + 6 > ConnectionSize}
<1>1. /\ call \in [Callers -> Calls] /\ r \in Calls /\ CallInv(r, value) /\ EndsInv(r)
      /\ Asked(c) = AskedOf(r) /\ Encoded(c) = Len(r.ioi) /\ n \in Nat
      /\ r.pc = "plan" /\ Encoded(c) = n
  BY CallTyped DEF BuildRequest, InCall
<1>2. UNCHANGED <<value, symbol, downloads, known, cache>>
  BY DEF BuildRequest
<1>3. \/ /\ InList(r) /\ over # {}
         /\ call' = [call EXCEPT ![c].ioi = <<>>, ![c].ends = SplitAfter(c, Min(over) - 1)]
      \/ call' = [call EXCEPT ![c].pc = "ask"]
  BY DEF BuildRequest, InList
<1>4. over \in SUBSET Nat /\ \A i \in over : i \in 1..n
  BY <1>1
<1> HIDE DEF over
<1>5. CASE InList(r) /\ over # {} /\ call' = [call EXCEPT ![c].ioi = <<>>, ![c].ends = SplitAfter(c, Min(over) - 1)]
  <2> DEFINE m == Min(over) - 1
  <2>1. Min(over) \in 1..n
    BY <1>4, <1>5, MinIn
  <2>2. m \in Nat /\ m < n
    BY ONLY <1>1, <2>1
  <2>3. call' = [call EXCEPT ![c].ioi = <<>>, ![c].ends = SplitAfter(c, m)]
    BY <1>5
  <2> HIDE DEF m
  <2>4. call' = [call EXCEPT ![c] = Split(r, m)]
    <3>1. r.pc = "plan" /\ r \in Calls
      BY <1>1
    <3>2. [r EXCEPT !.ioi = <<>>, !.ends = SplitAfter(c, m)] = Split(r, m)
      BY ONLY <3>1 DEF Split, SplitAfter, Calls
    <3>3. call' = [call EXCEPT ![c] = [r EXCEPT !.ioi = <<>>, !.ends = SplitAfter(c, m)]]
      BY ONLY <1>1, <2>3
    <3> QED BY ONLY <3>2, <3>3
  <2>5. Split(r, m) \in Calls /\ CallInv(Split(r, m), value)
    BY <1>1, <1>5, <2>2, SplitList DEF InCall
  <2> QED BY <1>2, <2>4, <2>5, CallOnly
<1>6. CASE call' = [call EXCEPT ![c].pc = "ask"]
  <2>1. call' = [call EXCEPT ![c] = Sent(r)]
    BY <1>1, <1>6 DEF Sent
  <2>2. Sent(r) \in Calls /\ CallInv(Sent(r), value)
    BY <1>1, Sends
  <2> QED BY <1>2, <2>1, <2>2, CallOnly
<1> QED BY <1>3, <1>5, <1>6

LEMMA StepFails ==
  ASSUME IInv, NEW c \in Callers, ExchangeFails(c) \/ TooManyRounds(c)
  PROVE  IInv'
<1>1. Failed(c) \in Calls /\ CallInv(Failed(c), value)
  BY CallTyped, Fails
<1>2. call' = [call EXCEPT ![c] = Failed(c)] /\ UNCHANGED <<value, symbol, downloads, known, cache>>
  BY DEF ExchangeFails, TooManyRounds
<1> QED BY <1>1, <1>2, CallOnly

LEMMA StepRead ==
  ASSUME IInv, NEW c \in Callers, Read_single(c)
  PROVE  IInv'
<1> DEFINE r == call[c]
           size == r.uses[1].size
           b == r.stale \/ AnyStale(c)
           next(d) == WithData(r, d, NextRound(c), b)
<1>1. /\ call \in [Callers -> Calls] /\ r \in Calls /\ CallInv(r, value) /\ TypeOK /\ EndsInv(r)
      /\ r.pc = "ask" /\ r.kind = "Read" /\ DataInv(r, value)
  BY CallTyped DEF Read_single, InCall, CallInv
<1>2. UNCHANGED <<value, symbol, downloads, known, cache>>
  BY DEF Read_single
<1>3. PICK t \in Found(r.ioi[1]), upto \in 0..size :
        \/ /\ upto - Offset(c) \in Cuts
           /\ call' = [call EXCEPT ![c] = next(PartsTo(c, t, upto))]
        \/ /\ upto = size
           /\ call' = [call EXCEPT ![c] = Finished(next(PartsTo(c, t, upto)), <<PartsTo(c, t, upto)>>)]
        \/ call' = [call EXCEPT ![c] = Failed(c)]
  BY Zenon DEF Read_single, PartsTo, WithData, Finished
<1> DEFINE data == PartsTo(c, t, upto)
<1>4. CASE upto - Offset(c) \in Cuts /\ call' = [call EXCEPT ![c] = next(data)]
  <2>1. Offset(c) <= upto
    <3>1. Offset(c) \in Nat
      BY <1>1 DEF Offset, Calls
    <3>2. upto - Offset(c) \in Nat
      BY <1>4
    <3>3. size \in Nat
      BY <1>1, UsesTyped DEF EndsInv, Arguments
    <3>4. upto \in Nat
      BY ONLY <3>3, upto \in 0..size
    <3> QED BY ONLY <3>1, <3>2, <3>4
  <2>2. next(data) \in Calls /\ CallInv(next(data), value)
    BY <1>1, <2>1, ReadsPart
  <2> HIDE DEF next, data
  <2> QED BY <1>2, <1>4, <2>2, CallOnly
<1>5. CASE upto = size /\ call' = [call EXCEPT ![c] = Finished(next(data), <<data>>)]
  <2>1. Finished(next(data), <<data>>) \in Calls /\ CallInv(Finished(next(data), <<data>>), value)
    BY <1>1, <1>5, ReadsRest
  <2> HIDE DEF next, data
  <2> QED BY <1>2, <1>5, <2>1, CallOnly
<1>6. CASE call' = [call EXCEPT ![c] = Failed(c)]
  <2>1. Failed(c) \in Calls /\ CallInv(Failed(c), value)
    BY <1>1, Fails
  <2> QED BY <1>2, <1>6, <2>1, CallOnly
<1> QED BY <1>3, <1>4, <1>5, <1>6

LEMMA StepReadList ==
  ASSUME IInv, NEW c \in Callers, readList(c)
  PROVE  IInv'
<1> DEFINE r == call[c]
           us == Asked(c)
           b == r.stale \/ AnyStale(c)
           rest == Tail(r.ends)
           Answer(k) == {Bad} \cup {CellsOf(t, r.ioi[k], us[k]) : t \in Found(r.ioi[k])}
           P(all) == CASE rest = <<>> -> Returned(c, all)
                       [] rest # <<>> /\ r.kind = "ReadList" -> "count"
                       [] OTHER -> "plan"
<1>1. /\ call \in [Callers -> Calls] /\ r \in Calls /\ CallInv(r, value) /\ TypeOK
      /\ EndsInv(r) /\ PathsInv(r) /\ r.pc = "ask" /\ InList(r)
      /\ \A x \in Tags : r.began[x] <= value[x]
  BY CallTyped DEF readList, InCall, InList, CallInv
<1>2. UNCHANGED <<value, symbol, downloads, known, cache>>
  BY DEF readList
<1>3. PICK reply \in [DOMAIN us -> UNION {Answer(k) : k \in DOMAIN us}] :
        /\ \A k \in DOMAIN us : reply[k] \in Answer(k)
        /\ call' = [call EXCEPT ![c] = [r EXCEPT
                      !.results = r.results \o reply, !.ends = rest, !.ioi = <<>>,
                      !.stale = b, !.pc = P(r.results \o reply)]]
  BY Zenon DEF readList
<1>4. \A k \in DOMAIN us : reply[k] = Bad \/ \E t \in Found(r.ioi[k]) : reply[k] = CellsOf(t, r.ioi[k], us[k])
  BY <1>3
<1>5. \A k \in DOMAIN us : reply[k] \in Seq(Cells)
  <2>1. /\ DOMAIN us = 1..Len(us)
        /\ \A k \in 1..Len(us) : us[k] \in Uses /\ Encodes(r.ioi[k], us[k]) /\ Found(r.ioi[k]) \subseteq Tags
    BY <1>1, AskedFound
  <2>2. Bad \in Seq(Cells)
    BY DEF Bad
  <2> TAKE k \in DOMAIN us
  <2>3. CASE reply[k] = Bad
    BY ONLY <2>2, <2>3
  <2>4. ASSUME NEW t \in Found(r.ioi[k]), reply[k] = CellsOf(t, r.ioi[k], us[k])
        PROVE  reply[k] \in Seq(Cells)
    BY <1>1, <2>1, <2>4, WholeValue
  <2> QED BY <1>4, <2>3, <2>4
<1>6. DOMAIN reply = DOMAIN us /\ reply \in [DOMAIN us -> Seq(Cells)]
  BY <1>3, <1>5
<1> HIDE DEF Answer
<1> DEFINE all == r.results \o reply
           p == P(all)
           s == WithResults(r, all, b, p)
<1>7. all \in Seq(Seq(Cells)) /\ Len(all) = r.ends[1]
  <2>1. /\ DOMAIN us = 1..Len(us) /\ Len(us) \in Nat /\ us = AskedOf(r)
    BY <1>1, AskedFound
  <2>2. Len(AskedOf(r)) = r.ends[1] - Len(r.results) /\ r.ends[1] \in Nat
    BY <1>1, AskedUses
  <2>3. reply \in Seq(Seq(Cells)) /\ Len(reply) = Len(us)
    <3>1. reply \in [1..Len(us) -> Seq(Cells)]
      BY ONLY <1>6, <2>1
    <3> HIDE DEF us
    <3> QED BY ONLY <2>1, <3>1
  <2>4. r.results \in Seq(Seq(Cells)) /\ Len(r.results) \in Nat
    BY <1>1 DEF Calls
  <2>5. all \in Seq(Seq(Cells)) /\ Len(all) = Len(r.results) + Len(reply)
    <3> DEFINE a == r.results
    <3>1. a \in Seq(Seq(Cells))
      BY <2>4
    <3> HIDE DEF a
    <3>2. a \o reply \in Seq(Seq(Cells)) /\ Len(a \o reply) = Len(a) + Len(reply)
      BY ONLY <2>3, <3>1, Joined
    <3> QED BY ONLY <3>2 DEF a
  <2>6. Len(us) = r.ends[1] - Len(r.results)
    BY ONLY <2>1, <2>2
  <2> HIDE DEF all, us, r
  <2> QED BY ONLY <2>1, <2>2, <2>3, <2>4, <2>5, <2>6
<1>8. /\ p \in {"count", "plan", "done", "panic"}
      /\ rest = <<>> <=> p \in {"done", "panic"}
      /\ p = "count" => r.kind = "ReadList"
  BY DEF Returned
<1>9. b \in BOOLEAN
  OBVIOUS
<1>10. call' = [call EXCEPT ![c] = s] /\ s = WithResults(r, all, b, p)
  <2>1. s = [r EXCEPT !.results = all, !.ends = rest, !.ioi = <<>>, !.stale = b, !.pc = p]
    BY Zenon DEF WithResults
  <2> HIDE DEF s
  <2>2. call' = [call EXCEPT ![c] = s]
    BY <1>3, <2>1, Zenon
  <2> QED BY <2>2 DEF s
<1> HIDE DEF P, all, b, p, s
<1>11. /\ s \in Calls /\ s.pc = p /\ s.results = all /\ s.stale = b
       /\ s.kind = r.kind /\ s.uses = r.uses /\ s.began = r.began
       /\ rest # <<>> => EndsInv(s) /\ PathsInv(s)
       /\ rest = <<>> => Len(s.results) = Len(s.uses)
  <2> HIDE DEF r
  <2> QED BY ONLY <1>1, <1>7, <1>8, <1>9, <1>10, NextList
<1>12. ResultsInv(s, value)
  <2>1. s.results = call[c].results \o reply /\ s.stale = (call[c].stale \/ AnyStale(c))
    BY <1>11 DEF all, b
  <2> QED BY <1>1, <1>4, <1>6, <1>11, <2>1, ReadsList
<1>13. CallInv(s, value)
  <2>1. s.kind # "Read" /\ s.kind \notin {"Write", "WriteMap", "WriteMulti", "GenericCIPMessage"}
    BY <1>1, <1>11 DEF InList
  <2>2. DataInv(s, value)
    BY <2>1 DEF DataInv
  <2>3. InCall(s) => rest # <<>>
    BY <1>8, <1>11 DEF InCall
  <2>4. s.pc = "done" => rest = <<>>
    BY <1>8, <1>11
  <2>5. DoneInv(s)
    BY <1>11, <2>1, <2>4 DEF DoneInv
  <2> QED BY <1>1, <1>11, <1>12, <2>2, <2>3, <2>5 DEF CallInv
<1> QED BY <1>2, <1>10, <1>11, <1>13, CallOnly

LEMMA StepWrite ==
  ASSUME IInv, NEW c \in Callers, WriteTags(c)
  PROVE  IInv'
<1> DEFINE r == call[c]
           us == Asked(c)
           Did(done) == UNION {{<<t, r.ioi[k].elem, Elements(c, us[k])>> : t \in Found(r.ioi[k])} : k \in done}
           Hit(done) == UNION {Found(r.ioi[k]) : k \in done}
<1>1. /\ call \in [Callers -> Calls] /\ r \in Calls /\ CallInv(r, value) /\ TypeOK
      /\ r.pc = "ask" /\ r.kind \in {"Write", "WriteMap", "WriteMulti"}
  BY CallTyped DEF WriteTags
<1>2. UNCHANGED <<symbol, downloads, known, cache>>
  BY DEF WriteTags
<1>3. PICK done \in SUBSET {k \in DOMAIN us : Found(r.ioi[k]) # {}}, answered \in BOOLEAN :
        /\ value' = [t \in Tags |-> IF t \in Hit(done) THEN value[t] + 1 ELSE value[t]]
        /\ call' = [call EXCEPT ![c] =
              IF answered
              THEN Over([r EXCEPT !.did = Did(done), !.refused = (done # DOMAIN us),
                                  !.stale = AnyStale(c), !.pc = StatusChecked(c, done # DOMAIN us)])
              ELSE Failed(c)]
  BY Zenon DEF WriteTags
<1> DEFINE did == Did(done)
           ref == done # DOMAIN us
           b == AnyStale(c)
           p == StatusChecked(c, ref)
           s == IF answered THEN Written(r, did, ref, b, p) ELSE Failed(c)
<1>4. call' = [call EXCEPT ![c] = s]
  BY <1>3, Zenon DEF Written
<1>5. value' \in [Tags -> Nat] /\ \A t \in Tags : value[t] <= value'[t]
  <2> HIDE DEF Hit
  <2>1. value \in [Tags -> Nat]
    BY <1>1 DEF TypeOK
  <2>2. \A t \in Tags : value'[t] = value[t] + 1 \/ value'[t] = value[t]
    BY <1>3
  <2>3. \A t \in Tags : value'[t] \in Nat /\ value[t] <= value'[t]
    BY ONLY <2>1, <2>2
  <2>4. value' = [t \in Tags |-> value'[t]]
    BY <1>3
  <2> QED BY ONLY <2>3, <2>4
<1>6. /\ did \in SUBSET (Tags \X Nat \X Nat)
      /\ (~ref /\ ~b) =>
           \A k \in 1..Len(r.uses) :
             (r.kind = "Write" \/ r.uses[k].size = 1) =>
               <<r.uses[k].path.tag, r.uses[k].path.idx, r.uses[k].size>> \in did
  <2>1. done \in SUBSET DOMAIN Asked(c)
    OBVIOUS
  <2> QED BY <1>1, <2>1, Writes
<1>7. ref \in BOOLEAN /\ b \in BOOLEAN
  BY DEF AnyStale
<1>8. p \in {"done", "error"} /\ (p = "done" /\ r.kind = "Write" => ~ref)
  BY DEF StatusChecked
<1>9. s = Written(r, did, ref, b, p) \/ s = Failed(c)
  OBVIOUS
<1> HIDE DEF did, ref, b, p, s
<1>10. s \in Calls /\ CallInv(s, value')
  <2>1. CASE s = Written(r, did, ref, b, p)
    <3> HIDE DEF r
    <3>1. /\ s \in Calls /\ s.did = did /\ s.refused = ref /\ s.stale = b /\ s.pc = p
          /\ s.kind = r.kind /\ s.uses = r.uses
      BY ONLY <1>1, <1>6, <1>7, <1>8, <2>1, GotAnswer
    <3>2. DoneInv(s)
      BY ONLY <1>1, <1>6, <1>8, <3>1 DEF DoneInv, InRead, InList
    <3>3. ~InCall(s) /\ ~InRead(s)
      BY ONLY <1>1, <1>8, <3>1 DEF InCall, InRead, InList
    <3> QED BY ONLY <3>1, <3>2, <3>3 DEF CallInv, ResultsInv
  <2>2. CASE s = Failed(c)
    BY <1>1, <2>2, Fails
  <2> QED BY <1>9, <2>1, <2>2
<1>11. call' \in [Callers -> Calls] /\ \A d \in Callers : CallInv(call'[d], value')
  BY <1>1, <1>4, <1>5, <1>10, OneCall DEF IInv
<1>12. TypeOK'
  BY <1>1, <1>2, <1>5, <1>11 DEF TypeOK
<1>13. CacheInv'
  BY <1>2 DEF CacheInv, IInv
<1> QED BY <1>11, <1>12, <1>13 DEF IInv

LEMMA StepAnswered ==
  ASSUME IInv, NEW c \in Callers, GetAttrSingle(c) \/ GenericCIPMessage(c)
  PROVE  IInv'
<1> DEFINE r == call[c]
<1>1. call \in [Callers -> Calls] /\ r \in Calls /\ r.kind \in {"GetAttrSingle", "GenericCIPMessage"}
  BY CallTyped DEF GetAttrSingle, GenericCIPMessage
<1>2. UNCHANGED <<value, symbol, downloads, known, cache>>
  BY DEF GetAttrSingle, GenericCIPMessage, Answered
<1>3. PICK ref \in BOOLEAN :
        call' = [call EXCEPT ![c].refused = ref, ![c].pc = StatusChecked(c, ref)]
  BY Zenon DEF GetAttrSingle, GenericCIPMessage, Answered
<1> DEFINE p == StatusChecked(c, ref)
           s == Told(r, ref, p)
<1>4. p \in {"done", "error"} /\ (p = "done" /\ r.kind = "GenericCIPMessage" => ~ref)
  BY DEF StatusChecked
<1>5. call' = [call EXCEPT ![c] = s]
  BY <1>1, <1>3 DEF Told
<1>6. s \in Calls /\ s.pc = p /\ s.refused = ref /\ s.kind = r.kind
  <2> HIDE DEF p, r
  <2> QED BY ONLY <1>1, <1>4, ref \in BOOLEAN DEF Calls, Told
<1> HIDE DEF s, p
<1>7. DoneInv(s) /\ ~InCall(s) /\ ~InRead(s)
  BY ONLY <1>1, <1>4, <1>6 DEF DoneInv, InCall, InRead, InList
<1>8. CallInv(s, value)
  BY ONLY <1>7 DEF CallInv, ResultsInv
<1> QED BY <1>2, <1>5, <1>6, <1>8, CallOnly

-----------------------------------------------------------------------------
(* Calls that begin, and the controller.                                    *)

LEMMA ArgumentsTyped ==
  ASSUME NEW kind \in AllKinds, NEW us \in Arguments(kind)
  PROVE  /\ us \in Seq(Uses) /\ Len(us) \in Nat
         /\ kind = "ReadList" => 0 < Len(us)
         /\ kind = "Read" => us[1] \in Uses
<1>1. CASE kind \in {"Read", "Write"}
  <2>1. PICK u \in Uses : us = <<u>>
    BY <1>1 DEF Arguments
  <2> QED BY <1>1, <2>1
<1>2. CASE kind \in {"ReadMulti", "ReadList", "WriteMap"}
  <2>1. us \in Lists
    BY <1>2 DEF Arguments, DintLists
  <2>2. us \in Seq(Uses) /\ us # <<>>
    BY <2>1
  <2>3. Len(us) \in Nat /\ Len(us) # 0
    BY ONLY <2>2
  <2> QED BY ONLY <1>2, <2>2, <2>3
<1>3. CASE kind \in {"GetAttrSingle", "GenericCIPMessage"}
  <2>1. us = <<>>
    BY <1>3 DEF Arguments
  <2> QED BY ONLY <1>3, <2>1
<1>4. CASE kind = "WriteMulti"
  <2>1. us \in Seq(Uses) /\ Len(us) \in Nat
    BY <1>4, DictTyped DEF Arguments
  <2> QED BY ONLY <1>4, <2>1
<1> QED BY <1>1, <1>2, <1>3, <1>4 DEF AllKinds

LEMMA Begins ==
  ASSUME NEW kind \in AllKinds, NEW us \in Arguments(kind), NEW val \in [Tags -> Nat],
         NEW n \in Nat, NEW p, p = IF kind = "ReadList" THEN "count" ELSE "plan",
         NEW s, s = Begun(kind, p, us, val, n)
  PROVE  s \in Calls /\ CallInv(s, val)
<1>1. us \in Seq(Uses) /\ Len(us) \in Nat /\ (kind = "ReadList" => 0 < Len(us)) /\ (kind = "Read" => us[1] \in Uses)
  BY ArgumentsTyped
<1> DEFINE e == <<Len(us)>>
<1>2. e \in Seq(Nat) /\ Len(e) = 1 /\ e[1] = Len(us) /\ Head(e) = Len(us)
  BY ONLY <1>1
<1>3. Idle \in Calls /\ Idle.ioi = <<>> /\ Idle.data = <<>> /\ Idle.results = <<>> /\ ~Idle.stale
  BY DEF Idle, Calls
<1>4. s = [Idle EXCEPT !.kind = kind, !.pc = p, !.uses = us, !.ends = e, !.began = val, !.calls = n]
  BY DEF Begun
<1> HIDE DEF e
<1>5. p \in {"count", "plan"} /\ (p = "count" => kind = "ReadList")
  OBVIOUS
<1>6. /\ s \in Calls /\ s.kind = kind /\ s.pc = p /\ s.uses = us /\ s.ends = e /\ s.began = val
      /\ s.ioi = <<>> /\ s.data = <<>> /\ s.results = <<>>
  BY ONLY <1>1, <1>2, <1>3, <1>4, <1>5, kind \in AllKinds, val \in [Tags -> Nat], n \in Nat DEF Calls
<1>7. Len(s.ioi) = 0 /\ Len(s.data) = 0 /\ Len(s.results) = 0
  BY ONLY <1>6
<1>8. EndsInv(s)
  <2>1. us \in Arguments(kind)
    OBVIOUS
  <2>2. \A i \in 1..Len(e) : e[i] = Len(us)
    BY ONLY <1>2
  <2>3. \A i, j \in 1..Len(e) : ~(i < j)
    BY ONLY <1>2
  <2>4. Len(e) > 0 /\ e[Len(e)] = Len(us) /\ \A i \in 1..Len(e) : 0 <= e[i] /\ e[i] <= Len(us)
    BY ONLY <1>1, <1>2, <2>2
  <2>5. p = "count" => 0 < Head(e)
    BY ONLY <1>1, <1>2, <1>5
  <2> QED BY ONLY <1>2, <1>5, <1>6, <1>7, <2>1, <2>3, <2>4, <2>5 DEF EndsInv
<1>9. PathsInv(s)
  <2>1. Len(AskedOf(s)) = s.ends[1] - Len(s.results)
    BY ONLY <1>6, <1>8, AskedUses
  <2>2. Len(AskedOf(s)) = Len(us)
    BY ONLY <1>1, <1>2, <1>6, <1>7, <2>1
  <2> QED BY ONLY <1>1, <1>5, <1>6, <1>7, <2>2 DEF PathsInv
<1>10. DataInv(s, val)
  <2>1. kind = "Read" => us[1].size \in Nat
    BY <1>1, UsesTyped
  <2> QED BY ONLY <1>6, <1>7, <2>1 DEF DataInv
<1>11. ResultsInv(s, val)
  BY ONLY <1>1, <1>6, <1>7 DEF ResultsInv
<1>12. s.pc # "done" /\ \A t \in Tags : s.began[t] <= val[t]
  <2>1. \A t \in Tags : val[t] \in Nat
    OBVIOUS
  <2>2. \A t \in Tags : val[t] <= val[t]
    BY ONLY <2>1
  <2> QED BY ONLY <1>5, <1>6, <2>2
<1> QED BY ONLY <1>6, <1>8, <1>9, <1>10, <1>11, <1>12 DEF CallInv, DoneInv

LEMMA StepBegin ==
  ASSUME IInv, NEW c \in Callers, NEW kind \in Kinds[c], NEW us \in Arguments(kind),
         Begin(c, kind, us)
  PROVE  IInv'
<1> DEFINE n == call[c].calls + 1
           p == IF kind = "ReadList" THEN "count" ELSE "plan"
<1>1. call \in [Callers -> Calls] /\ value \in [Tags -> Nat] /\ n \in Nat /\ kind \in AllKinds
  <2>1. call \in [Callers -> Calls] /\ value \in [Tags -> Nat] /\ call[c] \in Calls
    BY DEF IInv, TypeOK
  <2>2. call[c].calls \in Nat
    BY ONLY <2>1 DEF Calls
  <2>3. kind \in AllKinds
    OBVIOUS
  <2> QED BY ONLY <2>1, <2>2, <2>3
<1>2. UNCHANGED <<value, symbol, downloads, known, cache>>
  BY DEF Begin
<1>3. \/ call' = [call EXCEPT ![c] = Refused(kind, n)]
      \/ call' = [call EXCEPT ![c] = Begun(kind, p, us, value, n)]
  BY Zenon DEF Begin, Refused, Begun
<1> HIDE DEF n
<1>4. CASE call' = [call EXCEPT ![c] = Refused(kind, n)]
  <2>1. Idle \in Calls
    BY DEF Idle, Calls
  <2>2. Refused(kind, n) \in Calls /\ Refused(kind, n).pc = "error"
    BY ONLY <1>1, <2>1 DEF Refused, Calls
  <2>3. CallInv(Refused(kind, n), value)
    BY ONLY <2>2 DEF CallInv, InCall, DoneInv
  <2> QED BY <1>2, <1>4, <2>2, <2>3, CallOnly
<1>5. CASE call' = [call EXCEPT ![c] = Begun(kind, p, us, value, n)]
  <2>1. Begun(kind, p, us, value, n) \in Calls /\ CallInv(Begun(kind, p, us, value, n), value)
    BY <1>1, Begins
  <2> HIDE DEF p
  <2> QED BY <1>2, <1>5, <2>1, CallOnly
<1> QED BY <1>3, <1>4, <1>5

LEMMA StepController ==
  ASSUME IInv, (\E t \in Tags : Update(t)) \/ Download \/ Relist
  PROVE  IInv'
<1>1. TypeOK /\ CacheInv /\ \A d \in Callers : CallInv(call[d], value) /\ call[d] \in Calls
  BY DEF IInv, TypeOK
<1>2. call' = call /\ cache' = cache
  BY DEF Update, Download, Relist
<1>3. value' \in [Tags -> Nat] /\ \A t \in Tags : value[t] <= value'[t]
  BY <1>1 DEF TypeOK, Update, Download, Relist
<1>4. \A d \in Callers : CallInv(call'[d], value')
  <2>1. value \in [Tags -> Nat]
    BY <1>1 DEF TypeOK
  <2> QED BY <1>1, <1>2, <1>3, <2>1, Grow
<1>5. downloads' \in 0..MaxDownloads
  BY <1>1 DEF TypeOK, Update, Download, Relist
<1>6. symbol' \in [Tags -> Instances] /\ known' \in [Tags -> Instances \cup {NoInstance}]
  BY <1>1 DEF TypeOK, Update, Download, Relist
<1>7. TypeOK'
  BY <1>1, <1>2, <1>3, <1>5, <1>6 DEF TypeOK
<1>8. CacheInv'
  BY <1>1, <1>2 DEF CacheInv
<1> QED BY <1>4, <1>7, <1>8 DEF IInv

-----------------------------------------------------------------------------
(* The theorems.                                                            *)

LEMMA InitInv == Init => IInv
<1> SUFFICES ASSUME Init PROVE IInv
  OBVIOUS
<1>1. Idle \in Calls /\ Idle.pc = "idle"
  BY DEF Idle, Calls
<1>2. NoIOI \in IOIs
  BY DEF NoIOI, IOIs, NoIdx
<1>3. TypeOK
  BY <1>1, <1>2 DEF Init, TypeOK, NoInstance
<1>4. CacheInv
  BY UsesTyped DEF Init, CacheInv
<1>5. \A c \in Callers : CallInv(call[c], value)
  BY <1>1 DEF Init, CallInv, InCall, DoneInv
<1> QED BY <1>3, <1>4, <1>5 DEF IInv

LEMMA StepInv ==
  ASSUME OneType, IInv, [Next]_vars
  PROVE  IInv'
<1>1. ASSUME NEW c \in Callers, Step(c) PROVE IInv'
  BY <1>1, StepCount, StepEncodePath, StepBuild, StepFails, StepRead, StepReadList, StepWrite,
     StepAnswered DEF Step
<1>2. ASSUME NEW c \in Callers, NEW kind \in Kinds[c], NEW us \in Arguments(kind), Begin(c, kind, us)
      PROVE  IInv'
  BY <1>2, StepBegin
<1>3. CASE (\E t \in Tags : Update(t)) \/ Download \/ Relist
  BY <1>3, StepController
<1>4. CASE UNCHANGED vars
  BY <1>4 DEF vars, IInv, TypeOK, CacheInv
<1> QED BY <1>1, <1>2, <1>3, <1>4 DEF Next

LEMMA InvHolds == ASSUME OneType PROVE Spec => []IInv
BY InitInv, StepInv, PTL DEF Spec

(* The state is well formed, for any callers, tags and lists.               *)
THEOREM AccessTypes == ASSUME OneType PROVE Spec => []TypeOK
<1>1. IInv => TypeOK
  BY DEF IInv
<1> QED BY <1>1, InvHolds, PTL

(* Every value that Read, ReadMulti and ReadList return is that of the tag, *)
(* element and bit asked for, whole, in order and no older than the call.   *)
THEOREM ReadsOwnData == ASSUME OneType PROVE Spec => []OwnData
<1>1. IInv => OwnData
  <2> SUFFICES ASSUME IInv, NEW c \in Callers, call[c].pc = "done", ~call[c].stale,
                      call[c].kind \in {"Read", "ReadMulti", "ReadList"}
               PROVE  /\ Len(call[c].results) = Len(call[c].uses)
                      /\ \A k \in DOMAIN call[c].uses : call[c].results[k] # Bad =>
                           IsValueOf(c, call[c].results[k], call[c].uses[k])
    BY DEF OwnData
  <2> DEFINE r == call[c]
  <2>1. r \in Calls /\ ResultsInv(r, value) /\ DoneInv(r) /\ InRead(r) /\ TypeOK
    BY CallTyped DEF CallInv, InRead, InList
  <2>2. Len(r.results) = Len(r.uses)
    BY <2>1 DEF DoneInv
  <2>3. DOMAIN r.uses = 1..Len(r.results) /\ r.results \in Seq(Seq(Cells)) /\ r.uses \in Seq(Uses)
    BY <2>1, <2>2 DEF Calls
  <2>4. ASSUME NEW k \in 1..Len(r.results), r.results[k] # Bad
        PROVE  IsValueOf(c, r.results[k], r.uses[k])
    <3> DEFINE d == r.results[k]
               u == r.uses[k]
    <3>1. Len(d) = u.size /\ \A i \in 1..Len(d) : IsCellOf(r, value, d[i], i, u)
      BY <2>1, <2>4 DEF ResultsInv
    <3>2. d \in Seq(Cells) /\ u \in Uses
      BY ONLY <2>2, <2>3, <2>4
    <3>3. DOMAIN d = 1..Len(d) /\ \A i \in 1..Len(d) : d[i] \in Cells
      BY ONLY <3>2
    <3>4. r.began[u.path.tag] \in Nat /\ value[u.path.tag] \in Nat
      BY <2>1, <3>2, UsesTyped DEF Calls, TypeOK
    <3>5. \A i \in 1..Len(d) : d[i].ver \in r.began[u.path.tag]..value[u.path.tag]
      <4>1. \A i \in 1..Len(d) : d[i].ver \in Nat
        BY ONLY <3>3 DEF Cells
      <4> HIDE DEF d, u, r
      <4> QED BY ONLY <3>1, <3>4, <4>1 DEF IsCellOf
    <3> HIDE DEF d, u
    <3> QED BY ONLY <3>1, <3>3, <3>5 DEF IsValueOf, IsCellOf, ElemOf, BitOf, d, u
  <2> QED BY <2>2, <2>3, <2>4
<1> QED BY <1>1, InvHolds, PTL

(* If a path is always used with one type and no instance that was used had *)
(* been given to another tag, a Write that returns no error has been        *)
(* carried out on the elements of the tag that it named, and so have single *)
(* values of a WriteMap or a WriteMulti of which nothing was refused; a     *)
(* GenericCIPMessage that returns no error was not refused.                 *)
THEOREM NilWritten == ASSUME OneType PROVE Spec => []NilMeansDone
<1>1. IInv => NilMeansDone
  <2> SUFFICES ASSUME IInv, NEW c \in Callers, call[c].pc = "done"
               PROVE  DoneInv(call[c]) /\ DOMAIN call[c].uses = 1..Len(call[c].uses)
    BY DEF NilMeansDone, DoneInv
  <2> QED BY CallTyped DEF CallInv, Calls
<1> QED BY <1>1, InvHolds, PTL

=============================================================================
