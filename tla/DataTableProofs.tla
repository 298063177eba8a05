--------------------------- MODULE DataTableProofs ---------------------------
(***************************************************************************)
(* What the module DataTable promises of a buffer's list and of the values *)
(* that are read with it, for any tags, sizes, batches and lost replies.   *)
(***************************************************************************)
EXTENDS DataTable, Integers, SequenceTheorems, FiniteSetTheorems, TLAPS

-----------------------------------------------------------------------------
(* Induction over the natural numbers, as lemmas about sets of them: the    *)
(* library's theorems take an operator, which the provers do not instantiate. *)

(* A set of natural numbers that is not empty has a least element: one      *)
(* whose interval from 1 on contains that of no other.                      *)
LEMMA Least ==
  ASSUME NEW T \in SUBSET Nat, T # {}
  PROVE  \E x \in T : \A y \in T : x <= y
<1> DEFINE R == StrictSubsetOrdering(Nat)
           U == {1..k : k \in T}
<1>1. U \subseteq FiniteSubsetsOf(Nat)
  <2>1. \A k \in T : IsFiniteSet(1..k) /\ 1..k \subseteq Nat
    BY FS_Interval
  <2> QED BY <2>1 DEF FiniteSubsetsOf
<1>2. PICK s \in U : \A t \in U : ~(<<t, s>> \in R)
  <2>1. U # {}
    OBVIOUS
  <2> HIDE DEF U
  <2>2. IsWellFoundedOn(R, FiniteSubsetsOf(Nat))
    BY FS_StrictSubsetOrderingWellFounded
  <2> HIDE DEF R
  <2> QED BY <1>1, <2>1, <2>2, WFMin, Zenon
<1>3. PICK x \in T : s = 1..x
  OBVIOUS
<1>4. ASSUME NEW y \in T, y < x PROVE FALSE
  <2>1. 1..y \in U
    OBVIOUS
  <2>2. 1..y \subseteq 1..x /\ x \in 1..x /\ x \notin 1..y
    BY <1>4
  <2>3. 1..y \in SUBSET Nat /\ 1..x \in SUBSET Nat
    OBVIOUS
  <2>4. <<1..y, s>> \in R
    BY <2>2, <2>3, <1>3 DEF StrictSubsetOrdering
  <2> QED BY <2>1, <2>4, <1>2
<1> QED BY <1>4

(* Induction up to a bound: there is no least number that is not in S. *)
LEMMA InductTo ==
  ASSUME NEW n \in Nat, NEW S, 0 \in S, \A i \in 1..n : i - 1 \in S => i \in S
  PROVE  \A i \in 0..n : i \in S
<1> DEFINE T == {i \in 0..n : i \notin S}
<1>1. SUFFICES ASSUME T # {} PROVE FALSE
  OBVIOUS
<1>2. T \in SUBSET Nat
  OBVIOUS
<1>3. PICK x \in T : \A y \in T : x <= y
  BY <1>1, <1>2, Least
<1>4. x \in 1..n /\ x - 1 \in 0..n /\ ~(x <= x - 1)
  BY <1>3
<1>5. x - 1 \in S
  BY <1>3, <1>4
<1> QED BY <1>3, <1>4, <1>5

(* g begins with a, and step leads from each value to the next. *)
Steps(g, n, a, step) == g[0] = a /\ \A i \in 1..n : g[i] = step[i][g[i - 1]]

(* What is defined by its first value and the step from each value to the  *)
(* next exists.                                                             *)
LEMMA Recursion ==
  ASSUME NEW n \in Nat, NEW A, NEW a \in A, NEW step \in [1..n -> [A -> A]]
  PROVE  \E g \in [0..n -> A] : Steps(g, n, a, step)
<1> USE DEF Steps
<1> DEFINE S == {k \in 0..n : \E g \in [0..n -> A] : Steps(g, k, a, step)}
<1>1. 0 \in S
  <2>1. [i \in 0..n |-> a] \in [0..n -> A] /\ Steps([i \in 0..n |-> a], 0, a, step)
    OBVIOUS
  <2> HIDE DEF Steps
  <2> QED BY <2>1
<1>2. ASSUME NEW k \in 1..n, k - 1 \in S PROVE k \in S
  <2>1. PICK g \in [0..n -> A] : Steps(g, k - 1, a, step)
    BY <1>2
  <2> DEFINE h == [g EXCEPT ![k] = step[k][g[k - 1]]]
  <2>2. g[k - 1] \in A /\ step[k] \in [A -> A]
    OBVIOUS
  <2>3. h \in [0..n -> A]
    BY <2>2
  <2>4. h[0] = a
    BY <2>1
  <2>5. ASSUME NEW i \in 1..k PROVE h[i] = step[i][h[i - 1]]
    <3>1. CASE i = k
      BY <3>1
    <3>2. CASE i # k
      <4>1. i \in 1..(k - 1) /\ h[i] = g[i] /\ h[i - 1] = g[i - 1]
        BY <3>2
      <4> HIDE DEF h
      <4> QED BY <2>1, <4>1
    <3> QED BY <3>1, <3>2
  <2> HIDE DEF h
  <2>6. Steps(h, k, a, step)
    BY <2>4, <2>5
  <2> HIDE DEF Steps
  <2> QED BY <2>3, <2>6
<1> HIDE DEF S
<1>3. \A i \in 0..n : i \in S
  BY <1>1, <1>2, InductTo
<1>4. n \in S
  BY <1>3
<1> QED BY <1>4 DEF S

-----------------------------------------------------------------------------
(* Sequences.                                                               *)

(* w is s and then t. *)
Joins(w, s, t) ==
  /\ Len(s) \in Nat /\ Len(t) \in Nat /\ Len(w) = Len(s) + Len(t)
  /\ DOMAIN s = 1..Len(s) /\ DOMAIN t = 1..Len(t) /\ DOMAIN w = 1..Len(w)
  /\ \A i \in 1..Len(s) : w[i] = s[i]
  /\ \A i \in 1..Len(t) : w[Len(s) + i] = t[i]

LEMMA ConcatJoins ==
  ASSUME NEW E, NEW s \in Seq(E), NEW t \in Seq(E)
  PROVE  s \o t \in Seq(E) /\ Joins(s \o t, s, t)
BY DEF Joins

(* A position in w is one in s or one in t. *)
LEMMA JoinsSplit ==
  ASSUME NEW w, NEW s, NEW t, Joins(w, s, t), NEW i \in 1..Len(w)
  PROVE  \/ i \in 1..Len(s) /\ w[i] = s[i]
         \/ i - Len(s) \in 1..Len(t) /\ w[i] = t[i - Len(s)]
<1>1. Len(s) \in Nat /\ Len(t) \in Nat /\ Len(w) = Len(s) + Len(t)
  BY DEF Joins
<1>2. CASE i <= Len(s)
  BY <1>1, <1>2 DEF Joins
<1>3. CASE i > Len(s)
  <2>1. i - Len(s) \in 1..Len(t) /\ Len(s) + (i - Len(s)) = i
    BY <1>1, <1>3
  <2>2. w[Len(s) + (i - Len(s))] = t[i - Len(s)]
    BY <2>1 DEF Joins
  <2> QED BY <2>1, <2>2
<1> QED BY <1>1, <1>2, <1>3

(* r is s without its n-th element. *)
Removes(r, s, n) ==
  /\ Len(s) \in Nat /\ n \in 1..Len(s) /\ Len(r) = Len(s) - 1
  /\ DOMAIN s = 1..Len(s) /\ DOMAIN r = 1..Len(r)
  /\ \A i \in 1..Len(r) : r[i] = IF i < n THEN s[i] ELSE s[i + 1]

LEMMA RemoveAtRemoves ==
  ASSUME NEW E, NEW s \in Seq(E), NEW n \in 1..Len(s)
  PROVE  RemoveAt(s, n) \in Seq(E) /\ Removes(RemoveAt(s, n), s, n)
<1> DEFINE a == SubSeq(s, 1, n - 1)
           b == SubSeq(s, n + 1, Len(s))
           r == a \o b
<1>1. Len(s) \in Nat /\ DOMAIN s = 1..Len(s)
  OBVIOUS
<1>2. /\ a \in Seq(E) /\ Len(a) = n - 1 /\ \A i \in 1..(n - 1) : a[i] = s[i]
      /\ b \in Seq(E) /\ Len(b) = Len(s) - n /\ \A i \in 1..(Len(s) - n) : b[i] = s[n + i]
  OBVIOUS
<1> HIDE DEF a, b
<1>3. r \in Seq(E) /\ Joins(r, a, b)
  BY <1>2, ConcatJoins
<1> HIDE DEF r
<1>4. Len(r) = Len(s) - 1 /\ DOMAIN r = 1..Len(r)
  BY <1>1, <1>2, <1>3 DEF Joins
<1>5. ASSUME NEW i \in 1..Len(r) PROVE r[i] = IF i < n THEN s[i] ELSE s[i + 1]
  <2>1. CASE i < n
    BY <1>1, <1>2, <1>3, <2>1 DEF Joins
  <2>2. CASE ~(i < n)
    <3>1. /\ i - (n - 1) \in 1..Len(b) /\ Len(a) + (i - (n - 1)) = i
          /\ n + (i - (n - 1)) = i + 1 /\ i - (n - 1) \in 1..(Len(s) - n)
      BY <1>1, <1>2, <1>4, <2>2
    <3>2. r[i] = b[i - (n - 1)] /\ b[i - (n - 1)] = s[i + 1]
      BY <1>2, <1>3, <3>1 DEF Joins
    <3> QED BY <2>2, <3>2
  <2> QED BY <2>1, <2>2
<1> QED BY <1>1, <1>3, <1>4, <1>5 DEF Removes, RemoveAt, r, a, b

-----------------------------------------------------------------------------
(* Selections.                                                              *)

(* u is the selection from each initial part of s. *)
Selects(u, s, S, E) ==
  /\ u \in [0..Len(s) -> Seq(E)]
  /\ u[0] = <<>>
  /\ \A n \in 1..Len(s) : u[n] = IF n \in S THEN Append(u[n - 1], s[n]) ELSE u[n - 1]

LEMMA SelectedSelects ==
  ASSUME NEW E, NEW s \in Seq(E), NEW S
  PROVE  \E u : Selects(u, s, S, E) /\ Selected(s, S) = u[Len(s)]
<1> DEFINE A(n, x) == IF n \in S THEN Append(x, s[n]) ELSE x
           l == Len(s)
           step == [n \in 1..l |-> [x \in Seq(E) |-> A(n, x)]]
           F(g) == [n \in 0..l |-> IF n = 0 THEN <<>> ELSE A(n, g[n - 1])]
           u == CHOOSE g : g = F(g)
           K == {n \in 0..l : u[n] \in Seq(E)}
<1>1. l \in Nat /\ <<>> \in Seq(E)
  OBVIOUS
<1>2. ASSUME NEW n \in 1..l, NEW x \in Seq(E) PROVE A(n, x) \in Seq(E)
  OBVIOUS
<1>3. Selected(s, S) = u[l]
  BY DEF Selected
<1> HIDE DEF A, l
<1>4. PICK g \in [0..l -> Seq(E)] : Steps(g, l, <<>>, step)
  <2>1. step \in [1..l -> [Seq(E) -> Seq(E)]]
    BY <1>2
  <2> HIDE DEF step
  <2> QED BY <1>1, <2>1, Recursion
<1>5. g = F(g)
  <2>1. \A n \in 1..l : g[n - 1] \in Seq(E)
    BY <1>1
  <2>2. \A n \in 1..l : g[n] = A(n, g[n - 1])
    BY <1>4, <2>1 DEF Steps
  <2>3. \A n \in 0..l : g[n] = IF n = 0 THEN <<>> ELSE A(n, g[n - 1])
    BY <1>1, <1>4, <2>2 DEF Steps
  <2> QED BY <2>3
<1>6. u = F(u)
  BY <1>5
<1> HIDE DEF u
<1>7. u[0] = <<>> /\ \A n \in 1..l : u[n] = A(n, u[n - 1])
  BY <1>1, <1>6
<1>8. \A n \in 0..l : n \in K
  <2>1. 0 \in K
    <3>1. 0 \in 0..l
      BY <1>1
    <3>2. u[0] \in Seq(E)
      BY ONLY <1>1, <1>7
    <3> QED BY <3>1, <3>2
  <2>2. ASSUME NEW n \in 1..l, n - 1 \in K PROVE n \in K
    <3>1. u[n - 1] \in Seq(E) /\ u[n] = A(n, u[n - 1])
      BY <1>7, <2>2
    <3>2. u[n] \in Seq(E) /\ n \in 0..l
      BY <1>1, <1>2, <3>1
    <3> QED BY <3>2
  <2> HIDE DEF K
  <2> QED BY <1>1, <2>1, <2>2, InductTo
<1>9. u = [n \in 0..l |-> u[n]]
  BY <1>6
<1>10. u \in [0..l -> Seq(E)]
  BY <1>8, <1>9
<1> QED BY <1>3, <1>7, <1>10 DEF Selects, A, l

LEMMA SelectedType ==
  ASSUME NEW E, NEW s \in Seq(E), NEW S
  PROVE  Selected(s, S) \in Seq(E)
<1>1. PICK u : Selects(u, s, S, E) /\ Selected(s, S) = u[Len(s)]
  BY SelectedSelects
<1>2. Len(s) \in 0..Len(s)
  OBVIOUS
<1> QED BY <1>1, <1>2 DEF Selects

(* Nothing and all. *)
LEMMA SelectedNone ==
  ASSUME NEW E, NEW s \in Seq(E), NEW S, \A i \in 1..Len(s) : i \notin S
  PROVE  Selected(s, S) = <<>>
<1>1. PICK u : Selects(u, s, S, E) /\ Selected(s, S) = u[Len(s)]
  BY SelectedSelects
<1> DEFINE K == {n \in 0..Len(s) : u[n] = <<>>}
<1>2. Len(s) \in Nat
  OBVIOUS
<1>3. 0 \in K /\ \A n \in 1..Len(s) : n - 1 \in K => n \in K
  BY <1>1, <1>2 DEF Selects
<1> HIDE DEF K
<1>4. \A n \in 0..Len(s) : n \in K
  BY <1>2, <1>3, InductTo
<1> QED BY <1>1, <1>2, <1>4 DEF K

LEMMA SelectedAll ==
  ASSUME NEW E, NEW s \in Seq(E), NEW S, \A i \in 1..Len(s) : i \in S
  PROVE  Selected(s, S) = s
<1>1. PICK u : Selects(u, s, S, E) /\ Selected(s, S) = u[Len(s)]
  BY SelectedSelects
<1> DEFINE K == {n \in 0..Len(s) : Len(u[n]) = n /\ \A i \in 1..n : u[n][i] = s[i]}
<1>2. Len(s) \in Nat /\ \A n \in 1..Len(s) : s[n] \in E
  OBVIOUS
<1>3. 0 \in K
  BY <1>1, <1>2 DEF Selects
<1>4. ASSUME NEW n \in 1..Len(s), n - 1 \in K PROVE n \in K
  <2>1. u[n - 1] \in Seq(E) /\ u[n] = Append(u[n - 1], s[n]) /\ s[n] \in E
    <3>1. n \in S /\ s[n] \in E /\ n - 1 \in 0..Len(s)
      BY <1>2
    <3> QED BY <1>1, <3>1 DEF Selects
  <2>2. Len(u[n - 1]) = n - 1 /\ \A i \in 1..(n - 1) : u[n - 1][i] = s[i]
    BY <1>4
  <2>3. /\ Len(u[n]) = Len(u[n - 1]) + 1
        /\ \A i \in 1..Len(u[n - 1]) : u[n][i] = u[n - 1][i]
        /\ u[n][Len(u[n - 1]) + 1] = s[n]
    BY ONLY <2>1
  <2>4. Len(u[n]) = n /\ u[n][n] = s[n]
    BY <2>2, <2>3
  <2>5. ASSUME NEW i \in 1..n PROVE u[n][i] = s[i]
    <3>1. CASE i = n
      BY <2>4, <3>1
    <3>2. CASE i # n
      <4>1. i \in 1..(n - 1)
        BY <3>2
      <4> QED BY <2>2, <2>3, <4>1
    <3> QED BY <3>1, <3>2
  <2> QED BY <2>4, <2>5
<1> HIDE DEF K
<1>5. \A n \in 0..Len(s) : n \in K
  BY <1>2, <1>3, <1>4, InductTo
<1>6. Len(u[Len(s)]) = Len(s) /\ \A i \in 1..Len(s) : u[Len(s)][i] = s[i]
  BY <1>2, <1>5 DEF K
<1>7. u[Len(s)] \in Seq(E)
  BY <1>1, <1>2 DEF Selects
<1> QED BY <1>1, <1>6, <1>7, SeqEqual

AppendsAfter(a, b, c) == Append(a \o b, c) = a \o Append(b, c)

LEMMA AppendConcat ==
  ASSUME NEW E, NEW a \in Seq(E), NEW b \in Seq(E), NEW c \in E
  PROVE  AppendsAfter(a, b, c)
<1>1. a \o b \in Seq(E) /\ <<c>> \in Seq(E)
  OBVIOUS
<1>2. Append(a \o b, c) = (a \o b) \o <<c>> /\ Append(b, c) = b \o <<c>>
  BY <1>1, AppendIsConcat
<1>3. (a \o b) \o <<c>> = a \o (b \o <<c>>)
  BY <1>1, ConcatAssociative
<1> QED BY <1>2, <1>3 DEF AppendsAfter

(* The positions in t of those in s \o t. *)
Behind(S, s, t) == {i \in 1..Len(t) : Len(s) + i \in S}

(* A selection from two sequences in a row. *)
LEMMA SelectedConcat ==
  ASSUME NEW E, NEW s \in Seq(E), NEW t \in Seq(E), NEW S
  PROVE  Selected(s \o t, S) = Selected(s, S) \o Selected(t, Behind(S, s, t))
<1> DEFINE T == Behind(S, s, t)
           w == s \o t
<1>1. /\ w \in Seq(E) /\ Len(w) = Len(s) + Len(t) /\ Len(s) \in Nat /\ Len(t) \in Nat
      /\ \A i \in 1..Len(s) : w[i] = s[i] /\ s[i] \in E
      /\ \A i \in 1..Len(t) : w[Len(s) + i] = t[i] /\ t[i] \in E
  OBVIOUS
<1> HIDE DEF w
<1>2. PICK u : Selects(u, w, S, E) /\ Selected(w, S) = u[Len(w)]
  BY <1>1, SelectedSelects
<1>3. PICK v : Selects(v, s, S, E) /\ Selected(s, S) = v[Len(s)]
  BY SelectedSelects
<1>4. PICK x : Selects(x, t, T, E) /\ Selected(t, T) = x[Len(t)]
  BY SelectedSelects
<1>5. u[Len(s)] = v[Len(s)]
  <2> DEFINE K == {n \in 0..Len(s) : u[n] = v[n]}
  <2>1. 0 \in K /\ \A n \in 1..Len(s) : n - 1 \in K => n \in K
    BY <1>1, <1>2, <1>3 DEF Selects
  <2> HIDE DEF K
  <2>2. \A n \in 0..Len(s) : n \in K
    BY <1>1, <2>1, InductTo
  <2> QED BY <1>1, <2>2 DEF K
<1> DEFINE L == {n \in 0..Len(t) : u[Len(s) + n] = v[Len(s)] \o x[n]}
<1>6. v[Len(s)] \in Seq(E)
  BY <1>1, <1>3 DEF Selects
<1>7. 0 \in L
  BY <1>1, <1>4, <1>5, <1>6, ConcatEmptySeq DEF Selects
<1>8. ASSUME NEW n \in 1..Len(t), n - 1 \in L PROVE n \in L
  <2>1. /\ Len(s) + n \in 1..Len(w) /\ (Len(s) + n) - 1 = Len(s) + (n - 1)
        /\ w[Len(s) + n] = t[n] /\ t[n] \in E /\ n - 1 \in 0..Len(t)
    BY <1>1
  <2>2. u[Len(s) + n] = IF Len(s) + n \in S THEN Append(u[Len(s) + (n - 1)], t[n]) ELSE u[Len(s) + (n - 1)]
    BY <1>2, <2>1 DEF Selects
  <2>3. x[n] = (IF Len(s) + n \in S THEN Append(x[n - 1], t[n]) ELSE x[n - 1]) /\ x[n - 1] \in Seq(E)
    BY <1>4, <2>1 DEF Selects, Behind
  <2>4. u[Len(s) + (n - 1)] = v[Len(s)] \o x[n - 1]
    BY <1>8
  <2>5. Append(v[Len(s)] \o x[n - 1], t[n]) = v[Len(s)] \o Append(x[n - 1], t[n])
    <3>1. v[Len(s)] \in Seq(E) /\ x[n - 1] \in Seq(E) /\ t[n] \in E
      BY <1>6, <2>1, <2>3
    <3>2. AppendsAfter(v[Len(s)], x[n - 1], t[n])
      BY ONLY <3>1, AppendConcat
    <3> QED BY ONLY <3>2 DEF AppendsAfter
  <2>6. u[Len(s) + n] = v[Len(s)] \o x[n]
    <3>1. CASE Len(s) + n \in S
      BY ONLY <2>2, <2>3, <2>4, <2>5, <3>1
    <3>2. CASE Len(s) + n \notin S
      BY ONLY <2>2, <2>3, <2>4, <3>2
    <3> QED BY <3>1, <3>2
  <2>7. n \in 0..Len(t)
    BY <1>1
  <2> QED BY <2>6, <2>7
<1> HIDE DEF L
<1>9. \A n \in 0..Len(t) : n \in L
  BY <1>1, <1>7, <1>8, InductTo
<1>10. u[Len(s) + Len(t)] = v[Len(s)] \o x[Len(t)]
  <2>1. Len(t) \in 0..Len(t)
    BY <1>1
  <2> QED BY <1>9, <2>1 DEF L
<1> QED BY <1>1, <1>2, <1>3, <1>4, <1>10 DEF w

(* An initial part, and the rest. *)
LEMMA SelectedParts ==
  ASSUME NEW E, NEW s \in Seq(E), NEW k \in 0..Len(s), NEW S
  PROVE  /\ (\A i \in 1..Len(s) : i \in S <=> i <= k) => Selected(s, S) = SubSeq(s, 1, k)
         /\ (\A i \in 1..Len(s) : i \in S <=> ~(i <= k)) => Selected(s, S) = SubSeq(s, k + 1, Len(s))
<1> DEFINE a == SubSeq(s, 1, k)
           b == SubSeq(s, k + 1, Len(s))
           T == Behind(S, a, b)
<1>1. Len(s) \in Nat
  OBVIOUS
<1>2. a \in Seq(E) /\ Len(a) = k /\ b \in Seq(E) /\ Len(b) = Len(s) - k
  OBVIOUS
<1>3. s = a \o b
  <2>1. 1 \in 1..(Len(s) + 1) /\ k \in (1 - 1)..Len(s) /\ Len(s) \in k..Len(s)
    BY <1>1
  <2>2. SubSeq(s, 1, k) \o SubSeq(s, k + 1, Len(s)) = SubSeq(s, 1, Len(s))
    BY <2>1, ConcatAdjacentSubSeq
  <2> QED BY <2>2, SubSeqFull
<1> HIDE DEF a, b
<1>4. Selected(s, S) = Selected(a, S) \o Selected(b, T)
  BY <1>2, <1>3, SelectedConcat
<1>5. ASSUME \A i \in 1..Len(s) : i \in S <=> i <= k PROVE Selected(s, S) = a
  <2>1. (\A i \in 1..Len(a) : i \in S) /\ \A i \in 1..Len(b) : i \notin T
    BY <1>1, <1>2, <1>5 DEF Behind
  <2> HIDE DEF T
  <2>2. Selected(a, S) = a /\ Selected(b, T) = <<>>
    BY <1>2, <2>1, SelectedAll, SelectedNone
  <2> QED BY <1>2, <1>4, <2>2, ConcatEmptySeq
<1>6. ASSUME \A i \in 1..Len(s) : i \in S <=> ~(i <= k) PROVE Selected(s, S) = b
  <2>1. (\A i \in 1..Len(a) : i \notin S) /\ \A i \in 1..Len(b) : i \in T
    BY <1>1, <1>2, <1>6 DEF Behind
  <2> HIDE DEF T
  <2>2. Selected(a, S) = <<>> /\ Selected(b, T) = b
    BY <1>2, <2>1, SelectedAll, SelectedNone
  <2> QED BY <1>2, <1>4, <2>2, ConcatEmptySeq
<1> QED BY <1>5, <1>6 DEF a, b

(* Only the positions that s has count. *)
LEMMA SelectedSame ==
  ASSUME NEW E, NEW s \in Seq(E), NEW S, NEW T, \A i \in 1..Len(s) : i \in S <=> i \in T
  PROVE  Selected(s, S) = Selected(s, T)
<1>1. PICK u : Selects(u, s, S, E) /\ Selected(s, S) = u[Len(s)]
  BY SelectedSelects
<1>2. PICK v : Selects(v, s, T, E) /\ Selected(s, T) = v[Len(s)]
  BY SelectedSelects
<1> DEFINE K == {n \in 0..Len(s) : u[n] = v[n]}
<1>3. Len(s) \in Nat
  OBVIOUS
<1>4. 0 \in K /\ \A n \in 1..Len(s) : n - 1 \in K => n \in K
  BY <1>1, <1>2, <1>3 DEF Selects
<1> HIDE DEF K
<1>5. \A n \in 0..Len(s) : n \in K
  BY <1>3, <1>4, InductTo
<1> QED BY <1>1, <1>2, <1>3, <1>5 DEF K

-----------------------------------------------------------------------------
(* What the list knows, and what is held of it.                             *)

Synched(ts) == {i \in DOMAIN ts : ts[i].synched}
Unsynched(ts) == {i \in DOMAIN ts : ~ts[i].synched}

(* The first k tags are synched, and no other. *)
Prefix(ts, k) == k \in 0..Len(ts) /\ \A i \in 1..Len(ts) : ts[i].synched <=> i <= k

PrefixInv == \E k \in 0..Len(tags) : Prefix(tags, k)

LEMMA PrefixParts ==
  ASSUME NEW ts \in Seq(TagEntry), NEW k, Prefix(ts, k)
  PROVE  /\ Selected(ts, Synched(ts)) = SubSeq(ts, 1, k)
         /\ Selected(ts, Unsynched(ts)) = SubSeq(ts, k + 1, Len(ts))
<1>1. k \in 0..Len(ts) /\ DOMAIN ts = 1..Len(ts)
  BY DEF Prefix
<1>2. (\A i \in 1..Len(ts) : i \in Synched(ts) <=> i <= k)
      /\ \A i \in 1..Len(ts) : i \in Unsynched(ts) <=> ~(i <= k)
  BY <1>1 DEF Prefix, Synched, Unsynched
<1> QED BY <1>1, <1>2, SelectedParts

(* The positions in bs of entries of a batch that kn has. *)
Of(bs, kn) == {i \in DOMAIN bs : bs[i].batch \in {kn[j].batchID : j \in DOMAIN kn}}

(* h is kn, as the controller has it. *)
Same(h, kn) ==
  Len(h) = Len(kn) /\ \A i \in DOMAIN kn : h[i].name = kn[i].name /\ h[i].batch = kn[i].batchID

HeldOK(bs, kn) == Same(Selected(bs, Of(bs, kn)), kn)

LEMMA HeldIs ==
  /\ Known = Selected(tags, Synched(tags))
  /\ Unsent = Selected(tags, Unsynched(tags))
  /\ BatchesHeld <=> (created /\ ~removed => HeldOK(buffer, Known))
BY DEF Known, Unsent, Synched, Unsynched, BatchesHeld, Held, HeldOK, Same, Of

(* A new batch that the list gets to know is held. *)
LEMMA HeldGrows ==
  ASSUME NEW bs \in Seq(BufferEntry), NEW kn \in Seq(TagEntry), HeldOK(bs, kn),
         NEW new \in Seq(BufferEntry), NEW nk \in Seq(TagEntry), NEW b \in Nat,
         \A i \in 1..Len(bs) : bs[i].batch < b, \A i \in 1..Len(kn) : kn[i].batchID < b,
         Len(new) = Len(nk),
         \A i \in 1..Len(nk) : new[i].batch = b /\ nk[i].batchID = b /\ new[i].name = nk[i].name
  PROVE  HeldOK(bs \o new, kn \o nk)
<1> DEFINE B == bs \o new
           Q == kn \o nk
           S == Of(B, Q)
           h == Selected(bs, Of(bs, kn))
           w == h \o new
<1>1. B \in Seq(BufferEntry) /\ Joins(B, bs, new) /\ Q \in Seq(TagEntry) /\ Joins(Q, kn, nk)
  BY ConcatJoins
<1>2. \A i \in 1..Len(bs) : bs[i].batch \in Nat
  <2>1. \A i \in 1..Len(bs) : bs[i] \in BufferEntry
    OBVIOUS
  <2> QED BY <2>1 DEF BufferEntry
<1>3. Selected(B, S) = Selected(bs, S) \o Selected(new, Behind(S, bs, new))
  BY SelectedConcat
<1> HIDE DEF B, Q
<1>4. ASSUME NEW i \in 1..Len(bs) PROVE i \in S <=> i \in Of(bs, kn)
  <2>1. i \in DOMAIN B /\ i \in DOMAIN bs /\ B[i] = bs[i]
    BY <1>1 DEF Joins
  <2>2. ASSUME NEW j \in DOMAIN Q, bs[i].batch = Q[j].batchID
        PROVE  \E l \in DOMAIN kn : bs[i].batch = kn[l].batchID
    <3>1. j \in 1..Len(Q)
      BY <1>1 DEF Joins
    <3>2. CASE j - Len(kn) \in 1..Len(nk) /\ Q[j] = nk[j - Len(kn)]
      <4>1. Q[j].batchID = b
        BY <3>2
      <4> QED BY <1>2, <2>2, <4>1
    <3>3. CASE j \in 1..Len(kn) /\ Q[j] = kn[j]
      BY <1>1, <2>2, <3>3 DEF Joins
    <3>4. \/ j \in 1..Len(kn) /\ Q[j] = kn[j]
          \/ j - Len(kn) \in 1..Len(nk) /\ Q[j] = nk[j - Len(kn)]
      BY ONLY <1>1, <3>1, JoinsSplit
    <3> QED BY <3>2, <3>3, <3>4
  <2>3. ASSUME NEW l \in DOMAIN kn, bs[i].batch = kn[l].batchID
        PROVE  \E j \in DOMAIN Q : bs[i].batch = Q[j].batchID
    <3>1. l \in DOMAIN Q /\ Q[l] = kn[l]
      BY <1>1 DEF Joins
    <3> QED BY <2>3, <3>1
  <2> QED BY <2>1, <2>2, <2>3 DEF Of
<1>5. \A i \in 1..Len(new) : i \in Behind(S, bs, new)
  <2> SUFFICES ASSUME NEW i \in 1..Len(nk) PROVE Len(bs) + i \in S
    BY DEF Behind
  <2>1. Len(bs) + i \in DOMAIN B /\ Len(kn) + i \in DOMAIN Q
    BY <1>1 DEF Joins
  <2>2. B[Len(bs) + i].batch = b /\ Q[Len(kn) + i].batchID = b
    BY <1>1 DEF Joins
  <2> QED BY <2>1, <2>2 DEF Of
<1> HIDE DEF S
<1>6. Selected(bs, S) = h /\ Selected(new, Behind(S, bs, new)) = new /\ h \in Seq(BufferEntry)
  BY <1>4, <1>5, SelectedSame, SelectedAll, SelectedType
<1>7. Len(h) = Len(kn) /\ \A i \in 1..Len(kn) : h[i].name = kn[i].name /\ h[i].batch = kn[i].batchID
  BY <1>1 DEF HeldOK, Same, Joins
<1> HIDE DEF h
<1>8. Joins(w, h, new)
  BY <1>6, ConcatJoins
<1> HIDE DEF w
<1>9. Same(w, Q)
  <2>1. Len(w) = Len(Q) /\ DOMAIN Q = 1..Len(Q)
    BY <1>1, <1>7, <1>8 DEF Joins
  <2>2. ASSUME NEW i \in 1..Len(Q) PROVE w[i].name = Q[i].name /\ w[i].batch = Q[i].batchID
    <3>1. CASE i \in 1..Len(kn) /\ Q[i] = kn[i]
      BY <1>7, <1>8, <3>1 DEF Joins
    <3>2. CASE i - Len(kn) \in 1..Len(nk) /\ Q[i] = nk[i - Len(kn)]
      <4>1. w[i] = new[i - Len(kn)]
        <5>1. Len(kn) + (i - Len(kn)) = i
          BY <1>1 DEF Joins
        <5> QED BY <1>7, <1>8, <3>2, <5>1 DEF Joins
      <4> QED BY <3>2, <4>1
    <3> QED BY <1>1, <3>1, <3>2, JoinsSplit
  <2> QED BY <2>1, <2>2 DEF Same
<1> QED BY <1>3, <1>6, <1>9 DEF HeldOK, S, B, Q, w

(* One that it does not get to know changes nothing of what is held. *)
LEMMA HeldStays ==
  ASSUME NEW bs \in Seq(BufferEntry), NEW kn \in Seq(TagEntry), HeldOK(bs, kn),
         NEW new \in Seq(BufferEntry), NEW b \in Nat,
         \A i \in 1..Len(kn) : kn[i].batchID < b, \A i \in 1..Len(new) : new[i].batch = b
  PROVE  HeldOK(bs \o new, kn)
<1> DEFINE S == Of(bs \o new, kn)
           h == Selected(bs, Of(bs, kn))
<1>1. /\ Len(bs) \in Nat /\ Len(kn) \in Nat /\ Len(new) \in Nat
      /\ DOMAIN bs = 1..Len(bs) /\ DOMAIN kn = 1..Len(kn)
      /\ DOMAIN (bs \o new) = 1..(Len(bs) + Len(new))
      /\ \A i \in 1..Len(bs) : (bs \o new)[i] = bs[i]
      /\ \A i \in 1..Len(new) : (bs \o new)[Len(bs) + i] = new[i]
  OBVIOUS
<1>2. \A i \in 1..Len(bs) : i \in S <=> i \in Of(bs, kn)
  BY <1>1 DEF Of
<1>3. \A i \in 1..Len(new) : i \notin Behind(S, bs, new)
  <2> SUFFICES ASSUME NEW i \in 1..Len(new), NEW j \in DOMAIN kn, new[i].batch = kn[j].batchID
               PROVE  FALSE
    BY <1>1 DEF Behind, Of
  <2>1. kn[j].batchID \in Nat /\ kn[j].batchID < b
    BY <1>1 DEF TagEntry
  <2> QED BY <2>1
<1> HIDE DEF S
<1>4. Selected(bs \o new, S) = Selected(bs, S) \o Selected(new, Behind(S, bs, new))
  BY SelectedConcat
<1>5. Selected(bs, S) = h /\ Selected(new, Behind(S, bs, new)) = <<>> /\ h \in Seq(BufferEntry)
  BY <1>2, <1>3, SelectedSame, SelectedNone, SelectedType
<1>6. Selected(bs \o new, S) = h
  BY <1>4, <1>5, ConcatEmptySeq
<1> QED BY <1>6 DEF HeldOK, S

-----------------------------------------------------------------------------
(* The list and the batches, whatever is lost and removed.                  *)

Base == TypeOK /\ PrefixInv /\ (created => allocated) /\ BatchesHeld

LEMMA InitBase == Init => Base
<1> SUFFICES ASSUME Init PROVE Base
  OBVIOUS
<1>1. tags = <<>> /\ buffer = <<>> /\ <<>> \in Seq(TagEntry) /\ <<>> \in Seq(BufferEntry)
      /\ Len(<<>>) = 0 /\ DOMAIN <<>> = {}
  BY DEF Init
<1>2. TypeOK
  <2>1. tags \in Seq(TagEntry) /\ Len(tags) <= MaxTags /\ buffer \in Seq(BufferEntry)
    BY <1>1, DataTableAssumption
  <2>2. indexes \in Nat /\ batches \in 0..MaxBatches /\ lost \in 0..MaxLost
    BY DataTableAssumption DEF Init
  <2>3. DOMAIN tags = {} /\ DOMAIN buffer = {}
    BY ONLY <1>1
  <2>4. created \in BOOLEAN /\ synched \in BOOLEAN /\ removed \in BOOLEAN /\ allocated \in BOOLEAN
        /\ expansions \subseteq Tags
        /\ result.status \in {"none", "read", "error"} /\ closing \in {"none", "ok", "error"}
    BY DEF Init, Result
  <2> QED BY <2>1, <2>2, <2>3, <2>4 DEF TypeOK
<1>3. Prefix(tags, 0)
  BY <1>1 DEF Prefix
<1>4. PrefixInv
  BY <1>1, <1>3 DEF PrefixInv
<1>5. Known = <<>> /\ Selected(buffer, Of(buffer, Known)) = <<>>
  <2>1. tags \in Seq(TagEntry) /\ buffer \in Seq(BufferEntry) /\ 1..Len(tags) = {} /\ 1..Len(buffer) = {}
    BY <1>1
  <2>2. Selected(tags, Synched(tags)) = <<>>
    BY ONLY <2>1, SelectedNone
  <2>3. Selected(buffer, Of(buffer, Known)) = <<>>
    BY ONLY <2>1, SelectedNone
  <2> QED BY <2>2, <2>3, HeldIs
<1>6. HeldOK(buffer, Known)
  BY <1>1, <1>5 DEF HeldOK, Same
<1> QED BY <1>2, <1>4, <1>6, HeldIs DEF Init, Base

(* The names that are added, as a sequence of tags. *)
LEMMA NamesAre ==
  ASSUME NEW S \in SUBSET Tags, NEW names \in SetToSeqs(S)
  PROVE  names \in Seq(Tags)
<1>1. Cardinality(S) \in Nat
  BY DataTableAssumption, FS_Subset, FS_CardinalityType
<1>2. names \in [1..Cardinality(S) -> Tags]
  BY DEF SetToSeqs
<1> QED BY <1>1, <1>2

New(names) ==
  [i \in DOMAIN names |->
     [name |-> names[i], index |-> Len(tags) + i, batchID |-> 0, synched |-> FALSE]]

(* Adding tags makes the list longer. *)
LEMMA ExtendIs ==
  ASSUME TypeOK, NEW names \in Seq(Tags), Extend(names)
  PROVE  /\ New(names) \in Seq(TagEntry) /\ tags' \in Seq(TagEntry) /\ Joins(tags', tags, New(names))
         /\ Len(New(names)) = Len(names)
<1>1. Len(names) \in Nat /\ DOMAIN names = 1..Len(names) /\ \A i \in 1..Len(names) : names[i] \in Tags
  OBVIOUS
<1>2. Len(tags) \in Nat /\ tags \in Seq(TagEntry)
  BY DEF TypeOK
<1>3. ASSUME NEW i \in 1..Len(names)
      PROVE  [name |-> names[i], index |-> Len(tags) + i, batchID |-> 0, synched |-> FALSE] \in TagEntry
  BY <1>1, <1>2 DEF TagEntry
<1>4. New(names) \in Seq(TagEntry) /\ Len(New(names)) = Len(names)
  BY <1>1, <1>3 DEF New
<1>5. tags' = tags \o New(names)
  <2>1. \A i \in 1..Len(names) : (Len(tags) + 1) + i - 1 = Len(tags) + i
    BY <1>2
  <2>2. New(names) = [i \in DOMAIN names |->
          [name |-> names[i], index |-> FirstIndex + i - 1, batchID |-> 0, synched |-> FALSE]]
    BY <1>1, <2>1 DEF New, FirstIndex
  <2> QED BY <2>2 DEF Extend
<1> QED BY <1>2, <1>4, <1>5, ConcatJoins

(* The synched tags are the first ones of a list that only gets longer. *)
LEMMA PrefixSame ==
  ASSUME NEW ts \in Seq(TagEntry), NEW us \in Seq(TagEntry), NEW k, Prefix(ts, k), Prefix(us, k),
         \A i \in 1..k : ts[i] = us[i]
  PROVE  Selected(ts, Synched(ts)) = Selected(us, Synched(us))
<1>1. k \in Nat /\ k <= Len(ts) /\ k <= Len(us) /\ Len(ts) \in Nat /\ Len(us) \in Nat
  BY DEF Prefix
<1>2. /\ SubSeq(ts, 1, k) \in Seq(TagEntry) /\ Len(SubSeq(ts, 1, k)) = k
      /\ \A i \in 1..k : SubSeq(ts, 1, k)[i] = ts[i]
  BY <1>1
<1>3. /\ SubSeq(us, 1, k) \in Seq(TagEntry) /\ Len(SubSeq(us, 1, k)) = k
      /\ \A i \in 1..k : SubSeq(us, 1, k)[i] = us[i]
  BY <1>1
<1>4. SubSeq(ts, 1, k) = SubSeq(us, 1, k)
  BY <1>2, <1>3, SeqEqual
<1> QED BY <1>4, PrefixParts

LEMMA ExtendBase ==
  ASSUME Base, NEW names \in Seq(Tags), Extend(names), expansions' \subseteq Tags,
         UNCHANGED <<created, controller, removed, lost, result, closing>>
  PROVE  Base'
<1> DEFINE n == New(names)
<1>1. /\ tags \in Seq(TagEntry) /\ n \in Seq(TagEntry) /\ tags' \in Seq(TagEntry)
      /\ Joins(tags', tags, n) /\ Len(n) = Len(names)
  BY ExtendIs DEF Base, TypeOK
<1>2. \A i \in 1..Len(n) : n[i].batchID = 0 /\ n[i].synched = FALSE
  BY <1>1 DEF New
<1> HIDE DEF n
<1>3. PICK k \in 0..Len(tags) : Prefix(tags, k)
  BY DEF Base, PrefixInv
<1>4. ASSUME NEW i \in 1..Len(tags')
      PROVE  \/ i \in 1..Len(tags) /\ tags'[i] = tags[i]
             \/ i - Len(tags) \in 1..Len(n) /\ tags'[i] = n[i - Len(tags)]
  BY ONLY <1>1, <1>4, JoinsSplit
<1>5. TypeOK'
  <2>1. Len(tags') <= MaxTags
    BY <1>1 DEF Joins, Extend
  <2>2. ASSUME NEW i \in 1..Len(tags')
        PROVE  /\ tags'[i].batchID \in 0..batches /\ (tags'[i].synched <=> tags'[i].batchID > 0)
               /\ synched' => tags'[i].synched
    <3>1. batches \in Nat /\ synched' = FALSE
      BY DataTableAssumption DEF Base, TypeOK, Extend
    <3>2. CASE i \in 1..Len(tags) /\ tags'[i] = tags[i]
      BY <1>1, <3>1, <3>2 DEF Base, TypeOK, Joins
    <3>3. CASE i - Len(tags) \in 1..Len(n) /\ tags'[i] = n[i - Len(tags)]
      <4>1. tags'[i].batchID = 0 /\ tags'[i].synched = FALSE
        BY <1>2, <3>3
      <4> QED BY <3>1, <4>1
    <3> QED BY <1>4, <3>2, <3>3
  <2>3. DOMAIN tags' = 1..Len(tags')
    BY <1>1 DEF Joins
  <2> QED BY <1>1, <2>1, <2>2, <2>3 DEF Base, TypeOK, Extend, controller
<1>6. Prefix(tags', k) /\ k \in 0..Len(tags')
  <2>1. k \in 0..Len(tags') /\ Len(tags) \in Nat
    BY <1>1 DEF Joins
  <2>2. ASSUME NEW i \in 1..Len(tags') PROVE tags'[i].synched <=> i <= k
    <3>1. CASE i \in 1..Len(tags) /\ tags'[i] = tags[i]
      BY <1>3, <3>1 DEF Prefix
    <3>2. CASE i - Len(tags) \in 1..Len(n) /\ tags'[i] = n[i - Len(tags)]
      <4>1. tags'[i].synched = FALSE
        BY <1>2, <3>2
      <4> QED BY <2>1, <3>2, <4>1
    <3> QED BY <1>4, <3>1, <3>2
  <2> QED BY <2>1, <2>2 DEF Prefix
<1>7. PrefixInv'
  BY <1>6 DEF PrefixInv
<1>8. Selected(tags', Synched(tags')) = Selected(tags, Synched(tags))
  <2>1. \A i \in 1..k : tags'[i] = tags[i]
    BY <1>1 DEF Joins
  <2> QED BY <1>1, <1>3, <1>6, <2>1, PrefixSame
<1>9. BatchesHeld'
  <2>1. Known' = Known
    BY <1>8 DEF Known, Synched
  <2> QED BY <2>1 DEF Base, BatchesHeld, Held, controller
<1> QED BY <1>5, <1>7, <1>9 DEF Base, controller

(* The list's tags can be counted in a request. *)
Counted == MaxTags < CountSize

LEMMA SmallRemainder ==
  ASSUME NEW n \in Nat, NEW d \in Nat, n < d
  PROVE  n % d = n
OBVIOUS

(* What the controller stores of the tags behind the first k. *)
LEMMA StoredIs ==
  ASSUME Counted, TypeOK, NEW k, Prefix(tags, k)
  PROVE  /\ Len(Sent) = Len(tags) - k
         /\ Stored \in Seq(BufferEntry) /\ Len(Stored) = Len(tags) - k
         /\ \A i \in 1..(Len(tags) - k) :
              Stored[i] = [name |-> tags[k + i].name, index |-> indexes + i, batch |-> batches + 1]
<1> DEFINE us == SubSeq(tags, k + 1, Len(tags))
<1>1. tags \in Seq(TagEntry) /\ Len(tags) \in Nat /\ k \in 0..Len(tags) /\ indexes \in Nat /\ batches \in Nat
  BY DataTableAssumption DEF TypeOK, Prefix
<1>2. Unsent = us
  BY <1>1, HeldIs, PrefixParts
<1>3. Len(us) = Len(tags) - k /\ DOMAIN us = 1..(Len(tags) - k)
      /\ \A i \in 1..(Len(tags) - k) : us[i] = tags[k + i] /\ us[i] \in TagEntry
  BY <1>1
<1> HIDE DEF us
<1>8. Sent = us
  <2>1. Len(us) \in Nat /\ CountSize \in Nat /\ Len(us) < CountSize
    BY <1>1, <1>3, DataTableAssumption DEF TypeOK, Counted
  <2>2. us \in Seq(TagEntry)
    BY <1>1 DEF us
  <2>3. SubSeq(us, 1, Len(us)) = us
    BY ONLY <2>2, SubSeqFull
  <2> QED BY ONLY <1>2, <2>1, <2>3, SmallRemainder DEF Sent
<1>4. Stored = [i \in 1..(Len(tags) - k) |->
                  [name |-> us[i].name, index |-> indexes + i, batch |-> batches + 1]]
  BY <1>3, <1>8 DEF Stored
<1>5. ASSUME NEW i \in 1..(Len(tags) - k)
      PROVE  [name |-> us[i].name, index |-> indexes + i, batch |-> batches + 1] \in BufferEntry
  <2>1. us[i].name \in Tags
    BY <1>3 DEF TagEntry
  <2> QED BY <1>1, <2>1 DEF BufferEntry
<1>6. Len(tags) - k \in Nat
  BY <1>1
<1>7. Stored \in Seq(BufferEntry) /\ Len(Stored) = Len(tags) - k
  BY <1>4, <1>5, <1>6
<1> QED BY <1>3, <1>4, <1>7, <1>8

(* The buffer gets longer. *)
LEMMA StoreIs ==
  ASSUME Counted, TypeOK, NEW k, Prefix(tags, k), Store
  PROVE  /\ buffer' \in Seq(BufferEntry) /\ Joins(buffer', buffer, Stored)
         /\ buffer' = buffer \o Stored
         /\ indexes' = indexes + (Len(tags) - k) /\ batches' = batches + 1 /\ batches' \in 0..MaxBatches
         /\ indexes' \in Nat
         /\ \A i \in DOMAIN buffer' : buffer'[i].batch \in 1..batches' /\ buffer'[i].index \in 1..indexes'
<1>1. /\ Len(Sent) = Len(tags) - k
      /\ Stored \in Seq(BufferEntry) /\ Len(Stored) = Len(tags) - k
      /\ \A i \in 1..(Len(tags) - k) :
           Stored[i] = [name |-> tags[k + i].name, index |-> indexes + i, batch |-> batches + 1]
  BY StoredIs
<1>2. buffer \in Seq(BufferEntry) /\ buffer' = buffer \o Stored
  BY DEF TypeOK, Store
<1>3. buffer' \in Seq(BufferEntry) /\ Joins(buffer', buffer, Stored)
  BY <1>1, <1>2, ConcatJoins
<1>4. indexes' = indexes + (Len(tags) - k) /\ batches' = batches + 1
  BY <1>1 DEF Store
<1>5. Len(tags) - k \in Nat /\ indexes \in Nat /\ batches \in Nat /\ batches < MaxBatches
  BY DataTableAssumption DEF TypeOK, Prefix, Store
<1>6. batches' \in 0..MaxBatches /\ indexes' \in Nat
  BY <1>4, <1>5, DataTableAssumption
<1>7. ASSUME NEW i \in DOMAIN buffer'
      PROVE  buffer'[i].batch \in 1..batches' /\ buffer'[i].index \in 1..indexes'
  <2>1. i \in 1..Len(buffer')
    BY <1>3 DEF Joins
  <2>2. CASE i \in 1..Len(buffer) /\ buffer'[i] = buffer[i]
    <3>1. buffer[i].batch \in 1..batches /\ buffer[i].index \in 1..indexes
      BY <1>3, <2>2 DEF TypeOK, Joins
    <3> QED BY <1>4, <1>5, <2>2, <3>1
  <2>3. CASE i - Len(buffer) \in 1..Len(Stored) /\ buffer'[i] = Stored[i - Len(buffer)]
    <3>1. buffer'[i].batch = batches + 1 /\ buffer'[i].index = indexes + (i - Len(buffer))
      BY <1>1, <2>3
    <3>2. i - Len(buffer) \in 1..(Len(tags) - k)
      BY <1>1, <2>3
    <3> QED BY <1>4, <1>5, <3>1, <3>2
  <2>4. \/ i \in 1..Len(buffer) /\ buffer'[i] = buffer[i]
        \/ i - Len(buffer) \in 1..Len(Stored) /\ buffer'[i] = Stored[i - Len(buffer)]
    BY ONLY <1>3, <2>1, JoinsSplit
  <2> QED BY <2>2, <2>3, <2>4
<1> QED BY <1>2, <1>3, <1>4, <1>6, <1>7

(* A function on 1..n is a sequence. *)
LEMMA FcnSeq ==
  ASSUME NEW E, NEW n \in Nat, NEW f \in [1..n -> E]
  PROVE  f \in Seq(E) /\ Len(f) = n /\ DOMAIN f = 1..n
OBVIOUS

(* A tag that is told its batch. *)
MarkOf(t, b) == [t EXCEPT !.batchID = b, !.synched = TRUE]

LEMMA MarkOfIs ==
  ASSUME NEW t \in TagEntry, NEW b \in Nat
  PROVE  /\ MarkOf(t, b) \in TagEntry
         /\ MarkOf(t, b).name = t.name /\ MarkOf(t, b).index = t.index
         /\ MarkOf(t, b).batchID = b /\ MarkOf(t, b).synched = TRUE
BY DEF MarkOf, TagEntry

(* Tags that were not synched get the number of the new batch. *)
LEMMA MarkedIs ==
  ASSUME TypeOK, NEW k, Prefix(tags, k)
  PROVE  /\ Marked \in Seq(TagEntry) /\ Len(Marked) = Len(tags) /\ DOMAIN Marked = 1..Len(tags)
         /\ \A i \in 1..k : Marked[i] = tags[i]
         /\ \A i \in (k + 1)..Len(tags) : Marked[i].batchID = batches + 1
         /\ \A i \in 1..Len(tags) :
              /\ Marked[i].name = tags[i].name /\ Marked[i].index = tags[i].index
              /\ Marked[i].batchID \in 1..(batches + 1) /\ Marked[i].synched = TRUE
<1>1. /\ tags \in Seq(TagEntry) /\ Len(tags) \in Nat /\ k \in 0..Len(tags) /\ batches \in Nat
      /\ DOMAIN tags = 1..Len(tags)
  BY DataTableAssumption DEF TypeOK, Prefix
<1> DEFINE M(i) == MarkOf(tags[i], batches + 1)
<1>2. ASSUME NEW i \in 1..Len(tags)
      PROVE  /\ tags[i] \in TagEntry /\ M(i) \in TagEntry
             /\ M(i).name = tags[i].name /\ M(i).index = tags[i].index
             /\ M(i).batchID = batches + 1 /\ M(i).synched = TRUE
  <2>1. tags[i] \in TagEntry /\ batches + 1 \in Nat
    BY <1>1
  <2> QED BY ONLY <2>1, MarkOfIs
<1>3. Marked = [i \in 1..Len(tags) |-> IF tags[i].synched THEN tags[i] ELSE M(i)]
  BY <1>1 DEF Marked, MarkOf
<1> HIDE DEF M
<1>4. Marked \in Seq(TagEntry) /\ Len(Marked) = Len(tags) /\ DOMAIN Marked = 1..Len(tags)
  <2>1. Marked \in [1..Len(tags) -> TagEntry]
    BY ONLY <1>2, <1>3
  <2> QED BY ONLY <1>1, <2>1, FcnSeq
<1>5. ASSUME NEW i \in 1..Len(tags)
      PROVE  /\ i <= k => Marked[i] = tags[i] /\ tags[i].synched
             /\ i > k => Marked[i] = M(i)
  <2>1. Marked[i] = IF tags[i].synched THEN tags[i] ELSE M(i)
    BY ONLY <1>3
  <2>2. tags[i].synched <=> i <= k
    BY DEF Prefix
  <2> QED BY ONLY <1>1, <2>1, <2>2
<1>6. ASSUME NEW i \in 1..Len(tags)
      PROVE  /\ Marked[i].name = tags[i].name /\ Marked[i].index = tags[i].index
             /\ Marked[i].batchID \in 1..(batches + 1) /\ Marked[i].synched = TRUE
  <2>1. CASE i <= k
    <3>1. tags[i].synched /\ tags[i].batchID \in 0..batches /\ tags[i].batchID > 0
      BY <1>1, <1>5, <2>1 DEF TypeOK
    <3>2. tags[i].synched = TRUE
      BY <1>2, <3>1 DEF TagEntry
    <3> QED BY <1>1, <1>5, <2>1, <3>1, <3>2
  <2>2. CASE i > k
    <3>1. Marked[i] = M(i) /\ M(i).batchID = batches + 1
      BY ONLY <1>2, <1>5, <2>2
    <3>2. batches + 1 \in 1..(batches + 1)
      BY ONLY <1>1
    <3> QED BY ONLY <1>2, <3>1, <3>2
  <2>3. i <= k \/ i > k
    BY ONLY <1>1
  <2> QED BY ONLY <2>1, <2>2, <2>3
<1>7. \A i \in 1..k : Marked[i] = tags[i]
  BY ONLY <1>1, <1>5
<1>8. \A i \in (k + 1)..Len(tags) : Marked[i].batchID = batches + 1
  <2> TAKE i \in (k + 1)..Len(tags)
  <2>1. i \in 1..Len(tags) /\ i > k
    BY ONLY <1>1
  <2> QED BY ONLY <1>2, <1>5, <2>1
<1> QED BY ONLY <1>4, <1>6, <1>7, <1>8

(* ts is its first k elements, and the others. *)
Parts(ts, k, a, b) ==
  /\ a \in Seq(TagEntry) /\ Len(a) = k /\ \A i \in 1..k : a[i] = ts[i]
  /\ b \in Seq(TagEntry) /\ Len(b) = Len(ts) - k /\ \A i \in 1..(Len(ts) - k) : b[i] = ts[k + i]
  /\ ts = a \o b

LEMMA PartsAre ==
  ASSUME NEW ts \in Seq(TagEntry), NEW k \in 0..Len(ts)
  PROVE  Parts(ts, k, SubSeq(ts, 1, k), SubSeq(ts, k + 1, Len(ts)))
<1>1. Len(ts) \in Nat
  OBVIOUS
<1>2. /\ SubSeq(ts, 1, k) \in Seq(TagEntry) /\ Len(SubSeq(ts, 1, k)) = k
      /\ \A i \in 1..k : SubSeq(ts, 1, k)[i] = ts[i]
  BY <1>1
<1>3. /\ SubSeq(ts, k + 1, Len(ts)) \in Seq(TagEntry) /\ Len(SubSeq(ts, k + 1, Len(ts))) = Len(ts) - k
      /\ \A i \in 1..(Len(ts) - k) : SubSeq(ts, k + 1, Len(ts))[i] = ts[k + i]
  BY <1>1
<1>4. 1 \in 1..(Len(ts) + 1) /\ k \in (1 - 1)..Len(ts) /\ Len(ts) \in k..Len(ts)
  BY <1>1
<1>5. SubSeq(ts, 1, k) \o SubSeq(ts, k + 1, Len(ts)) = SubSeq(ts, 1, Len(ts))
  BY <1>4, ConcatAdjacentSubSeq
<1>6. SubSeq(ts, 1, Len(ts)) = ts
  BY SubSeqFull
<1> QED BY ONLY <1>2, <1>3, <1>5, <1>6 DEF Parts

(* Two lists that start in the same way. *)
LEMMA PartsSame ==
  ASSUME NEW ts \in Seq(TagEntry), NEW us \in Seq(TagEntry), NEW k \in 0..Len(ts), k <= Len(us),
         \A i \in 1..k : ts[i] = us[i]
  PROVE  SubSeq(ts, 1, k) = SubSeq(us, 1, k)
<1>1. k \in 0..Len(us) /\ k \in Nat
  OBVIOUS
<1>2. Parts(ts, k, SubSeq(ts, 1, k), SubSeq(ts, k + 1, Len(ts)))
  BY PartsAre
<1>3. Parts(us, k, SubSeq(us, 1, k), SubSeq(us, k + 1, Len(us)))
  BY <1>1, PartsAre
<1> DEFINE a == SubSeq(ts, 1, k)
           b == SubSeq(us, 1, k)
<1>4. a \in Seq(TagEntry) /\ b \in Seq(TagEntry) /\ Len(a) = Len(b) /\ \A i \in 1..Len(a) : a[i] = b[i]
  BY ONLY <1>2, <1>3, \A i \in 1..k : ts[i] = us[i] DEF Parts
<1> HIDE DEF a, b
<1>5. a = b
  BY ONLY <1>4, SeqEqual
<1> QED BY <1>5 DEF a, b

LEMMA SyncBase ==
  ASSUME Counted, Base, Sync, UNCHANGED <<removed, lost, closing>>,
         result'.status \in {"none", "read", "error"}
  PROVE  Base'
<1>1. PICK k : Prefix(tags, k)
  BY DEF Base, PrefixInv
<1>2. /\ tags \in Seq(TagEntry) /\ Len(tags) \in Nat /\ k \in 0..Len(tags) /\ batches \in Nat
      /\ buffer \in Seq(BufferEntry) /\ DOMAIN buffer = 1..Len(buffer) /\ DOMAIN tags = 1..Len(tags)
  BY <1>1, DataTableAssumption DEF Base, TypeOK, Prefix
<1>3. Store /\ tags' = Marked /\ synched' = TRUE /\ UNCHANGED <<created, expansions, allocated>>
  BY DEF Sync, Store
<1>4. /\ buffer' \in Seq(BufferEntry) /\ Joins(buffer', buffer, Stored)
      /\ buffer' = buffer \o Stored
      /\ indexes' = indexes + (Len(tags) - k) /\ batches' = batches + 1 /\ batches' \in 0..MaxBatches
      /\ indexes' \in Nat
      /\ \A i \in DOMAIN buffer' : buffer'[i].batch \in 1..batches' /\ buffer'[i].index \in 1..indexes'
  BY <1>1, <1>3, StoreIs DEF Base
<1>5. /\ tags' \in Seq(TagEntry) /\ Len(tags') = Len(tags) /\ DOMAIN tags' = 1..Len(tags)
      /\ \A i \in 1..k : tags'[i] = tags[i]
      /\ \A i \in (k + 1)..Len(tags) : tags'[i].batchID = batches + 1
      /\ \A i \in 1..Len(tags) :
           /\ tags'[i].name = tags[i].name
           /\ tags'[i].batchID \in 1..(batches + 1) /\ tags'[i].synched = TRUE
  BY <1>1, <1>3, MarkedIs DEF Base
<1>6. TypeOK'
  <2>1. ASSUME NEW i \in 1..Len(tags)
        PROVE  /\ tags'[i].batchID \in 0..batches' /\ (tags'[i].synched <=> tags'[i].batchID > 0)
               /\ synched' => tags'[i].synched
    <3>1. tags'[i].batchID \in 1..(batches + 1) /\ tags'[i].synched = TRUE
      BY ONLY <1>5
    <3> QED BY ONLY <1>2, <1>4, <3>1
  <2>2. Len(tags') <= MaxTags
    <3>1. Len(tags) <= MaxTags
      BY DEF Base, TypeOK
    <3> QED BY ONLY <1>5, <3>1
  <2>3. /\ created' \in BOOLEAN /\ synched' \in BOOLEAN /\ removed' \in BOOLEAN /\ allocated' \in BOOLEAN
        /\ expansions' \subseteq Tags /\ lost' \in 0..MaxLost
        /\ result'.status \in {"none", "read", "error"} /\ closing' \in {"none", "ok", "error"}
    BY <1>3 DEF Base, TypeOK
  <2>4. \A i \in DOMAIN tags' :
          /\ tags'[i].batchID \in 0..batches' /\ (tags'[i].synched <=> tags'[i].batchID > 0)
          /\ synched' => tags'[i].synched
    BY ONLY <1>5, <2>1
  <2> QED BY ONLY <1>4, <1>5, <2>2, <2>3, <2>4 DEF TypeOK
<1>7. PrefixInv'
  <2>1. Len(tags') \in 0..Len(tags')
    BY ONLY <1>2, <1>5
  <2>2. \A i \in 1..Len(tags') : tags'[i].synched <=> i <= Len(tags')
    BY ONLY <1>2, <1>5
  <2>3. Prefix(tags', Len(tags'))
    BY ONLY <2>1, <2>2 DEF Prefix
  <2> QED BY ONLY <2>1, <2>3 DEF PrefixInv
<1>8. ASSUME created, ~removed PROVE HeldOK(buffer', Known')
  <2> DEFINE kn == SubSeq(tags, 1, k)
             nk == SubSeq(tags', k + 1, Len(tags'))
             b == batches + 1
  <2>1. Known = kn
    BY <1>1, <1>2, HeldIs, PrefixParts
  <2>2. Known' = tags'
    <3>1. \A i \in 1..Len(tags') : i \in Synched(tags')
      BY ONLY <1>5 DEF Synched
    <3>2. Selected(tags', Synched(tags')) = tags'
      BY ONLY <1>5, <3>1, SelectedAll
    <3> QED BY ONLY <3>2 DEF Known, Synched
  <2>3. Parts(tags, k, kn, SubSeq(tags, k + 1, Len(tags)))
    BY ONLY <1>2, PartsAre
  <2>4. k \in 0..Len(tags')
    BY ONLY <1>2, <1>5
  <2>5. Parts(tags', k, SubSeq(tags', 1, k), nk)
    BY ONLY <1>5, <2>4, PartsAre
  <2>6. SubSeq(tags', 1, k) = kn
    <3>1. k <= Len(tags) /\ \A i \in 1..k : tags'[i] = tags[i]
      BY ONLY <1>2, <1>5
    <3> QED BY ONLY <1>2, <1>5, <2>4, <3>1, PartsSame
  <2> HIDE DEF kn, nk
  <2>7. kn \in Seq(TagEntry) /\ Len(kn) = k /\ \A i \in 1..k : kn[i] = tags[i]
    BY ONLY <2>3 DEF Parts
  <2>8. /\ nk \in Seq(TagEntry) /\ Len(nk) = Len(tags) - k
        /\ \A i \in 1..(Len(tags) - k) : nk[i] = tags'[k + i]
        /\ Known' = kn \o nk
    BY ONLY <1>5, <2>2, <2>5, <2>6 DEF Parts
  <2>9. HeldOK(buffer, kn)
    BY <1>8, <2>1, HeldIs DEF Base
  <2>10. /\ Stored \in Seq(BufferEntry) /\ Len(Stored) = Len(tags) - k
         /\ \A i \in 1..(Len(tags) - k) :
              Stored[i] = [name |-> tags[k + i].name, index |-> indexes + i, batch |-> batches + 1]
    BY <1>1, StoredIs DEF Base
  <2>11. \A i \in 1..Len(buffer) : buffer[i].batch < b
    BY <1>2 DEF Base, TypeOK
  <2>12. \A i \in 1..Len(kn) : kn[i].batchID < b
    <3>1. \A i \in DOMAIN tags : tags[i].batchID \in 0..batches
      BY DEF Base, TypeOK
    <3>2. \A i \in 1..k : tags[i].batchID < b
      BY <1>2, <3>1
    <3> QED BY ONLY <2>7, <3>2
  <2>13. ASSUME NEW i \in 1..Len(nk)
         PROVE  Stored[i].batch = b /\ nk[i].batchID = b /\ Stored[i].name = nk[i].name
    <3>1. i \in 1..(Len(tags) - k) /\ k + i \in (k + 1)..Len(tags) /\ k + i \in 1..Len(tags)
      BY ONLY <1>2, <2>8
    <3>2. nk[i] = tags'[k + i] /\ tags'[k + i].name = tags[k + i].name /\ tags'[k + i].batchID = b
      BY ONLY <1>5, <2>8, <3>1
    <3>3. Stored[i] = [name |-> tags[k + i].name, index |-> indexes + i, batch |-> batches + 1]
      BY ONLY <2>10, <3>1
    <3> QED BY ONLY <3>2, <3>3
  <2>14. HeldOK(buffer \o Stored, kn \o nk)
    <3>1. b \in Nat /\ Len(Stored) = Len(nk)
      BY ONLY <1>2, <2>8, <2>10
    <3> HIDE DEF b
    <3> QED BY ONLY <1>2, <2>7, <2>8, <2>9, <2>10, <2>11, <2>12, <2>13, <3>1, HeldGrows
  <2> QED BY ONLY <1>4, <2>8, <2>14
<1>9. BatchesHeld'
  <2>1. BatchesHeld' <=> (created' /\ ~removed' => HeldOK(buffer', Known'))
    BY DEF BatchesHeld, Held, HeldOK, Same, Of
  <2> QED BY <1>3, <1>8, <2>1
<1> QED BY <1>3, <1>6, <1>7, <1>9 DEF Base

LEMMA SyncTagsFailsBase ==
  ASSUME Counted, Base, SyncTagsFails
  PROVE  Base'
<1>1. PICK k : Prefix(tags, k)
  BY DEF Base, PrefixInv
<1>2. /\ Store /\ UNCHANGED <<created, synched, tags, expansions, allocated, removed, result, closing>>
      /\ lost' = lost + 1 /\ lost < MaxLost
  BY DEF SyncTagsFails, Store, list
<1>3. /\ buffer' \in Seq(BufferEntry) /\ buffer' = buffer \o Stored
      /\ batches' = batches + 1 /\ batches' \in 0..MaxBatches /\ indexes' \in Nat
      /\ \A i \in DOMAIN buffer' : buffer'[i].batch \in 1..batches' /\ buffer'[i].index \in 1..indexes'
  BY <1>1, <1>2, StoreIs DEF Base
<1>4. /\ Stored \in Seq(BufferEntry) /\ Len(Stored) = Len(tags) - k
      /\ \A i \in 1..(Len(tags) - k) :
           Stored[i] = [name |-> tags[k + i].name, index |-> indexes + i, batch |-> batches + 1]
  BY <1>1, StoredIs DEF Base
<1>5. batches \in Nat /\ lost' \in 0..MaxLost
  BY <1>2, DataTableAssumption DEF Base, TypeOK
<1>6. \A i \in DOMAIN tags : tags[i].batchID \in 0..batches /\ tags[i].batchID \in 0..batches'
  BY <1>3, <1>5 DEF Base, TypeOK
<1>7. TypeOK'
  BY <1>2, <1>3, <1>5, <1>6 DEF Base, TypeOK
<1>8. PrefixInv'
  BY <1>2 DEF Base, PrefixInv
<1>9. Known \in Seq(TagEntry) /\ \A i \in 1..Len(Known) : Known[i].batchID < batches + 1
  <2> DEFINE kn == SubSeq(tags, 1, k)
  <2>1. tags \in Seq(TagEntry) /\ k \in 0..Len(tags) /\ Len(tags) \in Nat /\ DOMAIN tags = 1..Len(tags)
    BY <1>1 DEF Base, TypeOK, Prefix
  <2>2. Known = kn
    BY <1>1, <2>1, HeldIs, PrefixParts
  <2>3. Parts(tags, k, kn, SubSeq(tags, k + 1, Len(tags)))
    BY ONLY <2>1, PartsAre
  <2> HIDE DEF kn
  <2>4. kn \in Seq(TagEntry) /\ Len(kn) = k /\ \A i \in 1..k : kn[i] = tags[i]
    BY ONLY <2>3 DEF Parts
  <2>5. \A i \in 1..k : tags[i].batchID < batches + 1
    BY ONLY <1>5, <1>6, <2>1
  <2> QED BY ONLY <2>2, <2>4, <2>5
<1>10. ASSUME created, ~removed PROVE HeldOK(buffer', Known)
  <2>1. HeldOK(buffer, Known) /\ buffer \in Seq(BufferEntry)
    BY <1>10, HeldIs DEF Base, TypeOK
  <2>2. \A i \in 1..Len(Stored) : Stored[i].batch = batches + 1
    BY ONLY <1>4
  <2>3. batches + 1 \in Nat
    BY ONLY <1>5
  <2>4. HeldOK(buffer \o Stored, Known)
    BY ONLY <1>4, <1>9, <2>1, <2>2, <2>3, HeldStays
  <2> QED BY ONLY <1>3, <2>4
<1>11. Known' = Known
  BY <1>2 DEF Known
<1>12. BatchesHeld'
  <2>1. BatchesHeld' <=> (created' /\ ~removed' => HeldOK(buffer', Known'))
    BY DEF BatchesHeld, Held, HeldOK, Same, Of
  <2> QED BY <1>2, <1>10, <1>11, <2>1
<1> QED BY <1>2, <1>7, <1>8, <1>12 DEF Base

(* Where an element of r was. *)
From(i, n) == IF i < n THEN i ELSE i + 1

LEMMA RemovesFrom ==
  ASSUME NEW r, NEW s, NEW n, Removes(r, s, n), NEW i \in 1..Len(r)
  PROVE  From(i, n) \in 1..Len(s) /\ From(i, n) # n /\ r[i] = s[From(i, n)]
<1>1. Len(s) \in Nat /\ n \in 1..Len(s) /\ Len(r) = Len(s) - 1
  BY DEF Removes
<1>2. r[i] = IF i < n THEN s[i] ELSE s[i + 1]
  BY DEF Removes
<1> QED BY <1>1, <1>2 DEF From

LEMMA RemovePrefix ==
  ASSUME NEW us, NEW ts, NEW n, Removes(us, ts, n), NEW k, Prefix(ts, k)
  PROVE  Prefix(us, IF n <= k THEN k - 1 ELSE k)
<1> DEFINE l == IF n <= k THEN k - 1 ELSE k
<1>1. Len(ts) \in Nat /\ n \in 1..Len(ts) /\ Len(us) = Len(ts) - 1 /\ k \in 0..Len(ts)
  BY DEF Removes, Prefix
<1>2. l \in 0..Len(us)
  BY <1>1
<1>3. ASSUME NEW i \in 1..Len(us) PROVE us[i].synched <=> i <= l
  <2>1. From(i, n) \in 1..Len(ts) /\ us[i] = ts[From(i, n)]
    BY RemovesFrom
  <2>2. us[i].synched <=> From(i, n) <= k
    BY <2>1 DEF Prefix
  <2>3. From(i, n) <= k <=> i <= l
    BY <1>1 DEF From
  <2> QED BY ONLY <2>2, <2>3
<1> QED BY <1>2, <1>3 DEF Prefix

(* A shorter buffer has no other entries. *)
LEMMA ShorterBuffer ==
  ASSUME TypeOK, NEW n \in DOMAIN buffer, buffer' = RemoveAt(buffer, n)
  PROVE  /\ buffer' \in Seq(BufferEntry) /\ Removes(buffer', buffer, n)
         /\ \A i \in DOMAIN buffer' : buffer'[i].batch \in 1..batches /\ buffer'[i].index \in 1..indexes
<1>1. buffer \in Seq(BufferEntry) /\ n \in 1..Len(buffer) /\ DOMAIN buffer = 1..Len(buffer)
  BY DEF TypeOK
<1>2. RemoveAt(buffer, n) \in Seq(BufferEntry) /\ Removes(RemoveAt(buffer, n), buffer, n)
  BY ONLY <1>1, RemoveAtRemoves
<1>3. buffer' \in Seq(BufferEntry) /\ Removes(buffer', buffer, n)
  BY ONLY <1>2, buffer' = RemoveAt(buffer, n)
<1>4. ASSUME NEW i \in DOMAIN buffer'
      PROVE  buffer'[i].batch \in 1..batches /\ buffer'[i].index \in 1..indexes
  <2>1. i \in 1..Len(buffer')
    BY <1>3 DEF Removes
  <2>2. From(i, n) \in 1..Len(buffer) /\ buffer'[i] = buffer[From(i, n)]
    BY ONLY <1>3, <2>1, RemovesFrom
  <2> QED BY <1>1, <2>2 DEF TypeOK
<1> QED BY <1>3, <1>4

LEMMA RemoveTagBase ==
  ASSUME Base, NEW t \in Tags, RemoveTag(t)
  PROVE  Base'
<1>1. PICK m \in DOMAIN tags, n \in DOMAIN buffer :
        buffer' = RemoveAt(buffer, n) /\ tags' = RemoveAt(tags, m)
  BY DEF RemoveTag
<1>2. /\ removed' = TRUE
      /\ UNCHANGED <<created, synched, expansions, allocated, indexes, batches, lost, result, closing>>
  BY DEF RemoveTag
<1>3. /\ buffer' \in Seq(BufferEntry)
      /\ \A i \in DOMAIN buffer' : buffer'[i].batch \in 1..batches /\ buffer'[i].index \in 1..indexes
  BY <1>1, ShorterBuffer DEF Base
<1>4. tags \in Seq(TagEntry) /\ m \in 1..Len(tags) /\ DOMAIN tags = 1..Len(tags) /\ Len(tags) <= MaxTags
  BY <1>1 DEF Base, TypeOK
<1>5. tags' \in Seq(TagEntry) /\ Removes(tags', tags, m)
  BY ONLY <1>1, <1>4, RemoveAtRemoves
<1>6. Len(tags') <= MaxTags /\ DOMAIN tags' = 1..Len(tags')
  BY <1>4, <1>5, DataTableAssumption DEF Removes
<1>7. ASSUME NEW i \in DOMAIN tags'
      PROVE  /\ tags'[i].batchID \in 0..batches /\ (tags'[i].synched <=> tags'[i].batchID > 0)
             /\ synched => tags'[i].synched
  <2>1. From(i, m) \in 1..Len(tags) /\ tags'[i] = tags[From(i, m)]
    BY ONLY <1>5, <1>6, <1>7, RemovesFrom
  <2> QED BY <1>4, <2>1 DEF Base, TypeOK
<1>8. TypeOK'
  BY <1>2, <1>3, <1>5, <1>6, <1>7 DEF Base, TypeOK
<1>9. PrefixInv'
  <2>1. PICK k : Prefix(tags, k)
    BY DEF Base, PrefixInv
  <2> DEFINE l == IF m <= k THEN k - 1 ELSE k
  <2>2. Prefix(tags', l)
    BY ONLY <1>5, <2>1, RemovePrefix
  <2> HIDE DEF l
  <2> QED BY <2>2 DEF PrefixInv, Prefix
<1> QED BY <1>2, <1>8, <1>9 DEF Base, BatchesHeld

LEMMA RemoveTagFailsBase ==
  ASSUME Base, NEW t \in Tags, RemoveTagFails(t)
  PROVE  Base'
<1>1. PICK n \in DOMAIN buffer : buffer' = RemoveAt(buffer, n)
  BY DEF RemoveTagFails
<1>2. /\ removed' = TRUE /\ lost' = lost + 1 /\ lost < MaxLost
      /\ UNCHANGED <<created, synched, tags, expansions, allocated, indexes, batches, result, closing>>
  BY DEF RemoveTagFails, list
<1>3. /\ buffer' \in Seq(BufferEntry)
      /\ \A i \in DOMAIN buffer' : buffer'[i].batch \in 1..batches /\ buffer'[i].index \in 1..indexes
  BY <1>1, ShorterBuffer DEF Base
<1>4. lost' \in 0..MaxLost
  BY <1>2, DataTableAssumption DEF Base, TypeOK
<1>5. TypeOK'
  BY <1>2, <1>3, <1>4 DEF Base, TypeOK
<1> QED BY <1>2, <1>5 DEF Base, BatchesHeld, PrefixInv

LEMMA CloseBase ==
  ASSUME Base, Close \/ CloseFails
  PROVE  Base'
<1>1. /\ created' = FALSE /\ closing' \in {"ok", "error"} /\ allocated' \in BOOLEAN
      /\ buffer' = buffer \/ buffer' = <<>>
      /\ UNCHANGED <<synched, tags, expansions, indexes, batches, removed, lost, result>>
  BY DEF Base, TypeOK, Close, CloseFails, controller
<1>2. /\ buffer' \in Seq(BufferEntry)
      /\ \A i \in DOMAIN buffer' : buffer'[i].batch \in 1..batches /\ buffer'[i].index \in 1..indexes
  <2>1. CASE buffer' = buffer
    BY <2>1 DEF Base, TypeOK
  <2>2. CASE buffer' = <<>>
    <3>1. buffer' \in Seq(BufferEntry) /\ DOMAIN buffer' = {}
      BY ONLY <2>2
    <3> QED BY <3>1
  <2> QED BY <1>1, <2>1, <2>2
<1>3. TypeOK'
  BY <1>1, <1>2 DEF Base, TypeOK
<1> QED BY <1>1, <1>3 DEF Base, BatchesHeld, PrefixInv

LEMMA ParseStatus ==
  ASSUME NEW ts, NEW data, NEW raw
  PROVE  Parse(ts, data, raw).status \in {"none", "read", "error"}
BY DEF Parse, Result

LEMMA SameBase ==
  ASSUME Base, TypeOK', UNCHANGED <<created, tags, buffer, removed, allocated>>
  PROVE  Base'
<1>1. Known' = Known
  BY DEF Known
<1>2. Held' = Held
  BY <1>1 DEF Held
<1>3. BatchesHeld'
  BY <1>1, <1>2 DEF Base, BatchesHeld
<1> QED BY <1>3 DEF Base, PrefixInv

LEMMA NextBase ==
  ASSUME Counted, Base, [Next]_vars
  PROVE  Base'
<1>1. ASSUME NEW t \in Tags, AddTag(t) PROVE Base'
  <2>1. <<t>> \in Seq(Tags)
    OBVIOUS
  <2> QED BY <1>1, <2>1, ExtendBase DEF AddTag, Base, TypeOK
<1>2. ASSUME NEW S \in SUBSET Tags, AddTags(S) \/ AddTagGroup(S) PROVE Base'
  <2>1. PICK names \in SetToSeqs(S) : Extend(names)
    BY <1>2 DEF AddTags, AddTagGroup
  <2>2. names \in Seq(Tags)
    BY NamesAre
  <2>3. expansions' \subseteq Tags /\ UNCHANGED <<created, controller, removed, lost, result, closing>>
    BY <1>2 DEF AddTags, AddTagGroup, Base, TypeOK
  <2> QED BY <2>1, <2>2, <2>3, ExtendBase
<1>3. ASSUME NEW S \in SUBSET Tags, AddTagGroupFails(S) PROVE Base'
  <2>1. UNCHANGED <<created, synched, tags, controller, removed, lost, result, closing>>
    BY <1>3 DEF AddTagGroupFails
  <2>2. TypeOK'
    BY <1>3, <2>1 DEF AddTagGroupFails, Base, TypeOK, controller
  <2> QED BY <2>1, <2>2, SameBase DEF controller
<1>4. CASE SyncTags
  BY <1>4, SyncBase DEF SyncTags, Base, TypeOK
<1>5. ASSUME NEW raw \in BOOLEAN, Read(raw) PROVE Base'
  <2>1. result'.status \in {"none", "read", "error"} /\ UNCHANGED <<removed, lost, closing>>
    BY <1>5, ParseStatus DEF Read
  <2>2. CASE ~synched
    <3>1. Sync
      BY <1>5, <2>2 DEF Read
    <3> QED BY <2>1, <3>1, SyncBase
  <2>3. CASE synched
    <3>1. UNCHANGED <<list, controller>>
      BY <1>5, <2>3 DEF Read
    <3>2. TypeOK'
      BY <2>1, <3>1 DEF Base, TypeOK, list, controller
    <3> QED BY <2>1, <3>1, <3>2, SameBase DEF list, controller
  <2> QED BY <2>2, <2>3
<1>6. CASE UNCHANGED vars
  <2>1. TypeOK'
    BY <1>6 DEF Base, TypeOK, vars, list, controller
  <2> QED BY <1>6, <2>1, SameBase DEF vars, list, controller
<1> QED
  BY <1>1, <1>2, <1>3, <1>4, <1>5, <1>6, RemoveTagBase, RemoveTagFailsBase, SyncTagsFailsBase, CloseBase
  DEF Next, ReadAll, ReadAllRaw

(* If the list is bounded by what a request can count, the list, the        *)
(* controller's buffer and the counters keep their types; the tags that     *)
(* count as synched are those that have a batch.                            *)
THEOREM TableTypes == ASSUME Counted PROVE Spec => []TypeOK
<1>1. Base => TypeOK
  BY DEF Base
<1>2. Base /\ [Next]_vars => Base'
  BY NextBase
<1> QED BY <1>1, <1>2, InitBase, PTL DEF Spec

(* If the list is bounded by what a request can count, then whatever        *)
(* replies are lost the batches the list knows are in the controller's      *)
(* buffer, whole and in the list's order, until a tag is removed.           *)
THEOREM KnownBatchesHeld == ASSUME Counted PROVE Spec => []BatchesHeld
<1>1. Base => BatchesHeld
  BY DEF Base
<1>2. Base /\ [Next]_vars => Base'
  BY NextBase
<1> QED BY <1>1, <1>2, InitBase, PTL DEF Spec

-----------------------------------------------------------------------------
(* The list and the buffer while no reply is lost, for a controller and a   *)
(* caller of which it is assumed that the numbers of the tags stay as they  *)
(* are, that tags are added before any is removed, and no more of them than *)
(* a request can count.                                                     *)

Numbering == Renumbers = FALSE /\ AddAfterRemove = FALSE /\ Counted

(* The buffer is the synched part of the list; the other tags have the      *)
(* indexes the controller will give them.                                   *)
Fits(ts, bs, ix) ==
  /\ Prefix(ts, Len(bs))
  /\ \A i \in 1..Len(bs) :
       bs[i].name = ts[i].name /\ bs[i].index = ts[i].index /\ bs[i].batch = ts[i].batchID
  /\ \A i \in (Len(bs) + 1)..Len(ts) : ts[i].index = ix + (i - Len(bs))
  /\ \A i, j \in 1..Len(ts) : i < j => ts[i].index < ts[j].index

Matches == Fits(tags, buffer, indexes) /\ (removed = FALSE => indexes = Len(buffer))

MatchInv == Base /\ (created /\ lost = 0 => Matches)

LEMMA InitMatch == Init => MatchInv
<1> SUFFICES ASSUME Init PROVE MatchInv
  OBVIOUS
<1>1. Len(tags) = 0 /\ Len(buffer) = 0 /\ indexes = 0
  BY DEF Init
<1>2. Prefix(tags, Len(buffer))
  BY <1>1 DEF Prefix
<1>3. Matches
  BY <1>1, <1>2 DEF Matches, Fits
<1> QED BY <1>3, InitBase DEF MatchInv

LEMMA ExtendMatch ==
  ASSUME Numbering, Base, Matches, NEW names \in Seq(Tags), Extend(names),
         UNCHANGED <<controller, removed>>
  PROVE  Matches'
<1> DEFINE n == New(names)
<1>1. /\ tags \in Seq(TagEntry) /\ n \in Seq(TagEntry) /\ tags' \in Seq(TagEntry)
      /\ Joins(tags', tags, n) /\ Len(n) = Len(names) /\ Len(names) \in Nat
  BY ExtendIs DEF Base, TypeOK
<1>2. \A i \in 1..Len(n) : n[i].index = Len(tags) + i /\ n[i].synched = FALSE
  BY <1>1 DEF New
<1> HIDE DEF n
<1>3. removed = FALSE /\ indexes = Len(buffer) /\ indexes' = indexes /\ buffer' = buffer /\ removed' = removed
  BY DEF Numbering, Extend, Matches, Base, TypeOK, controller
<1>4. /\ Len(tags) \in Nat /\ Len(tags') \in Nat /\ Len(n) \in Nat /\ Len(tags') = Len(tags) + Len(n)
      /\ Len(buffer) \in 0..Len(tags) /\ buffer \in Seq(BufferEntry) /\ DOMAIN buffer = 1..Len(buffer)
  BY <1>1 DEF Joins, Matches, Fits, Prefix, Base, TypeOK
<1>5. ASSUME NEW i \in 1..Len(tags')
      PROVE  \/ i \in 1..Len(tags) /\ tags'[i] = tags[i]
             \/ i - Len(tags) \in 1..Len(n) /\ tags'[i] = n[i - Len(tags)]
  BY ONLY <1>1, <1>5, JoinsSplit
<1>6. ASSUME NEW i \in 1..Len(tags), i > Len(buffer) PROVE tags[i].index = i
  <2>1. i \in (Len(buffer) + 1)..Len(tags)
    BY ONLY <1>4, <1>6
  <2>2. tags[i].index = indexes + (i - Len(buffer))
    BY <2>1 DEF Matches, Fits
  <2> QED BY ONLY <1>3, <1>4, <2>1, <2>2
<1>7. ASSUME NEW i \in 1..Len(tags) PROVE tags[i].index <= Len(tags)
  <2>1. CASE i <= Len(buffer)
    <3>1. i \in 1..Len(buffer)
      BY ONLY <1>4, <2>1
    <3>2. buffer[i].index \in 1..indexes /\ buffer[i].index = tags[i].index
      BY <1>4, <3>1 DEF Base, TypeOK, Matches, Fits
    <3> QED BY ONLY <1>3, <1>4, <3>2
  <2>2. CASE i > Len(buffer)
    BY ONLY <1>4, <1>6, <2>2
  <2> QED BY ONLY <1>4, <2>1, <2>2
<1>8. ASSUME NEW i \in 1..Len(tags'), i > Len(buffer) PROVE tags'[i].index = i /\ tags'[i].synched = FALSE
  <2>1. CASE i \in 1..Len(tags) /\ tags'[i] = tags[i]
    <3>1. tags[i].index = i
      BY ONLY <1>6, <1>8, <2>1
    <3>2. tags[i] \in TagEntry /\ ~(i <= Len(buffer))
      BY <1>1, <1>4, <1>8, <2>1
    <3>3. tags[i].synched <=> i <= Len(buffer)
      BY <2>1 DEF Matches, Fits, Prefix
    <3>4. tags[i].synched = FALSE
      BY <3>2, <3>3 DEF TagEntry
    <3> QED BY ONLY <2>1, <3>1, <3>4
  <2>2. CASE i - Len(tags) \in 1..Len(n) /\ tags'[i] = n[i - Len(tags)]
    <3>1. Len(tags) + (i - Len(tags)) = i
      BY ONLY <1>4
    <3> QED BY ONLY <1>2, <2>2, <3>1
  <2> QED BY ONLY <1>5, <2>1, <2>2
<1>9. Prefix(tags', Len(buffer))
  <2>1. Len(buffer) \in 0..Len(tags')
    BY ONLY <1>4
  <2>2. ASSUME NEW i \in 1..Len(tags') PROVE tags'[i].synched <=> i <= Len(buffer)
    <3>1. CASE i <= Len(buffer)
      <4>1. i \in 1..Len(tags)
        BY ONLY <1>4, <3>1
      <4>2. tags'[i] = tags[i]
        BY <1>1, <4>1 DEF Joins
      <4>3. tags[i].synched <=> i <= Len(buffer)
        BY <4>1 DEF Matches, Fits, Prefix
      <4> QED BY ONLY <4>2, <4>3
    <3>2. CASE i > Len(buffer)
      <4>1. tags'[i].synched = FALSE
        BY ONLY <1>8, <3>2
      <4>2. ~(i <= Len(buffer))
        BY ONLY <1>4, <3>2
      <4> QED BY ONLY <4>1, <4>2
    <3>3. i <= Len(buffer) \/ i > Len(buffer)
      BY ONLY <1>4
    <3> QED BY ONLY <3>1, <3>2, <3>3
  <2> QED BY ONLY <2>1, <2>2 DEF Prefix
<1>10. ASSUME NEW i \in 1..Len(buffer)
       PROVE  /\ buffer[i].name = tags'[i].name /\ buffer[i].index = tags'[i].index
              /\ buffer[i].batch = tags'[i].batchID
  <2>1. i \in 1..Len(tags)
    BY ONLY <1>4
  <2>2. tags'[i] = tags[i]
    BY <1>1, <2>1 DEF Joins
  <2> QED BY <2>2 DEF Matches, Fits
<1>11. ASSUME NEW i \in (Len(buffer) + 1)..Len(tags') PROVE tags'[i].index = indexes + (i - Len(buffer))
  <2>1. i \in 1..Len(tags') /\ i > Len(buffer)
    BY ONLY <1>4
  <2>2. tags'[i].index = i
    BY ONLY <1>8, <2>1
  <2> QED BY ONLY <1>3, <1>4, <2>2
<1>12. ASSUME NEW i \in 1..Len(tags'), NEW j \in 1..Len(tags'), i < j
       PROVE  tags'[i].index < tags'[j].index
  <2>1. CASE j \in 1..Len(tags)
    <3>1. i \in 1..Len(tags)
      BY ONLY <1>4, <1>12, <2>1
    <3>2. tags'[i] = tags[i] /\ tags'[j] = tags[j]
      BY <1>1, <2>1, <3>1 DEF Joins
    <3>3. tags[i].index < tags[j].index
      BY <1>12, <2>1, <3>1 DEF Matches, Fits
    <3> QED BY ONLY <3>2, <3>3
  <2>2. CASE j > Len(tags)
    <3>1. tags'[j].index = j
      <4>1. j > Len(buffer)
        BY ONLY <1>4, <2>2
      <4> QED BY ONLY <1>8, <4>1
    <3>2. CASE i \in 1..Len(tags) /\ tags'[i] = tags[i]
      <4>1. tags[i].index \in Nat
        <5>1. tags[i] \in TagEntry
          BY <1>1, <3>2
        <5> QED BY ONLY <5>1 DEF TagEntry
      <4>2. tags[i].index <= Len(tags)
        BY ONLY <1>7, <3>2
      <4> QED BY ONLY <1>4, <2>2, <3>1, <3>2, <4>1, <4>2
    <3>3. CASE i > Len(tags)
      <4>1. tags'[i].index = i
        <5>1. i > Len(buffer)
          BY ONLY <1>4, <3>3
        <5> QED BY ONLY <1>8, <5>1
      <4> QED BY ONLY <1>12, <3>1, <4>1
    <3>4. i > Len(tags) \/ (i \in 1..Len(tags) /\ tags'[i] = tags[i])
      BY ONLY <1>4, <1>5
    <3> QED BY ONLY <3>2, <3>3, <3>4
  <2> QED BY ONLY <1>4, <2>1, <2>2
<1>13. Fits(tags', buffer, indexes)
  BY ONLY <1>9, <1>10, <1>11, <1>12 DEF Fits
<1> QED BY ONLY <1>3, <1>13 DEF Matches

LEMMA SyncMatch ==
  ASSUME Counted, Base, Matches, Sync, UNCHANGED removed
  PROVE  Matches' /\ Len(tags') = Len(buffer')
<1> DEFINE k == Len(buffer)
<1>1. Prefix(tags, k)
  BY DEF Matches, Fits
<1>2. /\ tags \in Seq(TagEntry) /\ Len(tags) \in Nat /\ k \in 0..Len(tags) /\ k \in Nat
      /\ indexes \in Nat /\ batches \in Nat
  BY <1>1, DataTableAssumption DEF Base, TypeOK, Prefix
<1>3. Store /\ tags' = Marked
  BY DEF Sync
<1>4. Joins(buffer', buffer, Stored) /\ indexes' = indexes + (Len(tags) - k)
  BY <1>1, <1>3, StoreIs DEF Base
<1>5. /\ Len(tags') = Len(tags)
      /\ \A i \in 1..k : tags'[i] = tags[i]
      /\ \A i \in (k + 1)..Len(tags) : tags'[i].batchID = batches + 1
      /\ \A i \in 1..Len(tags) :
           tags'[i].name = tags[i].name /\ tags'[i].index = tags[i].index /\ tags'[i].synched = TRUE
  BY <1>1, <1>3, MarkedIs DEF Base
<1>6. /\ Len(Stored) = Len(tags) - k
      /\ \A i \in 1..(Len(tags) - k) :
           Stored[i] = [name |-> tags[k + i].name, index |-> indexes + i, batch |-> batches + 1]
  BY <1>1, StoredIs DEF Base
<1>7. Len(buffer') = Len(tags)
  BY <1>2, <1>4, <1>6 DEF Joins
<1>8. ASSUME NEW i \in 1..k
      PROVE  /\ buffer[i].name = tags[i].name /\ buffer[i].index = tags[i].index
             /\ buffer[i].batch = tags[i].batchID
  BY DEF Matches, Fits
<1>9. ASSUME NEW i \in (k + 1)..Len(tags) PROVE tags[i].index = indexes + (i - k)
  BY DEF Matches, Fits
<1>10. ASSUME NEW i \in 1..Len(tags), NEW j \in 1..Len(tags), i < j PROVE tags[i].index < tags[j].index
  BY <1>10 DEF Matches, Fits
<1>11. removed' = FALSE => indexes' = Len(tags)
  <2>1. removed = FALSE => indexes = k
    BY DEF Matches
  <2> QED BY <1>2, <1>4, <2>1
<1> HIDE DEF k
<1>12. Prefix(tags', Len(tags))
  <2>1. Len(tags) \in 0..Len(tags')
    BY ONLY <1>2, <1>5
  <2>2. \A i \in 1..Len(tags') : tags'[i].synched <=> i <= Len(tags)
    BY ONLY <1>2, <1>5
  <2> QED BY ONLY <2>1, <2>2 DEF Prefix
<1>13. ASSUME NEW i \in 1..Len(tags)
       PROVE  /\ buffer'[i].name = tags'[i].name /\ buffer'[i].index = tags'[i].index
              /\ buffer'[i].batch = tags'[i].batchID
  <2>1. CASE i <= k
    <3>1. i \in 1..k
      BY ONLY <1>2, <2>1
    <3>2. buffer'[i] = buffer[i]
      BY <1>4, <3>1 DEF Joins, k
    <3>3. tags'[i] = tags[i]
      BY ONLY <1>5, <3>1
    <3> QED BY ONLY <1>8, <3>1, <3>2, <3>3
  <2>2. CASE i > k
    <3>1. i - k \in 1..(Len(tags) - k) /\ k + (i - k) = i /\ i \in (k + 1)..Len(tags)
      BY ONLY <1>2, <2>2
    <3>2. buffer'[k + (i - k)] = Stored[i - k]
      BY <1>4, <1>6, <3>1 DEF Joins, k
    <3>3. Stored[i - k] = [name |-> tags[k + (i - k)].name, index |-> indexes + (i - k), batch |-> batches + 1]
      BY ONLY <1>6, <3>1
    <3>4. buffer'[i] = [name |-> tags[i].name, index |-> indexes + (i - k), batch |-> batches + 1]
      BY ONLY <3>1, <3>2, <3>3
    <3>5. tags[i].index = indexes + (i - k) /\ tags'[i].batchID = batches + 1
      BY ONLY <1>5, <1>9, <3>1
    <3>6. tags'[i].name = tags[i].name /\ tags'[i].index = tags[i].index
      BY ONLY <1>5
    <3> QED BY ONLY <3>4, <3>5, <3>6
  <2>3. i <= k \/ i > k
    BY ONLY <1>2
  <2> QED BY ONLY <2>1, <2>2, <2>3
<1>14. Fits(tags', buffer', indexes')
  <2>1. (Len(buffer') + 1)..Len(tags') = {}
    BY ONLY <1>2, <1>5, <1>7
  <2>2. \A i, j \in 1..Len(tags') : i < j => tags'[i].index < tags'[j].index
    BY ONLY <1>5, <1>10
  <2> QED BY ONLY <1>7, <1>12, <1>13, <2>1, <2>2 DEF Fits
<1> QED BY ONLY <1>5, <1>7, <1>11, <1>14 DEF Matches

(* The controller finds the tag at the place the list has it. *)
LEMMA FindsSame ==
  ASSUME Numbering, Base, Matches, NEW t \in Tags, NEW m \in DOMAIN tags, NEW n \in DOMAIN buffer,
         Finds(t, m, n)
  PROVE  n = m
<1>1. /\ DOMAIN tags = 1..Len(tags) /\ DOMAIN buffer = 1..Len(buffer) /\ Len(tags) \in Nat
      /\ Len(buffer) \in 0..Len(tags) /\ \A i \in 1..Len(tags) : tags[i] \in TagEntry
  BY DEF Base, TypeOK, Matches, Fits, Prefix
<1>2. n \in 1..Len(buffer) /\ m \in 1..Len(tags) /\ n \in 1..Len(tags)
  BY <1>1
<1>3. buffer[n].index = tags[m].index
  BY DEF Finds, IsFirst, Numbered, NumberOf, Numbering
<1>4. buffer[n].index = tags[n].index
  BY <1>2 DEF Matches, Fits
<1>5. ~(n < m) /\ ~(m < n)
  <2>1. n < m => tags[n].index < tags[m].index
    BY <1>2 DEF Matches, Fits
  <2>2. m < n => tags[m].index < tags[n].index
    BY <1>2 DEF Matches, Fits
  <2>3. tags[m].index \in Nat
    BY ONLY <1>1, <1>2 DEF TagEntry
  <2> QED BY ONLY <1>3, <1>4, <2>1, <2>2, <2>3
<1> QED BY ONLY <1>1, <1>2, <1>5

LEMMA RemoveMatch ==
  ASSUME Numbering, Base, Matches, NEW t \in Tags, RemoveTag(t)
  PROVE  /\ Matches'
         /\ \E m \in 1..Len(buffer) : Removes(buffer', buffer, m) /\ Removes(tags', tags, m)
<1>1. PICK m \in DOMAIN tags, n \in DOMAIN buffer :
        Finds(t, m, n) /\ buffer' = RemoveAt(buffer, n) /\ tags' = RemoveAt(tags, m)
  BY DEF RemoveTag
<1>2. n = m
  BY <1>1, FindsSame
<1>3. tags \in Seq(TagEntry) /\ m \in 1..Len(tags) /\ buffer \in Seq(BufferEntry) /\ m \in 1..Len(buffer)
  BY <1>2 DEF Base, TypeOK
<1>4. Removes(tags', tags, m)
  BY ONLY <1>1, <1>3, RemoveAtRemoves
<1>5. Removes(buffer', buffer, m)
  BY ONLY <1>1, <1>2, <1>3, RemoveAtRemoves
<1>6. /\ Len(tags) \in Nat /\ Len(buffer) \in 0..Len(tags)
      /\ Len(tags') = Len(tags) - 1 /\ Len(buffer') = Len(buffer) - 1
  BY <1>4, <1>5 DEF Removes, Matches, Fits, Prefix
<1>7. indexes' = indexes /\ removed' = TRUE
  BY DEF RemoveTag
<1>8. ASSUME NEW i \in 1..Len(tags')
      PROVE  From(i, m) \in 1..Len(tags) /\ tags'[i] = tags[From(i, m)]
  BY ONLY <1>4, RemovesFrom
<1>9. Prefix(tags', Len(buffer'))
  <2>1. Prefix(tags', IF m <= Len(buffer) THEN Len(buffer) - 1 ELSE Len(buffer))
    BY <1>4, RemovePrefix DEF Matches, Fits
  <2> QED BY <1>3, <1>6, <2>1
<1>10. ASSUME NEW i \in 1..Len(buffer')
       PROVE  /\ buffer'[i].name = tags'[i].name /\ buffer'[i].index = tags'[i].index
              /\ buffer'[i].batch = tags'[i].batchID
  <2>1. From(i, m) \in 1..Len(buffer) /\ buffer'[i] = buffer[From(i, m)]
    BY ONLY <1>5, RemovesFrom
  <2>2. i \in 1..Len(tags')
    BY ONLY <1>6
  <2>3. tags'[i] = tags[From(i, m)]
    BY ONLY <1>8, <2>2
  <2>4. LET j == From(i, m)
        IN  buffer[j].name = tags[j].name /\ buffer[j].index = tags[j].index /\ buffer[j].batch = tags[j].batchID
    BY <2>1 DEF Matches, Fits
  <2> QED BY ONLY <2>1, <2>3, <2>4
<1>11. ASSUME NEW i \in (Len(buffer') + 1)..Len(tags') PROVE tags'[i].index = indexes + (i - Len(buffer'))
  <2>1. i \in 1..Len(tags') /\ i + 1 \in (Len(buffer) + 1)..Len(tags) /\ ~(i < m)
        /\ (i + 1) - Len(buffer) = i - Len(buffer')
    BY ONLY <1>3, <1>6
  <2>2. tags'[i] = tags[i + 1]
    BY ONLY <1>8, <2>1 DEF From
  <2>3. tags[i + 1].index = indexes + ((i + 1) - Len(buffer))
    BY <2>1 DEF Matches, Fits
  <2> QED BY ONLY <2>1, <2>2, <2>3
<1>12. ASSUME NEW i \in 1..Len(tags'), NEW j \in 1..Len(tags'), i < j
       PROVE  tags'[i].index < tags'[j].index
  <2>1. From(i, m) < From(j, m)
    BY ONLY <1>3, <1>6, <1>12 DEF From
  <2>2. tags[From(i, m)].index < tags[From(j, m)].index
    BY <1>8, <2>1 DEF Matches, Fits
  <2> QED BY ONLY <1>8, <2>2
<1>13. Fits(tags', buffer', indexes')
  BY ONLY <1>7, <1>9, <1>10, <1>11, <1>12 DEF Fits
<1>14. Matches'
  BY ONLY <1>7, <1>13 DEF Matches
<1> QED BY ONLY <1>3, <1>4, <1>5, <1>14

LEMMA NextMatch ==
  ASSUME Numbering, MatchInv, [Next]_vars
  PROVE  MatchInv'
<1> USE DEF MatchInv
<1>1. Base /\ Base' /\ Counted
  BY NextBase DEF Numbering
<1> SUFFICES ASSUME created', lost' = 0 PROVE Matches'
  BY <1>1
<1>2. lost \in Nat
  BY <1>1, DataTableAssumption DEF Base, TypeOK
<1>3. ASSUME UNCHANGED <<created, tags, buffer, indexes, removed, lost>> PROVE Matches'
  BY <1>3 DEF Matches
<1>4. ASSUME NEW t \in Tags, AddTag(t) PROVE Matches'
  <2>1. Extend(<<t>>) /\ UNCHANGED <<created, controller, removed, lost>>
    BY <1>4 DEF AddTag
  <2>2. <<t>> \in Seq(Tags) /\ Matches
    BY <2>1
  <2> QED BY <1>1, <2>1, <2>2, ExtendMatch
<1>5. ASSUME NEW S \in SUBSET Tags, AddTags(S) \/ AddTagGroup(S) PROVE Matches'
  <2>1. PICK names \in SetToSeqs(S) : Extend(names)
    BY <1>5 DEF AddTags, AddTagGroup
  <2>2. names \in Seq(Tags)
    BY NamesAre
  <2>3. UNCHANGED <<created, controller, removed, lost>>
    BY <1>5 DEF AddTags, AddTagGroup
  <2> QED BY <1>1, <2>1, <2>2, <2>3, ExtendMatch
<1>6. ASSUME NEW S \in SUBSET Tags, AddTagGroupFails(S) PROVE Matches'
  BY <1>3, <1>6 DEF AddTagGroupFails, controller
<1>7. ASSUME Sync, UNCHANGED <<removed, lost>> PROVE Matches'
  BY <1>1, <1>7, SyncMatch DEF Sync
<1>8. CASE SyncTags
  BY <1>7, <1>8 DEF SyncTags
<1>9. CASE ReadAll \/ ReadAllRaw
  BY <1>3, <1>7, <1>9 DEF ReadAll, ReadAllRaw, Read, list, controller
<1>10. ASSUME NEW t \in Tags, RemoveTag(t) PROVE Matches'
  BY <1>1, <1>10, RemoveMatch DEF RemoveTag
<1>11. ASSUME NEW t \in Tags PROVE ~RemoveTagFails(t)
  BY <1>2 DEF RemoveTagFails
<1>12. ~SyncTagsFails /\ ~Close /\ ~CloseFails
  BY <1>2 DEF SyncTagsFails, Close, CloseFails
<1>13. CASE UNCHANGED vars
  BY <1>3, <1>13 DEF vars, list, controller
<1> QED
  BY <1>4, <1>5, <1>6, <1>8, <1>9, <1>10, <1>11, <1>12, <1>13 DEF Next

LEMMA MatchBuffer ==
  ASSUME MatchInv
  PROVE  BufferMatches
<1> DEFINE k == Len(buffer)
           kn == SubSeq(tags, 1, k)
           R(i) == [name |-> kn[i].name, index |-> kn[i].index, batch |-> kn[i].batchID]
<1> SUFFICES ASSUME created, lost = 0
             PROVE  buffer = [i \in DOMAIN Known |->
                       [name |-> Known[i].name, index |-> Known[i].index, batch |-> Known[i].batchID]]
  BY DEF BufferMatches
<1>1. Fits(tags, buffer, indexes)
  BY DEF MatchInv, Matches
<1>2. tags \in Seq(TagEntry) /\ buffer \in Seq(BufferEntry) /\ Prefix(tags, k) /\ k \in 0..Len(tags)
  BY <1>1 DEF MatchInv, Base, TypeOK, Fits, Prefix
<1>3. Known = kn
  BY <1>2, HeldIs, PrefixParts
<1>4. Parts(tags, k, kn, SubSeq(tags, k + 1, Len(tags)))
  BY ONLY <1>2, PartsAre
<1> HIDE DEF kn
<1>5. kn \in Seq(TagEntry) /\ Len(kn) = k /\ \A i \in 1..k : kn[i] = tags[i]
  BY ONLY <1>4 DEF Parts
<1>6. DOMAIN kn = 1..k
  BY ONLY <1>5
<1>7. DOMAIN buffer = 1..k /\ buffer = [i \in 1..k |-> buffer[i]]
  BY <1>2
<1>8. ASSUME NEW i \in 1..k PROVE buffer[i] = R(i)
  <2>1. buffer[i] \in BufferEntry
    BY <1>2
  <2>2. buffer[i] = [name |-> buffer[i].name, index |-> buffer[i].index, batch |-> buffer[i].batch]
    BY ONLY <2>1 DEF BufferEntry
  <2>3. buffer[i].name = tags[i].name /\ buffer[i].index = tags[i].index /\ buffer[i].batch = tags[i].batchID
    BY <1>1 DEF Fits
  <2> QED BY ONLY <1>5, <2>2, <2>3
<1>9. buffer = [i \in 1..k |-> R(i)]
  BY ONLY <1>7, <1>8
<1> QED BY ONLY <1>3, <1>6, <1>9

(* If the controller never renumbers its tags, and none is added after one  *)
(* is removed, then until a reply is lost the controller's buffer is the    *)
(* synched part of the list, in its order and with its indexes and batches. *)
THEOREM BufferAsListed == ASSUME Numbering PROVE Spec => []BufferMatches
<1>1. MatchInv /\ [Next]_vars => MatchInv'
  BY NextMatch
<1>2. MatchInv => BufferMatches
  BY MatchBuffer
<1> QED BY <1>1, <1>2, InitMatch, PTL DEF Spec

-----------------------------------------------------------------------------
(* How often a name is in a sequence.                                       *)

At(s, t) == {i \in DOMAIN s : s[i].name = t}

LEMMA AtFinite ==
  ASSUME NEW s, NEW t, DOMAIN s = 1..Len(s), Len(s) \in Nat
  PROVE  /\ IsFiniteSet(At(s, t)) /\ Cardinality(At(s, t)) \in Nat /\ At(s, t) \subseteq 1..Len(s)
         /\ Named(s, t) = Cardinality(At(s, t))
<1>1. IsFiniteSet(1..Len(s)) /\ At(s, t) \in SUBSET (1..Len(s))
  BY FS_Interval DEF At
<1>2. IsFiniteSet(At(s, t))
  BY ONLY <1>1, FS_Subset
<1>3. Cardinality(At(s, t)) \in Nat
  BY ONLY <1>2, FS_CardinalityType
<1> QED BY <1>1, <1>2, <1>3 DEF Named, At

LEMMA NamedJoins ==
  ASSUME NEW w, NEW s, NEW u, NEW t, Joins(w, s, u)
  PROVE  ~(Named(w, t) < Named(s, t))
<1>1. DOMAIN s = 1..Len(s) /\ DOMAIN w = 1..Len(w) /\ Len(s) \in Nat /\ Len(w) \in Nat
  BY DEF Joins
<1>2. /\ IsFiniteSet(At(w, t)) /\ Cardinality(At(w, t)) \in Nat
      /\ Cardinality(At(s, t)) \in Nat
      /\ Named(s, t) = Cardinality(At(s, t)) /\ Named(w, t) = Cardinality(At(w, t))
  BY <1>1, AtFinite
<1>3. At(s, t) \in SUBSET At(w, t)
  BY <1>1 DEF At, Joins
<1>4. Cardinality(At(s, t)) <= Cardinality(At(w, t))
  BY ONLY <1>2, <1>3, FS_Subset
<1> QED BY ONLY <1>2, <1>4

(* A name that is taken out is there less often, another as often. *)
LEMMA NamedRemoves ==
  ASSUME NEW r, NEW s, NEW n, NEW t, Removes(r, s, n)
  PROVE  IF s[n].name = t THEN Named(r, t) < Named(s, t) ELSE ~(Named(r, t) < Named(s, t))
<1>1. /\ DOMAIN s = 1..Len(s) /\ DOMAIN r = 1..Len(r) /\ Len(s) \in Nat /\ Len(r) \in Nat
      /\ n \in 1..Len(s) /\ Len(r) = Len(s) - 1
  BY DEF Removes
<1> DEFINE P == At(s, t)
           Q == At(r, t)
<1>2. /\ IsFiniteSet(P) /\ Cardinality(P) \in Nat /\ P \subseteq 1..Len(s) /\ Named(s, t) = Cardinality(P)
      /\ IsFiniteSet(Q) /\ Cardinality(Q) \in Nat /\ Q \subseteq 1..Len(r) /\ Named(r, t) = Cardinality(Q)
  BY <1>1, AtFinite
<1>3. ASSUME s[n].name = t PROVE Named(r, t) < Named(s, t)
  <2> DEFINE f == [i \in Q |-> From(i, n)]
  <2>1. ASSUME NEW i \in Q PROVE From(i, n) \in P \ {n}
    <3>1. i \in 1..Len(r) /\ r[i].name = t
      BY <1>2 DEF At
    <3>2. From(i, n) \in 1..Len(s) /\ From(i, n) # n /\ r[i] = s[From(i, n)]
      BY ONLY <3>1, Removes(r, s, n), RemovesFrom
    <3> QED BY <1>1, <3>1, <3>2 DEF At
  <2>2. ASSUME NEW i \in Q, NEW j \in Q, From(i, n) = From(j, n) PROVE i = j
    BY <1>1, <1>2, <2>2 DEF From
  <2> HIDE DEF P, Q
  <2>3. f \in [Q -> P \ {n}] /\ \A i, j \in Q : f[i] = f[j] => i = j
    BY ONLY <2>1, <2>2
  <2> HIDE DEF f
  <2>4. f \in Injection(Q, P \ {n})
    BY ONLY <2>3 DEF Injection, IsInjective
  <2>5. IsFiniteSet(P \ {n}) /\ Cardinality(P \ {n}) = Cardinality(P) - 1
    <3>1. n \in P
      BY <1>1, <1>3 DEF P, At
    <3> QED BY ONLY <1>2, <3>1, FS_RemoveElement
  <2>6. Cardinality(Q) <= Cardinality(P \ {n})
    BY ONLY <2>4, <2>5, FS_Injection
  <2> QED BY ONLY <1>2, <2>5, <2>6
<1>4. ASSUME s[n].name # t PROVE ~(Named(r, t) < Named(s, t))
  <2> DEFINE To(i) == IF i < n THEN i ELSE i - 1
             f == [i \in P |-> To(i)]
  <2>1. ASSUME NEW i \in P PROVE To(i) \in Q
    <3>1. i \in 1..Len(s) /\ s[i].name = t /\ i # n
      BY <1>2, <1>4 DEF At
    <3>2. To(i) \in 1..Len(r) /\ From(To(i), n) = i
      BY <1>1, <3>1 DEF From
    <3> HIDE DEF To
    <3>3. r[To(i)] = s[From(To(i), n)]
      BY ONLY <3>2, Removes(r, s, n), RemovesFrom
    <3> QED BY <1>1, <3>1, <3>2, <3>3 DEF At
  <2>2. ASSUME NEW i \in P, NEW j \in P, To(i) = To(j) PROVE i = j
    <3>1. i \in 1..Len(s) /\ j \in 1..Len(s) /\ i # n /\ j # n
      BY <1>2, <1>4 DEF At
    <3> QED BY <1>1, <2>2, <3>1
  <2> HIDE DEF P, Q, To
  <2>3. f \in [P -> Q] /\ \A i, j \in P : f[i] = f[j] => i = j
    BY ONLY <2>1, <2>2
  <2> HIDE DEF f
  <2>4. f \in Injection(P, Q)
    BY ONLY <2>3 DEF Injection, IsInjective
  <2>5. Cardinality(P) <= Cardinality(Q)
    BY ONLY <1>2, <2>4, FS_Injection
  <2> QED BY ONLY <1>2, <2>5
<1> QED BY ONLY <1>3, <1>4

LEMMA StepRemovesOwn ==
  ASSUME Numbering, MatchInv, Next, NEW t \in Tags, lost' = 0, allocated',
         Named(buffer', t) < Named(buffer, t)
  PROVE  Named(tags', t) < Named(tags, t)
<1>1. Base /\ lost \in Nat /\ buffer \in Seq(BufferEntry)
  BY DataTableAssumption DEF MatchInv, Base, TypeOK
<1>2. ~(Named(buffer, t) < Named(buffer, t))
  <2>1. Len(buffer) \in Nat /\ DOMAIN buffer = 1..Len(buffer)
    BY <1>1
  <2>2. Named(buffer, t) \in Nat
    BY <2>1, AtFinite
  <2> QED BY ONLY <2>2
<1>3. buffer' # buffer
  BY <1>2
<1>4. ~Store
  <2> SUFFICES ASSUME Store PROVE FALSE
    OBVIOUS
  <2>1. PICK k : Prefix(tags, k)
    BY <1>1 DEF Base, PrefixInv
  <2>2. Joins(buffer', buffer, Stored)
    BY <1>1, <2>1, StoreIs DEF Base, Numbering
  <2> QED BY <2>2, NamedJoins
<1>5. PICK u \in Tags : RemoveTag(u)
  <2>1. ~SyncTags /\ ~SyncTagsFails /\ ~ReadAll /\ ~ReadAllRaw
    BY <1>3, <1>4 DEF SyncTags, SyncTagsFails, ReadAll, ReadAllRaw, Read, Sync, controller
  <2>2. ~Close /\ ~CloseFails
    BY <1>3 DEF Close, CloseFails, controller
  <2>3. \A u \in Tags : ~AddTag(u) /\ ~RemoveTagFails(u)
    <3>1. ASSUME NEW u \in Tags, RemoveTagFails(u) PROVE FALSE
      <4>1. lost' = lost + 1
        BY <3>1 DEF RemoveTagFails
      <4> QED BY ONLY <1>1, <4>1, lost' = 0
    <3>2. ASSUME NEW u \in Tags, AddTag(u) PROVE FALSE
      BY <1>3, <3>2 DEF AddTag, controller
    <3> QED BY <3>1, <3>2
  <2>4. \A S \in SUBSET Tags : ~AddTags(S) /\ ~AddTagGroup(S) /\ ~AddTagGroupFails(S)
    BY <1>3 DEF AddTags, AddTagGroup, AddTagGroupFails, controller
  <2> QED BY <2>1, <2>2, <2>3, <2>4 DEF Next
<1>6. Matches
  BY <1>5 DEF RemoveTag, MatchInv
<1>7. PICK m \in 1..Len(buffer) : Removes(buffer', buffer, m) /\ Removes(tags', tags, m)
  BY <1>1, <1>5, <1>6, RemoveMatch
<1>8. buffer[m].name = t
  BY ONLY <1>7, Named(buffer', t) < Named(buffer, t), NamedRemoves
<1>9. tags[m].name = t
  BY <1>6, <1>8 DEF Matches, Fits
<1> QED BY ONLY <1>7, <1>9, NamedRemoves

(* Under the same conditions RemoveTag takes off the controller's buffer    *)
(* the tag it takes off the list, and no other.                             *)
THEOREM RemovedIsOwn == ASSUME Numbering PROVE Spec => RemovesOwn
<1>1. MatchInv /\ [Next]_vars => MatchInv'
  BY NextMatch
<1>2. MatchInv /\ [Next]_vars =>
        [\A t \in Tags : lost' = 0 /\ allocated' /\ Named(buffer', t) < Named(buffer, t)
                           => Named(tags', t) < Named(tags, t)]_vars
  BY StepRemovesOwn
<1> QED BY <1>1, <1>2, InitMatch, PTL DEF Spec, RemovesOwn

-----------------------------------------------------------------------------
(* What ReadAll makes of the controller's answer.                           *)

Octet == (Nat \cup Tags) \X Nat

(* How long the headers before entry n are when no batch is empty. *)
Lead(es, n) == IF es[n].batch = Before(es, n) THEN 0 ELSE 2

(* No batch is empty that others follow. *)
Follows(es) == \A i \in DOMAIN es : es[i].batch \in {Before(es, i), Before(es, i) + 1}

LEMMA HeadersAre ==
  ASSUME NEW a \in Nat, NEW b \in Nat
  PROVE  /\ Headers(a, b) \in Seq(Octet)
         /\ b = a => Len(Headers(a, b)) = 0
         /\ b = a + 1 => Len(Headers(a, b)) = 2
<1> DEFINE n == IF b < a THEN 0 ELSE 2 * (b - a)
           f == Headers(a, b)
<1>1. n \in Nat /\ 1..(2 * (b - a)) = 1..n
  <2>1. CASE b < a
    <3>1. 1..(2 * (b - a)) = {} /\ 1..0 = {}
      BY ONLY <2>1, a \in Nat, b \in Nat
    <3> QED BY ONLY <2>1, <3>1
  <2>2. CASE ~(b < a)
    BY <2>2
  <2> QED BY ONLY <2>1, <2>2
<1>2. ASSUME NEW k \in 1..n PROVE <<a + (k + 1) \div 2, k % 2>> \in Octet
  <2>1. k \in Nat
    BY ONLY <1>1
  <2>2. a + ((k + 1) \div 2) \in Nat /\ k % 2 \in Nat
    BY ONLY <2>1, a \in Nat
  <2> QED BY ONLY <2>2 DEF Octet
<1>3. f = [k \in 1..n |-> <<a + (k + 1) \div 2, k % 2>>]
  BY ONLY <1>1 DEF Headers
<1> HIDE DEF n, f
<1>4. f \in [1..n -> Octet]
  BY ONLY <1>2, <1>3
<1>5. f \in Seq(Octet) /\ Len(f) = n
  BY ONLY <1>1, <1>4, FcnSeq
<1>6. (b = a => n = 0) /\ (b = a + 1 => n = 2)
  BY DEF n
<1> QED BY ONLY <1>5, <1>6 DEF f

LEMMA BytesAre ==
  ASSUME NEW t \in Tags
  PROVE  /\ Size[t] \in Nat /\ Bytes(t) \in Seq(Octet) /\ Len(Bytes(t)) = Size[t]
         /\ \A k \in 1..Size[t] : Bytes(t)[k] = <<t, k>>
<1>1. Size[t] \in Nat
  BY DataTableAssumption
<1>2. Bytes(t) \in [1..Size[t] -> Octet]
  BY <1>1 DEF Bytes, Octet
<1>3. Bytes(t) \in Seq(Octet) /\ Len(Bytes(t)) = Size[t]
  BY ONLY <1>1, <1>2, FcnSeq
<1> QED BY <1>1, <1>3 DEF Bytes

LEMMA BeforeIs ==
  ASSUME NEW es \in Seq(BufferEntry), NEW n \in 1..(Len(es) + 1)
  PROVE  Before(es, n) \in Nat
<1>1. Len(es) \in Nat
  OBVIOUS
<1>2. CASE n = 1
  BY ONLY <1>2 DEF Before
<1>3. CASE n # 1
  <2>1. n - 1 \in 1..Len(es)
    BY ONLY <1>1, <1>3, n \in 1..(Len(es) + 1)
  <2>2. es[n - 1] \in BufferEntry
    BY ONLY <2>1, es \in Seq(BufferEntry)
  <2>3. es[n - 1].batch \in Nat
    BY ONLY <2>2 DEF BufferEntry
  <2> QED BY ONLY <1>3, <2>3 DEF Before
<1> QED BY ONLY <1>2, <1>3

LEMMA EntryIs ==
  ASSUME NEW es \in Seq(BufferEntry), NEW n \in 1..Len(es), Follows(es)
  PROVE  /\ Entry(es, n) \in Seq(Octet) /\ Lead(es, n) \in {0, 2}
         /\ Len(Entry(es, n)) = Lead(es, n) + Size[es[n].name]
         /\ \A k \in 1..Size[es[n].name] : Entry(es, n)[Lead(es, n) + k] = <<es[n].name, k>>
<1> DEFINE t == es[n].name
           p == Before(es, n)
           h == Headers(p, es[n].batch)
           b == Bytes(t)
           w == h \o b
<1>1. t \in Tags /\ es[n].batch \in Nat
  <2>1. es[n] \in BufferEntry
    OBVIOUS
  <2> QED BY ONLY <2>1 DEF BufferEntry
<1>2. /\ Size[t] \in Nat /\ b \in Seq(Octet) /\ Len(b) = Size[t]
      /\ \A k \in 1..Size[t] : b[k] = <<t, k>>
  BY <1>1, BytesAre
<1>3. p \in Nat
  BY BeforeIs
<1>4. es[n].batch = p \/ es[n].batch = p + 1
  BY DEF Follows
<1>5. h \in Seq(Octet) /\ Len(h) = Lead(es, n) /\ Lead(es, n) \in {0, 2}
  <2>1. /\ h \in Seq(Octet)
        /\ es[n].batch = p => Len(h) = 0
        /\ es[n].batch = p + 1 => Len(h) = 2
    BY ONLY <1>1, <1>3, HeadersAre
  <2>2. Lead(es, n) = IF es[n].batch = p THEN 0 ELSE 2
    BY ONLY DEF Lead
  <2> HIDE DEF h, p
  <2> QED BY ONLY <1>3, <1>4, <2>1, <2>2
<1>6. Entry(es, n) = w
  BY DEF Entry
<1> HIDE DEF t, h, b
<1>7. w \in Seq(Octet) /\ Joins(w, h, b)
  BY ONLY <1>2, <1>5, ConcatJoins
<1> HIDE DEF w
<1>8. Len(w) = Len(h) + Len(b) /\ \A k \in 1..Len(b) : w[Len(h) + k] = b[k]
  BY ONLY <1>7 DEF Joins
<1>9. Len(w) = Lead(es, n) + Size[t] /\ \A k \in 1..Size[t] : w[Lead(es, n) + k] = <<t, k>>
  BY ONLY <1>2, <1>5, <1>8
<1> QED BY ONLY <1>5, <1>6, <1>7, <1>9 DEF t

(* u is the answer for each initial part of the buffer. *)
Responds(u, es) ==
  /\ u \in [0..Len(es) -> Seq(Octet)]
  /\ u[0] = <<>>
  /\ \A n \in 1..Len(es) : u[n] = u[n - 1] \o Entry(es, n)

(* data starts with x. *)
Starts(data, x) ==
  data \in Seq(Octet) /\ Len(x) <= Len(data) /\ \A i \in 1..Len(x) : data[i] = x[i]

LEMMA ResponseResponds ==
  ASSUME NEW es \in Seq(BufferEntry), Follows(es), NEW last \in Nat
  PROVE  \E u : Responds(u, es) /\ Starts(Response(es, last), u[Len(es)])
<1> DEFINE A(n, x) == x \o Entry(es, n)
           l == Len(es)
           step == [n \in 1..l |-> [x \in Seq(Octet) |-> A(n, x)]]
           F(g) == [n \in 0..l |-> IF n = 0 THEN <<>> ELSE A(n, g[n - 1])]
           u == CHOOSE g : g = F(g)
           tail == Headers(Before(es, l + 1), last)
           K == {n \in 0..l : u[n] \in Seq(Octet)}
<1>1. l \in Nat /\ <<>> \in Seq(Octet)
  OBVIOUS
<1>2. ASSUME NEW n \in 1..l, NEW x \in Seq(Octet) PROVE A(n, x) \in Seq(Octet)
  <2>1. Entry(es, n) \in Seq(Octet)
    BY EntryIs
  <2> QED BY ONLY <2>1, ConcatJoins
<1>3. Response(es, last) = u[l] \o tail
  BY DEF Response
<1>11. tail \in Seq(Octet)
  <2>1. l + 1 \in 1..(Len(es) + 1)
    BY <1>1
  <2>2. Before(es, l + 1) \in Nat
    BY ONLY <2>1, es \in Seq(BufferEntry), BeforeIs
  <2> QED BY ONLY <2>2, last \in Nat, HeadersAre
<1> HIDE DEF A, l, tail
<1>4. PICK g \in [0..l -> Seq(Octet)] : Steps(g, l, <<>>, step)
  <2>1. step \in [1..l -> [Seq(Octet) -> Seq(Octet)]]
    BY <1>2
  <2> HIDE DEF step
  <2> QED BY <1>1, <2>1, Recursion
<1>5. g = F(g)
  <2>1. \A n \in 1..l : g[n - 1] \in Seq(Octet)
    BY <1>1
  <2>2. \A n \in 1..l : g[n] = A(n, g[n - 1])
    BY <1>4, <2>1 DEF Steps
  <2>3. \A n \in 0..l : g[n] = IF n = 0 THEN <<>> ELSE A(n, g[n - 1])
    BY <1>1, <1>4, <2>2 DEF Steps
  <2> QED BY <2>3
<1>6. u = F(u)
  BY <1>5
<1> HIDE DEF u
<1>7. u[0] = <<>> /\ \A n \in 1..l : u[n] = A(n, u[n - 1])
  BY <1>1, <1>6
<1>8. \A n \in 0..l : n \in K
  <2>1. 0 \in K
    <3>1. 0 \in 0..l
      BY <1>1
    <3>2. u[0] \in Seq(Octet)
      BY ONLY <1>1, <1>7
    <3> QED BY <3>1, <3>2
  <2>2. ASSUME NEW n \in 1..l, n - 1 \in K PROVE n \in K
    <3>1. u[n - 1] \in Seq(Octet) /\ u[n] = A(n, u[n - 1])
      BY <1>7, <2>2
    <3>2. u[n] \in Seq(Octet) /\ n \in 0..l
      BY <1>1, <1>2, <3>1
    <3> QED BY <3>2
  <2> HIDE DEF K
  <2> QED BY <1>1, <2>1, <2>2, InductTo
<1>9. u = [n \in 0..l |-> u[n]]
  BY <1>6
<1>10. u \in [0..l -> Seq(Octet)]
  BY <1>8, <1>9
<1>12. Starts(u[l] \o tail, u[l])
  <2>1. u[l] \in Seq(Octet)
    BY ONLY <1>1, <1>10
  <2>2. u[l] \o tail \in Seq(Octet) /\ Joins(u[l] \o tail, u[l], tail)
    BY ONLY <1>11, <2>1, ConcatJoins
  <2> QED BY ONLY <2>2 DEF Starts, Joins
<1>13. Responds(u, es)
  BY <1>7, <1>10 DEF Responds, A, l
<1> QED BY ONLY <1>3, <1>12, <1>13 DEF l

(* Entry n stands in the whole answer behind the entries before it. *)
LEMMA ResponseHas ==
  ASSUME NEW es \in Seq(BufferEntry), Follows(es), NEW u, Responds(u, es), NEW n \in 1..Len(es)
  PROVE  /\ Len(u[n - 1]) \in Nat /\ Len(u[n]) = Len(u[n - 1]) + Len(Entry(es, n))
         /\ u[Len(es)] \in Seq(Octet) /\ Len(u[n]) <= Len(u[Len(es)])
         /\ \A j \in 1..Len(Entry(es, n)) : u[Len(es)][Len(u[n - 1]) + j] = Entry(es, n)[j]
<1> DEFINE l == Len(es)
           K == {m \in 0..l : n <= m => Len(u[n]) <= Len(u[m]) /\ \A i \in 1..Len(u[n]) : u[m][i] = u[n][i]}
<1>1. l \in Nat /\ n \in 1..l
  OBVIOUS
<1>2. ASSUME NEW m \in 0..l PROVE u[m] \in Seq(Octet) /\ Len(u[m]) \in Nat
  <2>1. u[m] \in Seq(Octet)
    BY DEF Responds
  <2> QED BY ONLY <2>1
<1>3. ASSUME NEW m \in 1..l
      PROVE  Joins(u[m], u[m - 1], Entry(es, m)) /\ m - 1 \in 0..l /\ Len(u[m - 1]) \in Nat
  <2>1. m - 1 \in 0..l /\ Entry(es, m) \in Seq(Octet)
    BY <1>1, EntryIs
  <2>2. u[m - 1] \in Seq(Octet) /\ Len(u[m - 1]) \in Nat
    BY ONLY <1>2, <2>1
  <2>3. u[m] = u[m - 1] \o Entry(es, m)
    BY DEF Responds
  <2>4. Joins(u[m - 1] \o Entry(es, m), u[m - 1], Entry(es, m))
    BY ONLY <2>1, <2>2, ConcatJoins
  <2> QED BY ONLY <2>1, <2>2, <2>3, <2>4
<1> HIDE DEF l
<1>4. 0 \in K
  BY <1>1
<1>5. ASSUME NEW m \in 1..l, m - 1 \in K PROVE m \in K
  <2> SUFFICES ASSUME n <= m
               PROVE  Len(u[n]) <= Len(u[m]) /\ \A i \in 1..Len(u[n]) : u[m][i] = u[n][i]
    BY <1>1
  <2>1. n \in 0..l /\ m \in 0..l
    BY ONLY <1>1
  <2>2. Len(u[n]) \in Nat /\ Len(u[m]) \in Nat
    BY ONLY <1>2, <2>1
  <2>3. CASE m = n
    BY ONLY <2>2, <2>3
  <2>4. CASE m # n
    <3>1. n <= m - 1
      BY ONLY <1>1, <2>4, n <= m
    <3>2. Len(u[n]) <= Len(u[m - 1]) /\ \A i \in 1..Len(u[n]) : u[m - 1][i] = u[n][i]
      BY <1>5, <3>1
    <3>3. /\ Len(u[m]) = Len(u[m - 1]) + Len(Entry(es, m)) /\ Len(Entry(es, m)) \in Nat
          /\ \A i \in 1..Len(u[m - 1]) : u[m][i] = u[m - 1][i]
      BY ONLY <1>3 DEF Joins
    <3>4. Len(u[m - 1]) \in Nat
      BY ONLY <1>3
    <3> QED BY ONLY <2>2, <3>2, <3>3, <3>4
  <2> QED BY ONLY <2>3, <2>4
<1> HIDE DEF K
<1>6. \A m \in 0..l : m \in K
  BY ONLY <1>1, <1>4, <1>5, InductTo
<1>7. l \in 0..l /\ n <= l
  BY ONLY <1>1
<1>8. Len(u[n]) <= Len(u[l]) /\ \A i \in 1..Len(u[n]) : u[l][i] = u[n][i]
  <2>1. l \in K
    BY ONLY <1>6, <1>7
  <2> QED BY ONLY <1>7, <2>1 DEF K
<1>9. /\ Len(u[n - 1]) \in Nat /\ Len(Entry(es, n)) \in Nat /\ Len(u[n]) = Len(u[n - 1]) + Len(Entry(es, n))
      /\ \A j \in 1..Len(Entry(es, n)) : u[n][Len(u[n - 1]) + j] = Entry(es, n)[j]
  BY ONLY <1>1, <1>3 DEF Joins
<1>10. ASSUME NEW j \in 1..Len(Entry(es, n)) PROVE u[l][Len(u[n - 1]) + j] = Entry(es, n)[j]
  <2>1. Len(u[n - 1]) + j \in 1..Len(u[n])
    BY ONLY <1>9
  <2>2. u[l][Len(u[n - 1]) + j] = u[n][Len(u[n - 1]) + j]
    BY ONLY <1>8, <2>1
  <2> QED BY ONLY <1>9, <2>2
<1>11. u[l] \in Seq(Octet)
  BY ONLY <1>2, <1>7
<1> QED BY ONLY <1>8, <1>9, <1>10, <1>11 DEF l

(* Tags whose indexes grow are sorted. *)
Growing(ts) == \A i, j \in 1..Len(ts) : i < j => ts[i].index < ts[j].index

LEMMA SortedGrowing ==
  ASSUME NEW ts \in Seq(TagEntry), Growing(ts)
  PROVE  \A k \in 1..Len(ts) : Sorted(ts)[k] = ts[k]
<1>1. Len(ts) \in Nat /\ DOMAIN ts = 1..Len(ts)
  OBVIOUS
<1>2. ASSUME NEW i \in 1..Len(ts) PROVE ts[i].index \in Nat
  <2>1. ts[i] \in TagEntry
    OBVIOUS
  <2> QED BY ONLY <2>1 DEF TagEntry
<1>3. ASSUME NEW i \in 1..Len(ts) PROVE Rank(ts, i) = i
  <2> DEFINE B == {j \in DOMAIN ts : ts[j].index < ts[i].index \/ (ts[j].index = ts[i].index /\ j <= i)}
  <2>1. ASSUME NEW j \in 1..Len(ts) PROVE j \in B <=> j <= i
    <3>1. j < i => ts[j].index < ts[i].index
      BY DEF Growing
    <3>2. i < j => ts[i].index < ts[j].index
      BY DEF Growing
    <3>3. ts[i].index \in Nat /\ ts[j].index \in Nat
      BY ONLY <1>2
    <3>4. j \in B <=> ts[j].index < ts[i].index \/ (ts[j].index = ts[i].index /\ j <= i)
      BY ONLY <1>1
    <3>5. j < i \/ j = i \/ i < j
      BY ONLY <1>1
    <3>6. CASE j < i
      BY ONLY <1>1, <3>1, <3>4, <3>6
    <3>7. CASE j = i
      BY ONLY <1>1, <3>4, <3>7
    <3>8. CASE i < j
      BY ONLY <1>1, <3>2, <3>3, <3>4, <3>8
    <3> QED BY ONLY <3>5, <3>6, <3>7, <3>8
  <2>2. B = 1..i
    <3>1. B \subseteq 1..Len(ts)
      BY ONLY <1>1
    <3>2. 1..i \subseteq 1..Len(ts)
      BY ONLY <1>1
    <3>3. \A j \in 1..Len(ts) : j \in 1..i <=> j <= i
      BY ONLY <1>1
    <3> HIDE DEF B
    <3> QED BY ONLY <2>1, <3>1, <3>2, <3>3
  <2>3. Cardinality(1..i) = i
    BY ONLY <1>1, FS_Interval
  <2> QED BY ONLY <2>2, <2>3 DEF Rank
<1>4. ASSUME NEW k \in 1..Len(ts) PROVE Sorted(ts)[k] = ts[k]
  <2>1. Sorted(ts)[k] = ts[CHOOSE i \in DOMAIN ts : Rank(ts, i) = k]
    BY ONLY <1>1 DEF Sorted
  <2>2. (CHOOSE i \in DOMAIN ts : Rank(ts, i) = k) = k
    BY ONLY <1>1, <1>3
  <2> QED BY ONLY <2>1, <2>2
<1> QED BY ONLY <1>4

(* The values of the first n tags. *)
Values(ts, n) == IF n = 0 THEN <<>> ELSE [t \in {ts[i].name : i \in 1..n} |-> Bytes(t)]

(* What Parse has when it has read the first n tags of the answer u. *)
Reading(ts, u, n) ==
  [ok |-> TRUE, pos |-> Len(u[n]), batch |-> IF n = 0 THEN 0 ELSE ts[n].batchID, map |-> Values(ts, n)]

(* The buffer is the list, all of which is synched. *)
Agree(ts, es) ==
  /\ Len(es) = Len(ts)
  /\ \A i \in 1..Len(ts) : es[i].name = ts[i].name /\ es[i].batch = ts[i].batchID /\ ts[i].batchID > 0

LEMMA ValuesGrow ==
  ASSUME NEW ts \in Seq(TagEntry), NEW n \in 1..Len(ts), NEW v, v = Bytes(ts[n].name)
  PROVE  [t \in DOMAIN Values(ts, n - 1) \cup {ts[n].name} |->
            IF t = ts[n].name THEN v ELSE Values(ts, n - 1)[t]] = Values(ts, n)
<1> DEFINE N(k) == {ts[i].name : i \in 1..k}
<1>1. n \in Nat /\ n # 0 /\ Values(ts, n) = [t \in N(n) |-> Bytes(t)]
  BY DEF Values
<1>2. DOMAIN Values(ts, n - 1) \cup {ts[n].name} = N(n)
  <2>1. CASE n = 1
    <3>1. Values(ts, n - 1) = <<>> /\ DOMAIN <<>> = {}
      BY <2>1 DEF Values
    <3>2. N(n) = {ts[n].name}
      BY <2>1
    <3> QED BY ONLY <3>1, <3>2
  <2>2. CASE n # 1
    <3>1. Values(ts, n - 1) = [t \in N(n - 1) |-> Bytes(t)]
      BY <2>2 DEF Values
    <3>2. N(n) = N(n - 1) \cup {ts[n].name}
      <4>1. \A i : i \in 1..n <=> i \in 1..(n - 1) \/ i = n
        OBVIOUS
      <4> QED BY ONLY <4>1
    <3> QED BY ONLY <3>1, <3>2
  <2> QED BY ONLY <2>1, <2>2
<1>3. ASSUME NEW t \in N(n) PROVE (IF t = ts[n].name THEN v ELSE Values(ts, n - 1)[t]) = Bytes(t)
  <2>1. CASE t = ts[n].name
    BY <2>1
  <2>2. CASE t # ts[n].name
    <3>1. PICK i \in 1..n : t = ts[i].name
      OBVIOUS
    <3>2. i \in 1..(n - 1) /\ n - 1 # 0
      BY <2>2, <3>1
    <3>3. t \in N(n - 1)
      BY <3>1, <3>2
    <3>4. Values(ts, n - 1) = [x \in N(n - 1) |-> Bytes(x)]
      BY ONLY <3>2 DEF Values
    <3>5. Values(ts, n - 1)[t] = Bytes(t)
      BY ONLY <3>3, <3>4
    <3> QED BY ONLY <2>2, <3>5
  <2> QED BY ONLY <2>1, <2>2
<1> HIDE DEF N
<1> QED BY ONLY <1>1, <1>2, <1>3

LEMMA SubSeqIs ==
  ASSUME NEW E, NEW s \in Seq(E), NEW m, m + 1 \in 1..(Len(s) + 1), NEW n \in m..Len(s), m \in Nat
  PROVE  /\ SubSeq(s, m + 1, n) \in Seq(E) /\ Len(SubSeq(s, m + 1, n)) = n - m
         /\ \A k \in 1..(n - m) : SubSeq(s, m + 1, n)[k] = s[m + k]
OBVIOUS

(* The next tag takes its own bytes. *)
TakesNext(ts, u, data, raw, n) ==
  Take(Reading(ts, u, n - 1), ts[n], data, raw) = Reading(ts, u, n)

LEMMA TakesOwn ==
  ASSUME NEW ts \in Seq(TagEntry), NEW es \in Seq(BufferEntry), Agree(ts, es), Follows(es),
         NEW u, Responds(u, es), NEW data, Starts(data, u[Len(es)]), NEW n \in 1..Len(ts),
         NEW raw, Decodes(ts[n].name, raw)
  PROVE  TakesNext(ts, u, data, raw, n)
<1> DEFINE at == Reading(ts, u, n - 1)
           t == ts[n].name
           p == Len(u[n - 1])
           h == Lead(es, n)
           z == Size[t]
           start == ValueStart(at, ts[n])
           end == start + Size[ts[n].name]
<1>1. n \in 1..Len(es) /\ Len(es) = Len(ts) /\ Len(ts) \in Nat /\ ts[n] \in TagEntry
  BY DEF Agree
<1>2. es[n].name = t /\ es[n].batch = ts[n].batchID /\ ts[n].batchID > 0
  BY DEF Agree
<1>3. t \in Tags /\ z \in Nat
  <2>1. t \in Tags
    BY ONLY <1>1 DEF TagEntry
  <2> QED BY ONLY <2>1, BytesAre
<1>4. /\ Entry(es, n) \in Seq(Octet) /\ h \in {0, 2} /\ Len(Entry(es, n)) = h + z
      /\ \A k \in 1..z : Entry(es, n)[h + k] = <<t, k>>
  BY ONLY <1>1, <1>2, Follows(es), EntryIs
<1>5. /\ p \in Nat /\ Len(u[n]) = p + Len(Entry(es, n)) /\ data \in Seq(Octet) /\ Len(u[n]) <= Len(data)
      /\ \A j \in 1..Len(Entry(es, n)) : data[p + j] = Entry(es, n)[j]
  <2> DEFINE x == u[Len(es)]
  <2>1. /\ p \in Nat /\ Len(u[n]) = p + Len(Entry(es, n)) /\ x \in Seq(Octet) /\ Len(u[n]) <= Len(x)
        /\ \A j \in 1..Len(Entry(es, n)) : x[p + j] = Entry(es, n)[j]
    BY <1>1, ResponseHas
  <2>2. data \in Seq(Octet) /\ Len(x) <= Len(data) /\ \A i \in 1..Len(x) : data[i] = x[i]
    BY DEF Starts
  <2> HIDE DEF x, p
  <2>3. Len(x) \in Nat /\ Len(data) \in Nat /\ Len(Entry(es, n)) \in Nat
    BY ONLY <1>4, <2>1, <2>2
  <2>4. ASSUME NEW j \in 1..Len(Entry(es, n)) PROVE data[p + j] = Entry(es, n)[j]
    <3>1. p + j \in 1..Len(x)
      BY ONLY <2>1, <2>3
    <3> QED BY ONLY <2>1, <2>2, <3>1
  <2>5. Len(u[n]) <= Len(data)
    BY ONLY <2>1, <2>2, <2>3
  <2> QED BY ONLY <2>1, <2>2, <2>4, <2>5
<1>6. at.ok = TRUE /\ at.pos = p /\ at.batch = (IF n - 1 = 0 THEN 0 ELSE ts[n - 1].batchID)
      /\ at.map = Values(ts, n - 1)
  BY DEF Reading
<1>7. start = p + h
  <2>1. at.batch = Before(es, n)
    <3>1. CASE n = 1
      <4>1. n - 1 = 0
        BY ONLY <3>1
      <4> QED BY ONLY <1>6, <3>1, <4>1 DEF Before
    <3>2. CASE n # 1
      <4>1. n - 1 \in 1..Len(ts) /\ n - 1 # 0
        BY <1>1, <3>2
      <4>2. es[n - 1].batch = ts[n - 1].batchID
        BY <4>1 DEF Agree
      <4> QED BY ONLY <1>6, <3>2, <4>1, <4>2 DEF Before
    <3> QED BY ONLY <3>1, <3>2
  <2>2. h = IF ts[n].batchID = at.batch THEN 0 ELSE 2
    BY ONLY <1>2, <2>1 DEF Lead
  <2>3. start = IF ts[n].batchID = at.batch THEN p ELSE p + 2
    BY ONLY <1>6 DEF ValueStart
  <2> HIDE DEF h, start, p, at
  <2> QED BY ONLY <1>5, <2>2, <2>3
<1> HIDE DEF at, h, p, z
<1>8. end = p + h + z /\ end = Len(u[n]) /\ end \in Nat /\ ~(end > Len(data)) /\ start \in Nat
  <2>1. end = start + z
    BY DEF z
  <2> HIDE DEF start, end
  <2>2. Len(data) \in Nat
    BY ONLY <1>5
  <2> QED BY ONLY <1>3, <1>4, <1>5, <1>7, <2>1, <2>2
<1>9. SubSeq(data, start + 1, end) = Bytes(t)
  <2> HIDE DEF start, end
  <2> DEFINE v == SubSeq(data, start + 1, end)
  <2>1. Len(data) \in Nat /\ start + 1 \in 1..(Len(data) + 1) /\ end \in start..Len(data)
    BY ONLY <1>3, <1>4, <1>5, <1>7, <1>8
  <2>2. v \in Seq(Octet) /\ Len(v) = end - start /\ \A k \in 1..(end - start) : v[k] = data[start + k]
    <3>1. data \in Seq(Octet) /\ start \in Nat
      BY ONLY <1>5, <1>8
    <3> QED BY ONLY <2>1, <3>1, SubSeqIs
  <2> HIDE DEF v
  <2>3. end - start = z
    BY ONLY <1>3, <1>4, <1>5, <1>7, <1>8
  <2>4. ASSUME NEW k \in 1..z PROVE v[k] = <<t, k>>
    <3>1. h + k \in 1..Len(Entry(es, n)) /\ start + k = p + (h + k)
      BY ONLY <1>3, <1>4, <1>5, <1>7
    <3>2. data[p + (h + k)] = Entry(es, n)[h + k]
      BY ONLY <1>5, <3>1
    <3> QED BY ONLY <1>4, <2>2, <2>3, <3>1, <3>2
  <2>5. Bytes(t) \in Seq(Octet) /\ Len(Bytes(t)) = z /\ \A k \in 1..z : Bytes(t)[k] = <<t, k>>
    BY ONLY <1>3, BytesAre DEF z
  <2>6. Len(v) = Len(Bytes(t)) /\ \A k \in 1..Len(v) : v[k] = Bytes(t)[k]
    BY ONLY <2>2, <2>3, <2>4, <2>5
  <2>7. v = Bytes(t)
    BY ONLY <2>2, <2>5, <2>6, SeqEqual
  <2> QED BY ONLY <2>7 DEF v
<1>10. Take(at, ts[n], data, raw) =
         [ok |-> TRUE, pos |-> end, batch |-> ts[n].batchID,
          map |-> [x \in DOMAIN at.map \cup {ts[n].name} |->
                     IF x = ts[n].name THEN SubSeq(data, start + 1, end) ELSE at.map[x]]]
  BY ONLY <1>6, <1>8, Decodes(ts[n].name, raw) DEF Take
<1>11. [x \in DOMAIN at.map \cup {ts[n].name} |->
          IF x = ts[n].name THEN SubSeq(data, start + 1, end) ELSE at.map[x]] = Values(ts, n)
  <2> DEFINE v == SubSeq(data, start + 1, end)
  <2>1. v = Bytes(ts[n].name)
    BY ONLY <1>9
  <2> HIDE DEF v
  <2>2. [x \in DOMAIN Values(ts, n - 1) \cup {ts[n].name} |->
            IF x = ts[n].name THEN v ELSE Values(ts, n - 1)[x]] = Values(ts, n)
    BY ONLY <2>1, ts \in Seq(TagEntry), n \in 1..Len(ts), ValuesGrow
  <2> QED BY ONLY <1>6, <2>2 DEF v
<1>12. Reading(ts, u, n) =
         [ok |-> TRUE, pos |-> Len(u[n]), batch |-> ts[n].batchID, map |-> Values(ts, n)]
  <2>1. n # 0
    BY <1>1
  <2> QED BY ONLY <2>1 DEF Reading
<1> QED BY ONLY <1>8, <1>10, <1>11, <1>12 DEF at, TakesNext

(* The tags that end a read. *)
Ends(ts, raw) == {i \in 1..Len(ts) : ~Decodes(ts[i].name, raw)}

(* What Parse has at the end: the values of all tags, or those of the tags  *)
(* before the first that does not decode.                                   *)
Reads(ts, raw, x) ==
  IF Ends(ts, raw) = {} THEN x = Result("read", Values(ts, Len(ts)))
  ELSE \E f \in Ends(ts, raw) : x = Result("error", Values(ts, f - 1))

LEMMA ParseOwn ==
  ASSUME NEW ts \in Seq(TagEntry), NEW es \in Seq(BufferEntry), Agree(ts, es), Growing(ts),
         Follows(es), NEW last \in Nat, NEW raw
  PROVE  Reads(ts, raw, Parse(ts, Response(es, last), raw))
<1> DEFINE data == Response(es, last)
           l == Len(ts)
           bad == Ends(ts, raw)
<1>1. PICK u : Responds(u, es) /\ Starts(data, u[Len(es)])
  BY ResponseResponds
<1>2. l \in Nat /\ bad \in SUBSET Nat /\ bad \subseteq 1..l
  BY DEF Ends
<1>3. PICK f : bad # {} => f \in bad /\ \A i \in bad : f <= i
  <2>1. CASE bad = {}
    BY <2>1
  <2>2. CASE bad # {}
    <3>1. \E x \in bad : \A y \in bad : x <= y
      BY ONLY <1>2, <2>2, Least
    <3> QED BY <3>1
  <2> QED BY <2>1, <2>2
<1> DEFINE a == [ok |-> TRUE, pos |-> 0, batch |-> 0, map |-> <<>>]
           stopped == [Reading(ts, u, f - 1) EXCEPT !.ok = FALSE]
           F(g) == [n \in 0..l |-> IF n = 0 THEN a ELSE Take(g[n - 1], Sorted(ts)[n], data, raw)]
           w == CHOOSE g : g = F(g)
           R(n) == IF \E i \in bad : i <= n THEN stopped ELSE Reading(ts, u, n)
           r == [n \in 0..l |-> R(n)]
           K == {n \in 0..l : w[n] = R(n)}
<1>4. \A n \in 1..l : Sorted(ts)[n] = ts[n]
  BY SortedGrowing
<1>5. ASSUME NEW n \in 1..l PROVE Take(R(n - 1), Sorted(ts)[n], data, raw) = R(n)
  <2>1. Sorted(ts)[n] = ts[n] /\ n - 1 \in Nat
    BY <1>4
  <2>2. CASE \E i \in bad : i <= n - 1
    <3>1. R(n - 1) = stopped /\ \E i \in bad : i <= n
      BY <1>2, <2>1, <2>2
    <3>2. R(n) = stopped /\ stopped.ok = FALSE
      BY <3>1 DEF Reading
    <3>3. Take(stopped, ts[n], data, raw) = [stopped EXCEPT !.ok = FALSE]
      BY ONLY <3>2 DEF Take
    <3>4. [stopped EXCEPT !.ok = FALSE] = stopped
      BY ONLY DEF Reading
    <3> QED BY ONLY <2>1, <3>1, <3>2, <3>3, <3>4
  <2>3. CASE ~(\E i \in bad : i <= n - 1) /\ n \in bad
    <3>1. R(n - 1) = Reading(ts, u, n - 1) /\ R(n) = stopped
      BY <1>2, <2>3
    <3>2. f = n
      BY <1>2, <1>3, <2>3
    <3>3. ~Decodes(ts[n].name, raw)
      BY <2>3 DEF Ends
    <3>4. Take(Reading(ts, u, n - 1), ts[n], data, raw) = [Reading(ts, u, n - 1) EXCEPT !.ok = FALSE]
      BY ONLY <3>3 DEF Take
    <3> QED BY ONLY <2>1, <3>1, <3>2, <3>4
  <2>4. CASE ~(\E i \in bad : i <= n - 1) /\ n \notin bad
    <3>1. ~\E i \in bad : i <= n
      <4> SUFFICES ASSUME NEW i \in bad, i <= n PROVE FALSE
        OBVIOUS
      <4>1. i \in Nat /\ i # n /\ ~(i <= n - 1)
        BY <1>2, <2>4
      <4> QED BY <2>1, <4>1
    <3>2. R(n - 1) = Reading(ts, u, n - 1) /\ R(n) = Reading(ts, u, n)
      BY <2>4, <3>1
    <3>3. Decodes(ts[n].name, raw)
      BY <2>4 DEF Ends
    <3>4. Take(Reading(ts, u, n - 1), ts[n], data, raw) = Reading(ts, u, n)
      <4>1. n \in 1..Len(ts)
        OBVIOUS
      <4> HIDE DEF data, l, R
      <4>2. Responds(u, es)
        BY ONLY <1>1
      <4>3. Starts(data, u[Len(es)])
        BY ONLY <1>1
      <4>4. TakesNext(ts, u, data, raw, n)
        BY ONLY <3>3, <4>1, <4>2, <4>3, Agree(ts, es), Follows(es), TakesOwn
      <4> QED BY ONLY <4>4 DEF TakesNext
    <3> QED BY ONLY <2>1, <3>2, <3>4
  <2> QED BY ONLY <2>2, <2>3, <2>4
<1>6. R(0) = a
  <2>1. Len(u[0]) = 0
    BY <1>1 DEF Responds
  <2>2. Reading(ts, u, 0) = a
    BY ONLY <2>1 DEF Reading, Values
  <2>3. ~\E i \in bad : i <= 0
    BY ONLY <1>2
  <2> QED BY ONLY <2>2, <2>3
<1>7. Parse(ts, data, raw) = Result(IF w[l].ok THEN "read" ELSE "error", w[l].map)
  BY ONLY DEF Parse
<1> HIDE DEF l, data, a, R
<1>8. r = F(r)
  <2>1. ASSUME NEW n \in 0..l PROVE r[n] = IF n = 0 THEN a ELSE Take(r[n - 1], Sorted(ts)[n], data, raw)
    <3>1. CASE n = 0
      BY <1>6, <3>1
    <3>2. CASE n # 0
      <4>1. n \in 1..l /\ n - 1 \in 0..l
        BY <1>2, <3>2
      <4>2. r[n - 1] = R(n - 1) /\ r[n] = R(n)
        BY <4>1
      <4> QED BY ONLY <1>5, <3>2, <4>1, <4>2
    <3> QED BY ONLY <3>1, <3>2
  <2> QED BY ONLY <2>1
<1>9. w = F(w)
  BY <1>8
<1> HIDE DEF w
<1>10. \A n \in 0..l : n \in K
  <2>1. 0 \in K
    <3>1. 0 \in 0..l
      BY ONLY <1>2
    <3>2. w[0] = a
      BY ONLY <1>9, <3>1
    <3> QED BY ONLY <1>6, <3>1, <3>2
  <2>2. ASSUME NEW n \in 1..l, n - 1 \in K PROVE n \in K
    <3>1. n \in 0..l /\ n # 0
      BY ONLY <1>2
    <3>2. w[n] = Take(w[n - 1], Sorted(ts)[n], data, raw)
      BY ONLY <1>9, <3>1
    <3>3. w[n - 1] = R(n - 1)
      BY ONLY <2>2
    <3> QED BY ONLY <1>5, <3>1, <3>2, <3>3
  <2> HIDE DEF K
  <2> QED BY ONLY <1>2, <2>1, <2>2, InductTo
<1>11. w[l] = R(l)
  <2>1. l \in 0..l
    BY ONLY <1>2
  <2> QED BY ONLY <1>10, <2>1
<1>12. CASE bad = {}
  <2>1. w[l] = Reading(ts, u, l)
    BY ONLY <1>11, <1>12 DEF R
  <2>2. w[l].ok = TRUE /\ w[l].map = Values(ts, l)
    BY ONLY <2>1 DEF Reading
  <2>3. Parse(ts, data, raw) = Result("read", Values(ts, l))
    BY ONLY <1>7, <2>2
  <2> QED BY ONLY <1>12, <2>3 DEF Reads, data, l
<1>13. CASE bad # {}
  <2>1. f \in bad /\ f <= l
    BY ONLY <1>2, <1>3, <1>13
  <2>2. w[l] = stopped
    BY ONLY <1>11, <2>1 DEF R
  <2>3. w[l].ok = FALSE /\ w[l].map = Values(ts, f - 1)
    BY ONLY <2>2 DEF Reading
  <2>4. Parse(ts, data, raw) = Result("error", Values(ts, f - 1))
    BY ONLY <1>7, <2>3
  <2> QED BY ONLY <1>13, <2>1, <2>4 DEF Reads, data
<1> QED BY ONLY <1>12, <1>13

(* A list that counts as synched is all in the buffer. *)
LEMMA SynchedLength ==
  ASSUME Base, Matches, synched
  PROVE  Len(tags) = Len(buffer)
<1>1. Len(tags) \in Nat /\ Len(buffer) \in 0..Len(tags) /\ DOMAIN tags = 1..Len(tags)
  BY DEF Base, TypeOK, Matches, Fits, Prefix
<1>2. \A i \in 1..Len(tags) : i <= Len(buffer)
  <2>1. \A i \in 1..Len(tags) : tags[i].synched
    BY <1>1 DEF Base, TypeOK
  <2> QED BY <2>1 DEF Matches, Fits, Prefix
<1>3. CASE Len(tags) = 0
  BY ONLY <1>1, <1>3
<1>4. CASE Len(tags) # 0
  <2>1. Len(tags) \in 1..Len(tags)
    BY ONLY <1>1, <1>4
  <2> QED BY ONLY <1>1, <1>2, <2>1
<1> QED BY ONLY <1>3, <1>4

LEMMA ReadOwn ==
  ASSUME Numbering, MatchInv, MatchInv', NEW raw \in BOOLEAN, Read(raw), lost = 0, NoBatchEmptied'
  PROVE  Reads(tags', raw, result')
<1>1. created /\ UNCHANGED <<created, removed, lost>>
  BY DEF Read, Sync, list
<1>2. Base /\ Matches /\ Base' /\ Matches'
  BY <1>1 DEF MatchInv
<1>3. Len(tags') = Len(buffer')
  <2>1. CASE synched
    BY <1>2, <2>1, SynchedLength DEF Read, list, controller
  <2>2. CASE ~synched
    BY <1>1, <1>2, <2>2, SyncMatch DEF Read, Numbering
  <2> QED BY <2>1, <2>2
<1>4. tags' \in Seq(TagEntry) /\ buffer' \in Seq(BufferEntry) /\ batches' \in Nat
  BY <1>2, DataTableAssumption DEF Base, TypeOK
<1>5. Fits(tags', buffer', indexes')
  BY <1>2 DEF Matches
<1>6. \A i \in 1..Len(tags') : tags'[i].batchID > 0
  <2>1. \A i \in 1..Len(tags') : tags'[i].synched
    <3>1. Len(buffer') \in Nat
      BY <1>4
    <3> QED BY <1>3, <1>5, <3>1 DEF Fits, Prefix
  <2>2. DOMAIN tags' = 1..Len(tags')
    BY <1>4
  <2>3. \A i \in DOMAIN tags' : tags'[i].synched <=> tags'[i].batchID > 0
    BY <1>2 DEF Base, TypeOK
  <2> QED BY ONLY <2>1, <2>2, <2>3
<1>7. Agree(tags', buffer') /\ Growing(tags')
  BY <1>3, <1>5, <1>6 DEF Agree, Growing, Fits
<1>8. Follows(buffer')
  BY DEF Follows, NoBatchEmptied, Before
<1>9. Reads(tags', raw, Parse(tags', Response(buffer', batches'), raw))
  BY ONLY <1>4, <1>7, <1>8, ParseOwn
<1> QED BY <1>9 DEF Read

LEMMA ValuesAre ==
  ASSUME NEW ts \in Seq(TagEntry), NEW n \in 0..Len(ts)
  PROVE  /\ DOMAIN Values(ts, n) = {ts[i].name : i \in 1..n}
         /\ \A t \in DOMAIN Values(ts, n) : Values(ts, n)[t] = Bytes(t)
<1>1. CASE n = 0
  <2>1. Values(ts, n) = <<>> /\ DOMAIN <<>> = {} /\ 1..n = {}
    BY <1>1 DEF Values
  <2> QED BY ONLY <2>1
<1>2. CASE n # 0
  BY ONLY <1>2 DEF Values
<1> QED BY ONLY <1>1, <1>2

(* The names of the list are those it had before the read synched it. *)
LEMMA SameNames ==
  ASSUME Base, NEW raw, Read(raw)
  PROVE  /\ Len(tags') = Len(tags) /\ DOMAIN tags = 1..Len(tags) /\ Len(tags) \in Nat
         /\ \A i \in 1..Len(tags) : tags'[i].name = tags[i].name
<1>1. Len(tags) \in Nat /\ DOMAIN tags = 1..Len(tags)
  BY DEF Base, TypeOK
<1>2. CASE synched
  BY <1>1, <1>2 DEF Read, list
<1>3. CASE ~synched
  <2>1. tags' = Marked
    BY <1>3 DEF Read, Sync
  <2>2. PICK k : Prefix(tags, k)
    BY DEF Base, PrefixInv
  <2> QED BY <1>1, <2>1, <2>2, MarkedIs DEF Base
<1> QED BY <1>2, <1>3

LEMMA ReadsAreOwn ==
  ASSUME Numbering, MatchInv, MatchInv', NEW raw \in BOOLEAN, Read(raw), lost = 0, NoBatchEmptied'
  PROVE  ReadsOwn(raw)
<1>1. Base /\ tags' \in Seq(TagEntry)
  BY DEF MatchInv, Base, TypeOK
<1>2. Reads(tags', raw, result')
  BY ReadOwn
<1>3. /\ Len(tags') = Len(tags) /\ DOMAIN tags = 1..Len(tags) /\ Len(tags) \in Nat
      /\ \A i \in 1..Len(tags) : tags'[i].name = tags[i].name
  BY <1>1, SameNames
<1>4. (\A i \in DOMAIN tags : Decodes(tags[i].name, raw)) <=> Ends(tags', raw) = {}
  BY ONLY <1>3 DEF Ends
<1>5. {tags'[i].name : i \in 1..Len(tags')} = {tags[i].name : i \in DOMAIN tags}
  BY ONLY <1>3
<1>6. CASE Ends(tags', raw) = {}
  <2>1. result' = Result("read", Values(tags', Len(tags')))
    BY ONLY <1>2, <1>6 DEF Reads
  <2>2. result'.status = "read" /\ result'.values = Values(tags', Len(tags'))
    BY ONLY <2>1 DEF Result
  <2>3. Len(tags') \in 0..Len(tags')
    BY ONLY <1>3
  <2>4. /\ DOMAIN result'.values = {tags'[i].name : i \in 1..Len(tags')}
        /\ \A t \in DOMAIN result'.values : result'.values[t] = Bytes(t)
    BY ONLY <1>1, <2>2, <2>3, ValuesAre
  <2> QED BY ONLY <1>4, <1>5, <1>6, <2>2, <2>4 DEF ReadsOwn
<1>7. CASE Ends(tags', raw) # {}
  <2>1. PICK f \in Ends(tags', raw) : result' = Result("error", Values(tags', f - 1))
    BY ONLY <1>2, <1>7 DEF Reads
  <2>2. result'.status = "error" /\ result'.values = Values(tags', f - 1)
    BY ONLY <2>1 DEF Result
  <2>3. f - 1 \in 0..Len(tags')
    BY ONLY <1>3, <2>1 DEF Ends
  <2>4. \A t \in DOMAIN result'.values : result'.values[t] = Bytes(t)
    BY ONLY <1>1, <2>2, <2>3, ValuesAre
  <2> QED BY ONLY <1>4, <1>7, <2>2, <2>4 DEF ReadsOwn
<1> QED BY ONLY <1>6, <1>7

(* Under the same conditions, until a reply is lost, every ReadAll and      *)
(* ReadAllRaw gives every tag of the list its own bytes, and fails only for *)
(* a tag that does not decode, however the tags were spread over batches    *)
(* and whichever were removed, as long as no batch that others follow is    *)
(* without tags.                                                            *)
THEOREM TableReadsOwn == ASSUME Numbering PROVE Spec => OwnValues
<1>1. MatchInv /\ [Next]_vars => MatchInv'
  BY NextMatch
<1>2. MatchInv /\ [Next]_vars =>
        [lost = 0 /\ NoBatchEmptied' =>
           (ReadAll => ReadsOwn(FALSE)) /\ (ReadAllRaw => ReadsOwn(TRUE))]_vars
  BY NextMatch, ReadsAreOwn DEF ReadAll, ReadAllRaw
<1> QED BY <1>1, <1>2, InitMatch, PTL DEF Spec, OwnValues

=============================================================================
