---------------------------- MODULE MessageProofs ----------------------------
(**************************************************************************)
(* What the module BatchRead promises of a read of a map, for any number  *)
(* of tags of any sizes and any size of the messages; and what the module *)
(* Conversation promises of paths, routes and identities of any length: a *)
(* device reads a path as it was built, and a client knows a server by     *)
(* what it is.                                                            *)
(**************************************************************************)
EXTENDS BatchRead, Conversation, Integers, SequenceTheorems, FiniteSetTheorems, TLAPS

(* The value of a tag as one span. *)
WholeSpan(t) == [tag |-> t, from |-> 0, upto |-> desc[t].size]

Answered(t) == result[t] = Err \/ (result[t] # Unread /\ Whole(t, result[t].spans))

(* No tag is lost on the way through the batches. *)
Cover ==
  /\ pc = "start" => todo = Tags
  /\ pc \in {"select", "round"} =>
       \A t \in Tags : t \in todo \/ (pc = "round" /\ t \in batch) \/ Answered(t)

(* Of the tags of a batch those to be asked again have nothing kept, and    *)
(* those that were answered have all.                                       *)
BatchInv ==
  pc = "round" =>
    \A t \in batch :
      /\ t \in pending => offset[t] = 0 /\ chunk[t] = <<>>
      /\ t \notin pending => status[t] # "partial"
      /\ t \notin pending /\ status[t] = "ok" => chunk[t] = <<WholeSpan(t)>>

Declared == \A t \in batch : desc[t].declared >= desc[t].size

(* A batch of several tags fits, and if its sizes are declared it is        *)
(* answered in one round.                                                   *)
FitInv ==
  pc = "round" /\ Cardinality(batch) > 1 =>
    /\ Fits(batch)
    /\ Declared => /\ pending = batch \/ pending = {}
                   /\ \A t \in batch : status[t] # "partial"

IInv == TypeOK /\ Cover /\ BatchInv /\ FitInv /\ OwnWholeValues

-----------------------------------------------------------------------------
(* Induction over the natural numbers, as lemmas about sets of them: the    *)
(* library's theorems take an operator, which the provers do not instantiate. *)

(* A set of natural numbers that is not empty has a least element: one      *)
(* whose interval from 1 on contains that of no other.                      *)
LEMMA Least ==
  ASSUME NEW T \in SUBSET Nat, T # {}
  PROVE  \E x \in T : \A y \in T : x <= y
<1> DEFINE R == StrictSubsetOrdering(Nat)
           U == {1..k : k \in T}
<1>1. U \subseteq FiniteSubsetsOf(Nat)
  <2>1. \A k \in T : IsFiniteSet(1..k) /\ 1..k \subseteq Nat
    BY FS_Interval
  <2> QED BY <2>1 DEF FiniteSubsetsOf
<1>2. PICK s \in U : \A t \in U : ~(<<t, s>> \in R)
  <2>1. U # {}
    OBVIOUS
  <2> HIDE DEF U
  <2>2. IsWellFoundedOn(R, FiniteSubsetsOf(Nat))
    BY FS_StrictSubsetOrderingWellFounded
  <2> HIDE DEF R
  <2> QED BY <1>1, <2>1, <2>2, WFMin, Zenon
<1>3. PICK x \in T : s = 1..x
  OBVIOUS
<1>4. ASSUME NEW y \in T, y < x PROVE FALSE
  <2>1. 1..y \in U
    OBVIOUS
  <2>2. 1..y \subseteq 1..x /\ x \in 1..x /\ x \notin 1..y
    BY <1>4
  <2>3. 1..y \in SUBSET Nat /\ 1..x \in SUBSET Nat
    OBVIOUS
  <2>4. <<1..y, s>> \in R
    BY <2>2, <2>3, <1>3 DEF StrictSubsetOrdering
  <2> QED BY <2>1, <2>4, <1>2
<1> QED BY <1>4

(* A bounded set of natural numbers that is not empty has a greatest        *)
(* element.                                                                 *)
LEMMA Greatest ==
  ASSUME NEW n \in Nat, NEW T \in SUBSET (0..n), T # {}
  PROVE  \E x \in T : \A y \in T : y <= x
<1> DEFINE U == {n - x : x \in T}
<1>1. U \in SUBSET Nat /\ U # {}
  <2>1. \A x \in T : x \in Nat /\ x <= n
    OBVIOUS
  <2>2. \A x \in T : n - x \in Nat
    BY <2>1
  <2> QED BY <2>2
<1>2. PICK u \in U : \A v \in U : u <= v
  BY <1>1, Least
<1>3. PICK x \in T : u = n - x
  BY <1>2
<1>4. \A y \in T : n - y \in U
  OBVIOUS
<1>5. \A y \in T : y \in Nat
  OBVIOUS
<1>6. \A y \in T : n - x <= n - y
  BY <1>2, <1>3, <1>4
<1> QED BY <1>5, <1>6

(* Induction up to a bound: there is no least number that is not in S. *)
LEMMA InductTo ==
  ASSUME NEW n \in Nat, NEW S, 0 \in S, \A i \in 1..n : i - 1 \in S => i \in S
  PROVE  \A i \in 0..n : i \in S
<1> DEFINE T == {i \in 0..n : i \notin S}
<1>1. SUFFICES ASSUME T # {} PROVE FALSE
  OBVIOUS
<1>2. T \in SUBSET Nat
  OBVIOUS
<1>3. PICK x \in T : \A y \in T : x <= y
  BY <1>1, <1>2, Least
<1>4. x \in 1..n /\ x - 1 \in 0..n /\ ~(x <= x - 1)
  BY <1>3
<1>5. x - 1 \in S
  BY <1>3, <1>4
<1> QED BY <1>3, <1>4, <1>5

(* g begins with a, and step leads from each value to the next. *)
Steps(g, n, a, step) == g[0] = a /\ \A i \in 1..n : g[i] = step[i][g[i - 1]]

(* What is defined by its first value and the step from each value to the  *)
(* next exists.                                                             *)
LEMMA Recursion ==
  ASSUME NEW n \in Nat, NEW A, NEW a \in A, NEW step \in [1..n -> [A -> A]]
  PROVE  \E g \in [0..n -> A] : Steps(g, n, a, step)
<1> USE DEF Steps
<1> DEFINE S == {k \in 0..n : \E g \in [0..n -> A] : Steps(g, k, a, step)}
<1>1. 0 \in S
  <2>1. [i \in 0..n |-> a] \in [0..n -> A] /\ Steps([i \in 0..n |-> a], 0, a, step)
    OBVIOUS
  <2> HIDE DEF Steps
  <2> QED BY <2>1
<1>2. ASSUME NEW k \in 1..n, k - 1 \in S PROVE k \in S
  <2>1. PICK g \in [0..n -> A] : Steps(g, k - 1, a, step)
    BY <1>2
  <2> DEFINE h == [g EXCEPT ![k] = step[k][g[k - 1]]]
  <2>2. g[k - 1] \in A /\ step[k] \in [A -> A]
    OBVIOUS
  <2>3. h \in [0..n -> A]
    BY <2>2
  <2>4. h[0] = a
    BY <2>1
  <2>5. ASSUME NEW i \in 1..k PROVE h[i] = step[i][h[i - 1]]
    <3>1. CASE i = k
      BY <3>1
    <3>2. CASE i # k
      <4>1. i \in 1..(k - 1) /\ h[i] = g[i] /\ h[i - 1] = g[i - 1]
        BY <3>2
      <4> HIDE DEF h
      <4> QED BY <2>1, <4>1
    <3> QED BY <3>1, <3>2
  <2> HIDE DEF h
  <2>6. Steps(h, k, a, step)
    BY <2>4, <2>5
  <2> HIDE DEF Steps
  <2> QED BY <2>3, <2>6
<1> HIDE DEF S
<1>3. \A i \in 0..n : i \in S
  BY <1>1, <1>2, InductTo
<1>4. n \in S
  BY <1>3
<1> QED BY <1>4 DEF S

-----------------------------------------------------------------------------
(* Sums of weights.                                                         *)

Weighs(w, S) == \A t \in S : w[t] \in Nat

(* g is the sum of the weights of S up to each position. *)
Sums(g, w, S) ==
  /\ g \in [0..N -> Nat]
  /\ g[0] = 0
  /\ \A n \in 1..N : g[n] = g[n - 1] + (IF n \in S THEN w[n] ELSE 0)

(* The recursive function of Total exists, and Total is the last sum. *)
LEMMA TotalSums ==
  ASSUME NEW w, NEW S, Weighs(w, S)
  PROVE  \E g : Sums(g, w, S) /\ Total(w, S) = g[N]
<1> DEFINE a(n) == IF n \in S THEN w[n] ELSE 0
           step == [n \in 1..N |-> [x \in Nat |-> x + a(n)]]
           F(g) == [n \in 0..N |-> IF n = 0 THEN 0 ELSE g[n - 1] + (IF n \in S THEN w[n] ELSE 0)]
           u == CHOOSE g : g = F(g)
           K == {n \in 0..N : u[n] \in Nat}
<1>1. N \in Nat
  BY BatchReadAssumption
<1>2. \A n : a(n) \in Nat
  BY DEF Weighs
<1>3. PICK g \in [0..N -> Nat] : Steps(g, N, 0, step)
  <2> HIDE DEF a
  <2>1. step \in [1..N -> [Nat -> Nat]]
    BY <1>2
  <2> HIDE DEF step
  <2> QED BY <1>1, <2>1, Recursion
<1>4. g = F(g)
  <2>1. \A n \in 1..N : g[n - 1] \in Nat
    BY <1>1
  <2>2. \A n \in 1..N : g[n] = g[n - 1] + a(n)
    BY <1>3, <2>1 DEF Steps
  <2>3. \A n \in 0..N : g[n] = IF n = 0 THEN 0 ELSE g[n - 1] + (IF n \in S THEN w[n] ELSE 0)
    BY <1>1, <1>3, <2>2 DEF Steps
  <2> QED BY <2>3
<1>5. u = F(u)
  BY <1>4
<1>6. Total(w, S) = u[N]
  BY DEF Total
<1> HIDE DEF u
<1>7. u[0] = 0 /\ \A n \in 1..N : u[n] = u[n - 1] + a(n)
  BY <1>1, <1>5
<1>8. \A n \in 0..N : n \in K
  <2>1. 0 \in K /\ \A n \in 1..N : n - 1 \in K => n \in K
    <3> HIDE DEF a
    <3> QED BY <1>1, <1>2, <1>7
  <2> HIDE DEF K
  <2> QED BY <1>1, <2>1, InductTo
<1>9. u = [n \in 0..N |-> u[n]]
  BY <1>5
<1>10. u \in [0..N -> Nat]
  BY <1>8, <1>9
<1> QED BY <1>6, <1>7, <1>10 DEF Sums

(* Fewer and lighter tags weigh no more. *)
LEMMA TotalLE ==
  ASSUME NEW w, NEW v, NEW S, NEW T, S \subseteq T, Weighs(w, S), Weighs(v, T),
         \A t \in S : w[t] <= v[t]
  PROVE  Total(w, S) \in Nat /\ Total(v, T) \in Nat /\ Total(w, S) <= Total(v, T)
<1>1. PICK g : Sums(g, w, S) /\ Total(w, S) = g[N]
  BY TotalSums
<1>2. PICK h : Sums(h, v, T) /\ Total(v, T) = h[N]
  BY TotalSums
<1>3. N \in Nat
  BY BatchReadAssumption
<1>4. \A n \in 0..N : g[n] \in Nat /\ h[n] \in Nat
  BY <1>1, <1>2 DEF Sums
<1> DEFINE K == {n \in 0..N : g[n] <= h[n]}
<1>5. \A n \in 0..N : n \in K
  <2>1. 0 \in K
    BY <1>1, <1>2, <1>3 DEF Sums
  <2>2. ASSUME NEW n \in 1..N, n - 1 \in K PROVE n \in K
    <3> DEFINE a == IF n \in S THEN w[n] ELSE 0
               b == IF n \in T THEN v[n] ELSE 0
    <3>1. a \in Nat /\ b \in Nat /\ a <= b
      BY DEF Weighs
    <3>2. g[n] = g[n - 1] + a /\ h[n] = h[n - 1] + b
      BY <1>1, <1>2 DEF Sums
    <3> HIDE DEF a, b
    <3>3. n - 1 \in 0..N /\ g[n - 1] <= h[n - 1]
      BY <2>2
    <3>4. g[n - 1] \in Nat /\ h[n - 1] \in Nat
      BY <1>4, <3>3
    <3> QED BY <3>1, <3>2, <3>3, <3>4
  <2> HIDE DEF K
  <2> QED BY <1>3, <2>1, <2>2, InductTo
<1>6. g[N] <= h[N]
  BY <1>3, <1>5
<1> QED BY <1>1, <1>2, <1>3, <1>4, <1>6

-----------------------------------------------------------------------------
(* The tags of a batch.                                                     *)

LEMMA Finite ==
  ASSUME NEW S \in SUBSET Tags
  PROVE  IsFiniteSet(S) /\ Cardinality(S) \in Nat
<1>1. IsFiniteSet(Tags)
  BY BatchReadAssumption, FS_Interval DEF Tags
<1> QED BY <1>1, FS_Subset, FS_CardinalityType

(* A pass that takes every tag that still fits takes tags that fit together.*)
LEMMA PackedFits ==
  ASSUME TypeOK, NEW sel \in SUBSET todo, sel # {}, Packed(sel)
  PROVE  Fits(sel)
<1>1. N \in Nat /\ sel \in SUBSET (0..N)
  BY BatchReadAssumption DEF TypeOK, Tags
<1>2. PICK t \in sel : \A u \in sel : u <= t
  BY <1>1, Greatest
<1>3. {u \in sel : u < t} \cup {t} = sel
  <2>1. \A u \in sel : u \in Nat
    BY <1>1
  <2>2. \A u \in sel : u < t \/ u = t
    BY <1>2, <2>1
  <2> QED BY <2>2
<1>4. t \in todo
  OBVIOUS
<1> QED BY <1>3, <1>4 DEF Packed

(* What is chosen, if it is more than one tag, fits a message. *)
LEMMA SelectedFits ==
  ASSUME TypeOK, NEW sel \in SUBSET todo, selectPackedTagIndexes(sel), Cardinality(sel) > 1
  PROVE  Fits(sel)
<1>1. CASE sel # {} /\ Packed(sel)
  BY <1>1, PackedFits
<1>2. ASSUME NEW t \in todo, sel = {t} PROVE FALSE
  BY <1>2, FS_Singleton
<1> QED BY <1>1, <1>2 DEF selectPackedTagIndexes

-----------------------------------------------------------------------------
(* The steps of a call.                                                     *)

LEMMA InitInv == Init => IInv
<1> SUFFICES ASSUME Init PROVE IInv
  OBVIOUS
<1> USE BatchReadAssumption
<1>1. Unread \in Value /\ <<>> \in Seq(Span)
  BY DEF Unread, Value
<1>2. TypeOK
  BY <1>1 DEF Init, TypeOK
<1> QED BY <1>2 DEF Init, IInv, Cover, BatchInv, FitInv, OwnWholeValues

LEMMA StartInv == IInv /\ Start => IInv'
<1> SUFFICES ASSUME IInv, Start PROVE IInv'
  OBVIOUS
<1> USE DEF IInv, Start
<1>1. TypeOK'
  BY DEF TypeOK
<1>2. Cover' /\ BatchInv' /\ FitInv' /\ OwnWholeValues'
  BY DEF Cover, BatchInv, FitInv, OwnWholeValues, TypeOK
<1> QED BY <1>1, <1>2

LEMMA SelectInv == IInv /\ selectPackedTagBatch => IInv'
<1> SUFFICES ASSUME IInv, selectPackedTagBatch PROVE IInv'
  OBVIOUS
<1>1. PICK sel \in SUBSET todo :
        selectPackedTagIndexes(sel) /\ batch' = sel /\ pending' = sel /\ todo' = todo \ sel
  BY DEF selectPackedTagBatch
<1>2. TypeOK'
  <2>1. <<>> \in Seq(Span)
    OBVIOUS
  <2> QED BY <1>1, <2>1, BatchReadAssumption DEF selectPackedTagBatch, IInv, TypeOK
<1>3. Cover'
  BY <1>1 DEF selectPackedTagBatch, IInv, Cover, Answered, Whole
<1>4. BatchInv'
  BY <1>1 DEF selectPackedTagBatch, BatchInv, IInv, TypeOK
<1>5. FitInv'
  <2> SUFFICES ASSUME Cardinality(sel) > 1
               PROVE  Fits(batch)' /\ pending' = batch' /\ \A t \in batch' : status'[t] # "partial"
    BY <1>1 DEF FitInv
  <2>1. Fits(sel)
    BY <1>1, SelectedFits DEF IInv
  <2>2. Fits(batch)'
    BY <1>1, <2>1 DEF selectPackedTagBatch, Fits, RequestSize, EstimatedReply, RequestItem,
       estimateTagResponseSize, readServiceForTag
  <2> QED BY <1>1, <2>2 DEF selectPackedTagBatch, IInv, TypeOK
<1>6. OwnWholeValues'
  BY DEF selectPackedTagBatch, OwnWholeValues
<1> QED BY <1>2, <1>3, <1>4, <1>5, <1>6 DEF IInv

(* What a tag is answered that has been answered nothing before. *)
LEMMA AnswersAre ==
  ASSUME TypeOK, NEW t \in Tags, offset[t] = 0, NEW a \in Answers(t)
  PROVE  /\ a.status \in {"ok", "partial", "error"} /\ a.upto \in Nat
         /\ a.status = "ok" => a.upto = desc[t].size
<1>1. desc[t].size \in Nat
  BY BatchReadAssumption DEF TypeOK, TagDesc
<1>2. \A n \in Cuts : n \in Nat /\ 0 + n \in Nat
  BY BatchReadAssumption
<1> QED BY <1>1, <1>2 DEF Answers

(* If the sizes are declared and the estimate of the reply fits, the reply  *)
(* does, and nothing of it is answered in part.                             *)
LEMMA ReplyFits ==
  ASSUME TypeOK, Fits(batch), Declared, pending = batch, \A t \in batch : offset[t] = 0,
         NEW reply, Controller(reply)
  PROVE  \A t \in batch : reply[Place(t)].status # "partial"
<1> SUFFICES ASSUME NEW t \in batch PROVE reply[Place(t)].status # "partial"
  OBVIOUS
<1> DEFINE S == {u \in pending : u <= t}
<1>1. S \subseteq batch
  BY DEF TypeOK
<1>2. \A u \in batch : u \in Tags /\ desc[u].size \in Nat /\ desc[u].declared \in Nat
                       /\ desc[u].size <= desc[u].declared
  BY BatchReadAssumption DEF TypeOK, TagDesc, Declared
<1>3. \A u \in batch : ReplyItem[u] = 6 + desc[u].size /\ estimateTagResponseSize[u] = 6 + desc[u].declared
  BY <1>2 DEF ReplyItem, estimateTagResponseSize
<1>4. Weighs(ReplyItem, S) /\ Weighs(estimateTagResponseSize, batch)
      /\ \A u \in S : ReplyItem[u] <= estimateTagResponseSize[u]
  BY <1>1, <1>2, <1>3 DEF Weighs
<1> HIDE DEF S
<1>5. /\ Total(ReplyItem, S) \in Nat /\ Total(estimateTagResponseSize, batch) \in Nat
      /\ Total(ReplyItem, S) <= Total(estimateTagResponseSize, batch)
  BY <1>1, <1>4, TotalLE
<1>6. Cardinality(batch) \in Nat
  BY Finite DEF TypeOK
<1>7. EstimatedReply(batch) < ConnectionSize
  BY DEF Fits
<1>8. 28 + 2 * Cardinality(pending) + Total(ReplyItem, S) <= ConnectionSize
  BY <1>5, <1>6, <1>7, BatchReadAssumption DEF EstimatedReply, estimateMultiReadReplyOverhead
<1>9. 28 + 2 * Cardinality(pending) + Total(ReplyItem, {u \in pending : u <= t}) <= ConnectionSize
  BY <1>8 DEF S
<1> QED BY <1>9 DEF Controller

LEMMA RoundInv == IInv /\ readListFragRound => IInv'
<1> SUFFICES ASSUME IInv, readListFragRound PROVE IInv'
  OBVIOUS
<1> DEFINE Is(reply, t) == reply[Place(t)]
<1>1. PICK reply :
        /\ Controller(reply)
        /\ status' = [t \in Tags |-> IF t \in pending THEN Is(reply, t).status ELSE status[t]]
        /\ chunk' = [t \in Tags |->
             IF t \in pending /\ Is(reply, t).status = "ok"
             THEN Append(chunk[t], [tag |-> t, from |-> offset[t], upto |-> Is(reply, t).upto])
             ELSE chunk[t]]
        /\ offset' = [t \in Tags |->
             IF t \in pending /\ Is(reply, t).status = "ok" THEN Is(reply, t).upto ELSE offset[t]]
        /\ pending' = {t \in pending : Is(reply, t).status = "partial"}
  BY DEF readListFragRound, AnswerOf
<1>2. \A t \in pending : t \in batch /\ t \in Tags /\ offset[t] = 0 /\ chunk[t] = <<>>
  BY DEF IInv, TypeOK, BatchInv, readListFragRound
<1>3. \A t \in pending :
        /\ Is(reply, t).status \in {"ok", "partial", "error"} /\ Is(reply, t).upto \in Nat
        /\ Is(reply, t).status = "ok" => Is(reply, t).upto = desc[t].size
  <2>1. \A t \in pending : Is(reply, t) \in Answers(t)
    BY <1>1 DEF Controller
  <2> HIDE DEF Is
  <2> QED BY <1>2, <2>1, AnswersAre DEF IInv
<1>4. \A t \in batch : pending = batch /\ Fits(batch) /\ Declared => Is(reply, t).status # "partial"
  <2> SUFFICES ASSUME pending = batch, Fits(batch), Declared
               PROVE  \A t \in batch : Is(reply, t).status # "partial"
    OBVIOUS
  <2>1. \A t \in batch : offset[t] = 0
    BY <1>2
  <2> QED BY <1>1, <2>1, ReplyFits DEF IInv
<1> HIDE DEF Is
<1>5. TypeOK'
  <2>1. offset' \in [Tags -> Nat] /\ status' \in [Tags -> {"ok", "partial", "error"}]
    BY <1>1, <1>3 DEF IInv, TypeOK
  <2>2. chunk' \in [Tags -> Seq(Span)]
    <3> SUFFICES ASSUME NEW t \in Tags, t \in pending
                 PROVE  Append(chunk[t], [tag |-> t, from |-> offset[t], upto |-> Is(reply, t).upto])
                          \in Seq(Span)
      BY <1>1 DEF IInv, TypeOK
    <3>1. [tag |-> t, from |-> offset[t], upto |-> Is(reply, t).upto] \in Span
      BY <1>2, <1>3 DEF Span
    <3>2. chunk[t] \in Seq(Span)
      BY DEF IInv, TypeOK
    <3> HIDE DEF Span
    <3> QED BY <3>1, <3>2
  <2>3. rounds' \in 0..(MaxRounds + 1)
    BY BatchReadAssumption DEF IInv, TypeOK, readListFragRound, RoundsLeft
  <2>4. pending' \subseteq batch'
    BY <1>1, <1>2 DEF readListFragRound
  <2> QED BY <2>1, <2>2, <2>3, <2>4 DEF IInv, TypeOK, readListFragRound
<1>6. Cover'
  BY DEF readListFragRound, IInv, Cover, Answered, Whole
<1>7. BatchInv'
  <2> SUFFICES ASSUME NEW t \in batch
               PROVE  /\ t \in pending' => offset'[t] = 0 /\ chunk'[t] = <<>>
                      /\ t \notin pending' => status'[t] # "partial"
                      /\ t \notin pending' /\ status'[t] = "ok" => chunk'[t] = <<WholeSpan(t)>>
    BY DEF BatchInv, WholeSpan, readListFragRound
  <2>1. t \in Tags
    BY DEF IInv, TypeOK
  <2>2. CASE t \in pending
    <3>1. chunk[t] = <<>> /\ offset[t] = 0
      BY <1>2, <2>2
    <3>2. Append(<<>>, WholeSpan(t)) = <<WholeSpan(t)>>
      OBVIOUS
    <3> QED BY <1>1, <1>3, <2>1, <2>2, <3>1, <3>2 DEF WholeSpan
  <2>3. CASE t \notin pending
    BY <1>1, <2>1, <2>3 DEF IInv, BatchInv, readListFragRound
  <2> QED BY <2>2, <2>3
<1>8. FitInv'
  <2> SUFFICES ASSUME Cardinality(batch) > 1
               PROVE  /\ Fits(batch)'
                      /\ Declared' => /\ pending' = batch' \/ pending' = {}
                                      /\ \A t \in batch' : status'[t] # "partial"
    BY DEF FitInv, readListFragRound
  <2>1. pc = "round" /\ pending # {} /\ batch' = batch /\ desc' = desc
    BY DEF readListFragRound
  <2>2. Fits(batch) /\ (Declared => pending = batch)
    BY <2>1 DEF IInv, FitInv
  <2>3. Fits(batch)'
    BY <2>1, <2>2 DEF Fits, RequestSize, EstimatedReply, RequestItem, estimateTagResponseSize,
       readServiceForTag
  <2>4. Declared' => Declared
    BY <2>1 DEF Declared
  <2>5. Declared => \A t \in batch : Is(reply, t).status # "partial"
    BY <1>4, <2>2
  <2>6. Declared => pending' = {} /\ \A t \in batch : status'[t] # "partial"
    BY <1>1, <1>2, <2>2, <2>5
  <2> QED BY <2>1, <2>3, <2>4, <2>6
<1>9. OwnWholeValues'
  BY DEF readListFragRound, OwnWholeValues
<1> QED BY <1>5, <1>6, <1>7, <1>8, <1>9 DEF IInv

LEMMA DecodeInv == IInv /\ decodeReadTagValue => IInv'
<1> SUFFICES ASSUME IInv, decodeReadTagValue PROVE IInv'
  OBVIOUS
<1>1. pc' \in {"failed", "select"} /\ BatchInv' /\ FitInv' /\ OwnWholeValues'
  BY DEF decodeReadTagValue, BatchInv, FitInv, OwnWholeValues
<1>2. CASE pc' = "failed"
  BY <1>1, <1>2 DEF decodeReadTagValue, IInv, TypeOK, Cover
<1>3. CASE pc' = "select"
  <2>1. PICK bad \in SUBSET batch :
          result' = [t \in Tags |->
            IF t \notin batch THEN result[t]
            ELSE IF status[t] # "ok" \/ t \in bad THEN Err
            ELSE [is |-> "value", spans |-> chunk[t]]]
    BY <1>3 DEF decodeReadTagValue
  <2>2. TypeOK'
    <3>1. \A t \in Tags : [is |-> "value", spans |-> chunk[t]] \in Value /\ Err \in Value
      BY DEF IInv, TypeOK, Value, Err
    <3>2. result' \in [Tags -> Value]
      BY <2>1, <3>1 DEF IInv, TypeOK
    <3> QED BY <1>3, <3>2 DEF decodeReadTagValue, IInv, TypeOK
  <2>3. Cover'
    <3> SUFFICES ASSUME NEW t \in Tags PROVE t \in todo' \/ Answered(t)'
      BY <1>3 DEF Cover
    <3>1. desc' = desc /\ todo' = todo /\ pc = "round" /\ pending = {}
      BY DEF decodeReadTagValue
    <3>2. CASE t \notin batch
      BY <2>1, <3>1, <3>2 DEF IInv, Cover, Answered, Whole
    <3>3. CASE t \in batch /\ (status[t] # "ok" \/ t \in bad)
      BY <2>1, <3>3 DEF Answered
    <3>4. CASE t \in batch /\ status[t] = "ok" /\ t \notin bad
      <4>1. chunk[t] = <<WholeSpan(t)>>
        BY <3>1, <3>4 DEF IInv, BatchInv
      <4>2. result'[t] = [is |-> "value", spans |-> <<WholeSpan(t)>>]
        BY <2>1, <3>4, <4>1
      <4>3. result'[t] # Unread /\ result'[t].spans = <<WholeSpan(t)>>
        BY <4>2 DEF Unread
      <4>4. Whole(t, <<WholeSpan(t)>>)'
        BY <3>1 DEF Whole, WholeSpan
      <4> QED BY <4>3, <4>4, <3>1 DEF Answered, WholeSpan, Whole
    <3> QED BY <3>2, <3>3, <3>4
  <2> QED BY <1>1, <2>2, <2>3 DEF IInv
<1> QED BY <1>1, <1>2, <1>3

LEMMA FinishInv == IInv /\ Finish => IInv'
<1> SUFFICES ASSUME IInv, Finish PROVE IInv'
  OBVIOUS
<1>1. TypeOK' /\ Cover' /\ BatchInv' /\ FitInv'
  BY DEF Finish, IInv, TypeOK, Cover, BatchInv, FitInv
<1>2. OwnWholeValues'
  <2>1. \A t \in Tags : Answered(t)
    BY DEF Finish, IInv, Cover
  <2> QED BY <2>1 DEF Finish, OwnWholeValues, Answered, Whole
<1> QED BY <1>1, <1>2 DEF IInv

LEMMA FailInv == IInv /\ (RoundFails \/ TooManyRounds) => IInv'
BY DEF RoundFails, TooManyRounds, IInv, TypeOK, Cover, BatchInv, FitInv, OwnWholeValues

LEMMA StutterInv == IInv /\ UNCHANGED vars => IInv'
<1> SUFFICES ASSUME IInv, UNCHANGED vars PROVE IInv'
  OBVIOUS
<1>1. TypeOK' /\ Cover' /\ BatchInv' /\ OwnWholeValues'
  BY DEF vars, IInv, TypeOK, Cover, BatchInv, OwnWholeValues, Answered, Whole, WholeSpan
<1>2. FitInv'
  BY DEF vars, IInv, FitInv, Declared, Fits, RequestSize, EstimatedReply, RequestItem,
     estimateTagResponseSize, readServiceForTag
<1> QED BY <1>1, <1>2 DEF IInv

LEMMA Inductive == Spec => []IInv
<1>1. IInv /\ [Next]_vars => IInv'
  BY StartInv, SelectInv, RoundInv, DecodeInv, FinishInv, FailInv, StutterInv DEF Next, Call
<1> QED BY InitInv, <1>1, PTL DEF Spec

-----------------------------------------------------------------------------
(* Theorems.                                                                *)

(* The lists of a call stay lists of its tags, and its rounds within their  *)
(* bound.                                                                   *)
THEOREM BatchTypes == Spec => []TypeOK
<1>1. IInv => TypeOK
  BY DEF IInv
<1> QED BY <1>1, Inductive, PTL

(* A call of ReadMap, ReadMapFrag or ReadMapByInstance that returns what it *)
(* read has an error or the whole value of its own tag for each key, for    *)
(* any number and sizes of tags and whatever is answered in part.           *)
THEOREM ValuesWhole == Spec => []OwnWholeValues
<1>1. IInv => OwnWholeValues
  BY DEF IInv
<1> QED BY <1>1, Inductive, PTL

(* A request for several tags (selectPackedTagBatch) fits a message, and so *)
(* does its reply if the Go values are as large as the tags, for any sizes. *)
THEOREM BatchesFit == Spec => []RequestsFit
<1>1. IInv => RequestsFit
  BY DEF IInv, FitInv, RequestsFit, Fits, Declared
<1> QED BY <1>1, Inductive, PTL

-----------------------------------------------------------------------------
(* Sequences and their parts.                                               *)

(* What is put together is taken apart. *)
LEMMA Apart ==
  ASSUME NEW S, NEW a \in Seq(S), NEW r \in Seq(S)
  PROVE  /\ a \o r \in Seq(S) /\ Len(a \o r) = Len(a) + Len(r)
         /\ SubSeq(a \o r, 1, Len(a)) = a
         /\ SubSeq(a \o r, Len(a) + 1, Len(a \o r)) = r
         /\ \A i \in 1..Len(a) : (a \o r)[i] = a[i]
         /\ \A i \in 1..Len(r) : (a \o r)[Len(a) + i] = r[i]
<1>1. Len(a) \in Nat /\ Len(r) \in Nat
  BY LenProperties
<1>2. /\ a \o r \in Seq(S) /\ Len(a \o r) = Len(a) + Len(r)
      /\ \A i \in 1..Len(a) : (a \o r)[i] = a[i]
      /\ \A i \in 1..Len(r) : (a \o r)[Len(a) + i] = r[i]
  BY <1>1, ConcatProperties
<1> DEFINE s == a \o r
<1>3. \A i \in 1..Len(s) : s[i] \in S
  BY <1>2, ElementOfSeq
<1> HIDE DEF s
<1>4. SubSeq(s, 1, Len(a)) = a
  <2>1. /\ SubSeq(s, 1, Len(a)) \in Seq(S)
        /\ Len(SubSeq(s, 1, Len(a))) = Len(a)
        /\ \A i \in 1..Len(a) : SubSeq(s, 1, Len(a))[i] = s[i]
    <3>1. \A i \in 1..Len(a) : s[i] \in S
      BY <1>1, <1>2, <1>3 DEF s
    <3> QED BY <3>1, <1>1, SubSeqProperties
  <2> QED BY <2>1, <1>1, <1>2, SeqEqual DEF s
<1>5. SubSeq(s, Len(a) + 1, Len(s)) = r
  <2> DEFINE w == Len(a) + 1
             n == Len(a) + Len(r)
             t == SubSeq(s, w, n)
  <2>1. w \in Int /\ n \in Int /\ n - w + 1 = Len(r) /\ Len(s) = n
    BY <1>1, <1>2 DEF s
  <2>2. \A i \in w..n : s[i] \in S
    BY <1>1, <1>2, <1>3 DEF s
  <2>3. /\ t \in Seq(S)
        /\ Len(t) = IF w <= n THEN n - w + 1 ELSE 0
        /\ \A i \in 1..(n - w + 1) : t[i] = s[w + i - 1]
    <3> HIDE DEF w, n
    <3> QED BY <2>1, <2>2, SubSeqProperties
  <2>4. Len(t) = Len(r)
    BY <2>3, <2>1, <1>1
  <2>5. \A i \in 1..Len(r) : t[i] = r[i]
    <3>1. \A i \in 1..Len(r) : w + i - 1 = Len(a) + i
      BY <1>1
    <3> HIDE DEF w, n, t
    <3> QED BY <2>1, <2>3, <3>1, <1>2 DEF s
  <2> HIDE DEF w, n, t
  <2>6. t = r
    BY <2>3, <2>4, <2>5, SeqEqual
  <2> QED BY <2>6, <2>1 DEF t, w
<1> QED BY <1>2, <1>4, <1>5 DEF s

-----------------------------------------------------------------------------
(* Numbers on the wire.                                                     *)

(* The bytes of a number. *)
LEMMA LEIs ==
  ASSUME NEW n \in Nat, NEW k \in 1..4
  PROVE  /\ LE(n, k) \in Seq(Nat) /\ Len(LE(n, k)) = k
         /\ \A i \in 1..k : LE(n, k)[i] = (n \div PlaceValue[i]) % 256
<1>1. \A i \in 1..k : PlaceValue[i] \in {1, 256, 65536, 16777216}
  BY DEF PlaceValue
<1>2. \A i \in 1..k : (n \div PlaceValue[i]) % 256 \in Nat
  <2>1. \A p \in {1, 256, 65536, 16777216} : (n \div p) % 256 \in Nat
    OBVIOUS
  <2> QED BY <1>1, <2>1
<1> HIDE DEF PlaceValue
<1>3. LE(n, k) = [i \in 1..k |-> (n \div PlaceValue[i]) % 256]
  BY DEF LE
<1>4. LE(n, k) \in [1..k -> Nat]
  BY <1>2, <1>3
<1>5. LE(n, k) \in Seq(Nat) /\ Len(LE(n, k)) = k
  BY <1>4
<1> QED BY <1>3, <1>5

(* Numbers of one, two and four bytes are read as they are written. *)
LEMMA LE16 ==
  ASSUME NEW n \in Word16
  PROVE  FromLE(LE(n, 2)) = n
<1> DEFINE b == LE(n, 2)
<1>1. n \in Nat /\ n < 65536
  BY DEF Word16
<1>2. Len(b) = 2 /\ b[1] = (n \div PlaceValue[1]) % 256 /\ b[2] = (n \div PlaceValue[2]) % 256
  BY <1>1, LEIs
<1> HIDE DEF b
<1>3. b[1] = n % 256 /\ b[2] = (n \div 256) % 256
  BY <1>1, <1>2 DEF PlaceValue
<1>4. FromLE(b) = b[1] * 1 + b[2] * 256 + 0 + 0
  BY <1>2 DEF FromLE, PlaceValue
<1> QED BY <1>1, <1>3, <1>4 DEF b

(* A number is made of its low byte and the rest of it. *)
LEMMA Divided ==
  ASSUME NEW n \in Nat
  PROVE  /\ n \div 256 \in Nat /\ n % 256 \in Nat /\ n % 256 < 256
         /\ n = 256 * (n \div 256) + (n % 256)
<1>1. n \div 256 \in Nat
  OBVIOUS
<1>2. n % 256 \in Nat /\ n % 256 < 256
  OBVIOUS
<1>3. n = 256 * (n \div 256) + (n % 256)
  OBVIOUS
<1> QED BY <1>1, <1>2, <1>3

(* A number of four bytes is the sum of what they stand for. *)
LEMMA Quotients ==
  ASSUME NEW n \in Word32
  PROVE  n = (n % 256) + 256 * ((n \div 256) % 256) + 65536 * ((n \div 65536) % 256)
             + 16777216 * ((n \div 16777216) % 256)
<1> DEFINE q1 == n \div 256
           q2 == q1 \div 256
           q3 == q2 \div 256
           r0 == n % 256
           r1 == q1 % 256
           r2 == q2 % 256
<1>1. n \in Nat /\ n \div 65536 < 65536
  BY DEF Word32
<1>2. q1 \in Nat /\ r0 \in Nat /\ r0 < 256 /\ n = 256 * q1 + r0
  BY <1>1, Divided
<1> HIDE DEF q1, r0
<1>3. q2 \in Nat /\ r1 \in Nat /\ r1 < 256 /\ q1 = 256 * q2 + r1
  BY <1>2, Divided
<1> HIDE DEF q2, r1
<1>4. q3 \in Nat /\ r2 \in Nat /\ r2 < 256 /\ q2 = 256 * q3 + r2
  BY <1>3, Divided
<1> HIDE DEF q3, r2
<1> DEFINE l == 256 * r1 + r0
<1>5. n = 65536 * q2 + l /\ l \in Nat /\ l < 65536
  BY <1>2, <1>3
<1> HIDE DEF l
<1>6. n \div 65536 = q2
  BY <1>1, <1>3, <1>5
<1> DEFINE w == 65536 * r2 + 256 * r1 + r0
<1>7. n = 16777216 * q3 + w /\ w \in Nat /\ w < 16777216
  BY <1>2, <1>3, <1>4
<1> HIDE DEF w
<1>8. n \div 16777216 = q3
  BY <1>1, <1>4, <1>7
<1>9. q3 < 256
  BY <1>1, <1>4, <1>6
<1>10. q3 % 256 = q3
  BY <1>4, <1>9
<1>11. /\ n % 256 = r0 /\ (n \div 256) % 256 = r1
       /\ (n \div 65536) % 256 = r2 /\ (n \div 16777216) % 256 = q3
  BY <1>6, <1>8, <1>10 DEF r0, r1, q1, r2
<1>12. n = r0 + 256 * r1 + 65536 * r2 + 16777216 * q3
  BY <1>2, <1>3, <1>4, <1>7 DEF w
<1> QED BY <1>11, <1>12

(* Four bytes are read as the number they were written of. *)
LEMMA LE32 ==
  ASSUME NEW n \in Word32
  PROVE  FromLE(LE(n, 4)) = n
<1> DEFINE b == LE(n, 4)
<1>1. n \in Nat
  BY DEF Word32
<1>2. Len(b) = 4 /\ \A i \in 1..4 : b[i] = (n \div PlaceValue[i]) % 256
  BY <1>1, LEIs
<1> HIDE DEF b
<1>3. /\ b[1] = n % 256 /\ b[2] = (n \div 256) % 256
      /\ b[3] = (n \div 65536) % 256 /\ b[4] = (n \div 16777216) % 256
  BY <1>1, <1>2 DEF PlaceValue
<1>4. FromLE(b) = b[1] * 1 + b[2] * 256 + b[3] * 65536 + b[4] * 16777216
  BY <1>2 DEF FromLE, PlaceValue
<1> DEFINE x1 == n % 256
           x2 == (n \div 256) % 256
           x3 == (n \div 65536) % 256
           x4 == (n \div 16777216) % 256
<1>5. n = x1 + 256 * x2 + 65536 * x3 + 16777216 * x4
  BY Quotients
<1>6. x1 \in Nat /\ x2 \in Nat /\ x3 \in Nat /\ x4 \in Nat
  BY <1>1
<1> HIDE DEF x1, x2, x3, x4
<1>7. b[1] = x1 /\ b[2] = x2 /\ b[3] = x3 /\ b[4] = x4
  BY <1>3 DEF x1, x2, x3, x4
<1> QED BY <1>4, <1>5, <1>6, <1>7 DEF b

(* One byte is read as itself. *)
LEMMA LE8 ==
  ASSUME NEW n \in Nat
  PROVE  FromLE(<<n>>) = n
BY DEF FromLE, PlaceValue

(* Of three byte strings joined, the first, the second and the third. *)
LEMMA Three ==
  ASSUME NEW p \in Seq(Nat), NEW w \in Seq(Nat), NEW r \in Seq(Nat)
  PROVE  /\ (p \o w) \o r \in Seq(Nat) /\ Len((p \o w) \o r) = Len(p) + Len(w) + Len(r)
         /\ p \o w \in Seq(Nat) /\ Len(p \o w) = Len(p) + Len(w)
         /\ \A i \in 1..Len(p) : ((p \o w) \o r)[i] = p[i]
         /\ SubSeq((p \o w) \o r, Len(p) + 1, Len(p) + Len(w)) = w
         /\ SubSeq((p \o w) \o r, Len(p) + Len(w) + 1, Len((p \o w) \o r)) = r
<1> DEFINE a == p \o w
           b == a \o r
<1>1. Len(p) \in Nat /\ Len(w) \in Nat /\ Len(r) \in Nat
  BY LenProperties
<1>2. /\ a \in Seq(Nat) /\ Len(a) = Len(p) + Len(w) /\ SubSeq(a, Len(p) + 1, Len(a)) = w
      /\ \A i \in 1..Len(p) : a[i] = p[i]
  BY ONLY p \in Seq(Nat), w \in Seq(Nat), Apart
<1> HIDE DEF a
<1>3. /\ b \in Seq(Nat) /\ Len(b) = Len(a) + Len(r) /\ SubSeq(b, Len(a) + 1, Len(b)) = r
      /\ \A i \in 1..Len(a) : b[i] = a[i]
  <2>1. a \in Seq(Nat)
    BY <1>2
  <2> QED BY ONLY <2>1, r \in Seq(Nat), Apart
<1>4. SubSeq(b, Len(p) + 1, Len(a)) = w
  <2>1. CASE w = <<>>
    <3>1. Len(a) < Len(p) + 1
      BY <1>1, <1>2, <2>1
    <3> QED BY <1>1, <1>2, <2>1, <3>1, SubSeqEmpty
  <2>2. CASE w # <<>>
    <3>1. Len(w) # 0
      BY <2>2, EmptySeq
    <3>2. Len(p) + 1 \in 1..Len(a) /\ Len(a) \in 1..Len(a)
      BY <1>1, <1>2, <3>1
    <3>3. SubSeq(a \o r, Len(p) + 1, Len(a)) = SubSeq(a, Len(p) + 1, Len(a))
      BY <1>2, <3>2, SubSeqOfConcat1
    <3> QED BY <1>2, <3>3
  <2> QED BY <2>1, <2>2
<1> HIDE DEF b
<1>5. \A i \in 1..Len(p) : i \in 1..Len(a)
  BY <1>1, <1>2
<1>6. \A i \in 1..Len(p) : b[i] = p[i]
  BY <1>2, <1>3, <1>5
<1>7. Len(b) = Len(p) + Len(w) + Len(r)
  BY <1>1, <1>2, <1>3
<1>8. SubSeq(b, Len(p) + 1, Len(p) + Len(w)) = w /\ SubSeq(b, Len(p) + Len(w) + 1, Len(b)) = r
  BY <1>2, <1>3, <1>4
<1> QED BY <1>2, <1>3, <1>6, <1>7, <1>8 DEF a, b

(* Two bytes put one behind the other. *)
LEMMA Pair ==
  ASSUME NEW c \in Nat, NEW n \in Nat
  PROVE  <<c>> \o <<n>> = <<c, n>>
<1> DEFINE p == <<c>>
           w == <<n>>
           s == <<c, n>>
<1>1. p \in Seq(Nat) /\ w \in Seq(Nat) /\ Len(p) = 1 /\ Len(w) = 1 /\ p[1] = c /\ w[1] = n
  OBVIOUS
<1>2. s \in Seq(Nat) /\ Len(s) = 2 /\ s[1] = c /\ s[2] = n
  OBVIOUS
<1> HIDE DEF p, w, s
<1>3. p \o w \in Seq(Nat) /\ Len(p \o w) = 2 /\ (p \o w)[1] = c /\ (p \o w)[2] = n
  <2>1. /\ p \o w \in Seq(Nat) /\ Len(p \o w) = Len(p) + Len(w)
        /\ \A i \in 1..Len(p) : (p \o w)[i] = p[i]
        /\ \A i \in 1..Len(w) : (p \o w)[Len(p) + i] = w[i]
    <3>1. p \in Seq(Nat) /\ w \in Seq(Nat)
      BY <1>1
    <3> QED BY ONLY <3>1, Apart
  <2>2. /\ p \o w \in Seq(Nat) /\ Len(p \o w) = 2
        /\ \A i \in 1..1 : (p \o w)[i] = p[i]
        /\ \A i \in 1..1 : (p \o w)[1 + i] = w[i]
    BY <1>1, <2>1
  <2> QED BY <1>1, <2>2
<1>4. \A i \in 1..2 : (p \o w)[i] = s[i]
  BY <1>2, <1>3
<1>5. p \o w = s
  BY <1>2, <1>3, <1>4, SeqEqual
<1> QED BY <1>5 DEF p, w, s

-----------------------------------------------------------------------------
(* Segments.                                                                *)

(* What a segment of a code and a number is to a reader. *)
NumberSays(s, code, i, k, n) ==
  /\ s \in Seq(Nat) /\ Len(s) >= 2
  /\ \A r \in Seq(Nat) :
       /\ s \o r # <<>> /\ (s \o r)[1] = code
       /\ ReadNumber(s \o r, i, k) = [ok |-> TRUE, n |-> n, rest |-> r]

(* A number is read from behind what is skipped. *)
LEMMA NumberRead ==
  ASSUME NEW p \in Seq(Nat), NEW w \in Seq(Nat), NEW i \in {1, 2}, NEW k \in {1, 2, 4},
         Len(p) = i, Len(w) = k
  PROVE  NumberSays(p \o w, p[1], i, k, FromLE(w))
<1>1. ASSUME NEW r \in Seq(Nat)
      PROVE  /\ (p \o w) \o r # <<>> /\ ((p \o w) \o r)[1] = p[1]
             /\ ReadNumber((p \o w) \o r, i, k) = [ok |-> TRUE, n |-> FromLE(w), rest |-> r]
  <2> DEFINE b == (p \o w) \o r
  <2>1. /\ b \in Seq(Nat) /\ Len(b) = Len(p) + Len(w) + Len(r)
        /\ \A j \in 1..Len(p) : b[j] = p[j]
        /\ SubSeq(b, Len(p) + 1, Len(p) + Len(w)) = w
        /\ SubSeq(b, Len(p) + Len(w) + 1, Len(b)) = r
    BY ONLY p \in Seq(Nat), w \in Seq(Nat), r \in Seq(Nat), Three
  <2> HIDE DEF b
  <2>2. /\ b \in Seq(Nat) /\ Len(b) = i + k + Len(r)
        /\ \A j \in 1..i : b[j] = p[j]
        /\ SubSeq(b, i + 1, i + k) = w
        /\ SubSeq(b, i + k + 1, Len(b)) = r
    BY <2>1
  <2>3. Len(r) \in Nat /\ i \in {1, 2} /\ k \in {1, 2, 4}
    BY LenProperties
  <2>4. Len(b) # 0 /\ ~(Len(b) < i + k) /\ 1 \in 1..i
    BY ONLY <2>2, <2>3
  <2>5. b # <<>> /\ b[1] = p[1]
    BY <2>2, <2>4, EmptySeq
  <2>6. ReadNumber(b, i, k) = [ok |-> TRUE, n |-> FromLE(w), rest |-> r]
    BY <2>2, <2>4 DEF ReadNumber
  <2> QED BY <2>5, <2>6 DEF b
<1>2. p \o w \in Seq(Nat) /\ Len(p \o w) = Len(p) + Len(w)
  BY ONLY p \in Seq(Nat), w \in Seq(Nat), Apart
<1>3. Len(p \o w) >= 2
  BY <1>2
<1> QED BY <1>1, <1>2, <1>3 DEF NumberSays

(* A segment of one byte behind its code says its number. *)
LEMMA SaysByte ==
  ASSUME NEW c \in Nat, NEW n \in Nat
  PROVE  NumberSays(<<c, n>>, c, 1, 1, n)
<1> DEFINE p == <<c>>
           w == <<n>>
<1>1. p \in Seq(Nat) /\ w \in Seq(Nat) /\ Len(p) = 1 /\ Len(w) = 1 /\ p[1] = c
  OBVIOUS
<1>2. <<c, n>> = p \o w
  BY Pair
<1>3. FromLE(w) = n
  BY LE8
<1> HIDE DEF p, w
<1>4. NumberSays(p \o w, p[1], 1, 1, FromLE(w))
  <2>1. 1 \in {1, 2} /\ 1 \in {1, 2, 4}
    OBVIOUS
  <2> QED BY <1>1, <2>1, NumberRead, Zenon
<1> QED BY <1>1, <1>2, <1>3, <1>4

(* So does one of two or four bytes behind its code and the pad. *)
LEMMA SaysWide ==
  ASSUME NEW c \in Nat, NEW n \in Nat, NEW k \in {2, 4}, FromLE(LE(n, k)) = n
  PROVE  NumberSays(<<c, 0>> \o LE(n, k), c, 2, k, n)
<1> DEFINE p == <<c, 0>>
           w == LE(n, k)
<1>1. p \in Seq(Nat) /\ Len(p) = 2 /\ p[1] = c
  OBVIOUS
<1>2. w \in Seq(Nat) /\ Len(w) = k
  <2>1. k \in 1..4
    OBVIOUS
  <2> QED BY <2>1, LEIs
<1>3. FromLE(w) = n
  OBVIOUS
<1> HIDE DEF p, w
<1>4. NumberSays(p \o w, p[1], 2, k, FromLE(w))
  <2>1. 2 \in {1, 2} /\ k \in {1, 2, 4}
    OBVIOUS
  <2> QED BY ONLY <1>1, <1>2, <2>1, NumberRead
<1> QED BY <1>1, <1>3, <1>4 DEF p, w

(* A logical segment says a number to the Read method of its codes. *)
LogicalSays(s, c8, c16, c32, n) ==
  /\ s \in Seq(Nat) /\ Len(s) >= 2
  /\ \A r \in Seq(Nat) :
       /\ s \o r # <<>> /\ (s \o r)[1] \in {c8, c16, c32}
       /\ ReadLogical(c8, c16, c32, s \o r) = [ok |-> TRUE, n |-> n, rest |-> r]

(* The Read methods read what the Bytes methods write, and no more. *)
LEMMA LogicalRead ==
  ASSUME NEW c8 \in Nat, NEW c16 \in Nat, NEW c32 \in Nat, NEW n \in Word32,
         c16 # c8, c32 # c8, n < 65536 \/ c32 # c16
  PROVE  LogicalSays(Logical(c8, c16, c32, n), c8, c16, c32, n)
<1> DEFINE s == Logical(c8, c16, c32, n)
<1>1. n \in Nat
  BY DEF Word32
<1>2. ASSUME n < 256 PROVE LogicalSays(s, c8, c16, c32, n)
  <2>1. NumberSays(s, c8, 1, 1, n)
    <3>1. s = <<c8, n>>
      BY <1>2 DEF Logical, Narrow
    <3> QED BY <1>1, <3>1, SaysByte
  <2> HIDE DEF s
  <2>2. ASSUME NEW r \in Seq(Nat)
        PROVE  s \o r # <<>> /\ (s \o r)[1] = c8
               /\ ReadLogical(c8, c16, c32, s \o r) = [ok |-> TRUE, n |-> n, rest |-> r]
    <3> DEFINE b == s \o r
    <3>1. b # <<>> /\ b[1] = c8 /\ ReadNumber(b, 1, 1) = [ok |-> TRUE, n |-> n, rest |-> r]
      BY <2>1 DEF NumberSays
    <3> HIDE DEF b
    <3>2. ReadLogical(c8, c16, c32, b) = ReadNumber(b, 1, 1)
      BY <3>1 DEF ReadLogical
    <3> QED BY <3>1, <3>2 DEF b
  <2>3. s \in Seq(Nat) /\ Len(s) >= 2
    BY <2>1 DEF NumberSays
  <2> QED BY <2>2, <2>3 DEF LogicalSays
<1>3. ASSUME n >= 256, n < 65536 PROVE LogicalSays(s, c8, c16, c32, n)
  <2>1. NumberSays(s, c16, 2, 2, n)
    <3>1. ~(n < 256)
      BY <1>1, <1>3
    <3>2. s = <<c16, 0>> \o LE(n, 2)
      BY <1>3, <3>1 DEF Logical, Narrow, Wide
    <3>3. n \in Word16
      BY <1>1, <1>3 DEF Word16
    <3>4. FromLE(LE(n, 2)) = n
      BY ONLY <3>3, LE16
    <3>5. 2 \in {2, 4}
      OBVIOUS
    <3>6. NumberSays(<<c16, 0>> \o LE(n, 2), c16, 2, 2, n)
      BY ONLY <1>1, c16 \in Nat, <3>4, <3>5, SaysWide
    <3> QED BY <3>2, <3>6
  <2> HIDE DEF s
  <2>2. ASSUME NEW r \in Seq(Nat)
        PROVE  s \o r # <<>> /\ (s \o r)[1] = c16
               /\ ReadLogical(c8, c16, c32, s \o r) = [ok |-> TRUE, n |-> n, rest |-> r]
    <3> DEFINE b == s \o r
    <3>1. b # <<>> /\ b[1] = c16 /\ ReadNumber(b, 2, 2) = [ok |-> TRUE, n |-> n, rest |-> r]
      BY <2>1 DEF NumberSays
    <3> HIDE DEF b
    <3>2. ReadLogical(c8, c16, c32, b) = ReadNumber(b, 2, 2)
      BY <3>1 DEF ReadLogical
    <3> QED BY <3>1, <3>2 DEF b
  <2>3. s \in Seq(Nat) /\ Len(s) >= 2
    BY <2>1 DEF NumberSays
  <2> QED BY <2>2, <2>3 DEF LogicalSays
<1>4. ASSUME n >= 65536 PROVE LogicalSays(s, c8, c16, c32, n)
  <2>1. NumberSays(s, c32, 2, 4, n)
    <3>1. ~(n < 256) /\ ~(n < 65536)
      BY <1>1, <1>4
    <3>2. s = <<c32, 0>> \o LE(n, 4)
      BY <3>1 DEF Logical, Narrow, Wide
    <3>3. FromLE(LE(n, 4)) = n
      BY ONLY n \in Word32, LE32
    <3>4. 4 \in {2, 4}
      OBVIOUS
    <3>5. NumberSays(<<c32, 0>> \o LE(n, 4), c32, 2, 4, n)
      BY ONLY <1>1, c32 \in Nat, <3>3, <3>4, SaysWide
    <3> QED BY <3>2, <3>5
  <2>2. c32 # c16 /\ c32 # c8
    BY <1>1, <1>4
  <2> HIDE DEF s
  <2>3. ASSUME NEW r \in Seq(Nat)
        PROVE  s \o r # <<>> /\ (s \o r)[1] = c32
               /\ ReadLogical(c8, c16, c32, s \o r) = [ok |-> TRUE, n |-> n, rest |-> r]
    <3> DEFINE b == s \o r
    <3>1. b # <<>> /\ b[1] = c32 /\ ReadNumber(b, 2, 4) = [ok |-> TRUE, n |-> n, rest |-> r]
      BY <2>1 DEF NumberSays
    <3> HIDE DEF b
    <3>2. ReadLogical(c8, c16, c32, b) = ReadNumber(b, 2, 4)
      BY <2>2, <3>1 DEF ReadLogical
    <3> QED BY <3>1, <3>2 DEF b
  <2>4. s \in Seq(Nat) /\ Len(s) >= 2
    BY <2>1 DEF NumberSays
  <2> QED BY <2>3, <2>4 DEF LogicalSays
<1>5. n < 256 \/ (n >= 256 /\ n < 65536) \/ n >= 65536
  BY <1>1
<1> HIDE DEF s
<1> QED BY <1>2, <1>3, <1>4, <1>5 DEF s

(* Joining byte strings is associative. *)
LEMMA Assoc ==
  ASSUME NEW a \in Seq(Nat), NEW b \in Seq(Nat), NEW c \in Seq(Nat)
  PROVE  (a \o b) \o c = a \o (b \o c)
BY ConcatAssociative

(* Of two byte strings joined, the first and the second. *)
LEMMA TwoParts ==
  ASSUME NEW a \in Seq(Nat), NEW r \in Seq(Nat)
  PROVE  /\ a \o r \in Seq(Nat) /\ Len(a \o r) = Len(a) + Len(r)
         /\ SubSeq(a \o r, 1, Len(a)) = a
         /\ SubSeq(a \o r, Len(a) + 1, Len(a \o r)) = r
         /\ \A i \in 1..Len(a) : (a \o r)[i] = a[i]
         /\ \A i \in 1..Len(r) : (a \o r)[Len(a) + i] = r[i]
BY Apart

(* What a name is to a reader: the byte of its length counts it, and its    *)
(* length is even with the pad.                                             *)
NameSays(s, name) ==
  /\ s \in Seq(Nat) /\ Len(s) >= 2
  /\ \A r \in Seq(Nat) :
       /\ s \o r # <<>> /\ (s \o r)[1] = 145
       /\ getAsciiTagPart(s \o r) = [ok |-> TRUE, name |-> name, rest |-> r]

(* Of a plain name parse_tag_name leaves nothing out. *)
LEMMA PlainNameParses ==
  ASSUME NEW name, PlainName(name)
  PROVE  parse_tag_name(name).ok /\ parse_tag_name(name).base = name
<1>1. bit_access_regex(name) = {} /\ array_access_regex(name) = {}
  BY DEF PlainName
<1>2. parse_tag_name(name) = [ok |-> TRUE, base |-> name]
  BY <1>1 DEF parse_tag_name
<1> QED BY <1>2

(* getAsciiTagPart reads the plain name that marshalIOIPart wrote, and no   *)
(* more.                                                                    *)
LEMMA NameRead ==
  ASSUME NEW name \in Seq(Nat), Len(name) < 256, PlainName(name)
  PROVE  NameSays(marshalIOIPart(name), name)
<1> DEFINE n == Len(name)
           h == <<145, n>>
           pad == IF n % 2 = 1 THEN <<0>> ELSE <<>>
           hn == h \o name
           s == hn \o pad
<1>1. n \in Nat /\ n < 256
  BY LenProperties
<1>2. marshalIOIPart(name) = s
  <2>1. n % 256 = n
    BY <1>1
  <2>2. parse_tag_name(name).base = name
    BY PlainNameParses
  <2> HIDE DEF n
  <2> QED BY <2>1, <2>2 DEF n, marshalIOIPart, Symbolic
<1>3. h \in Seq(Nat) /\ Len(h) = 2 /\ h[1] = 145 /\ h[2] = n
  <2> HIDE DEF n
  <2> QED BY <1>1
<1>4. n % 2 \in {0, 1}
  BY <1>1
<1>5. pad \in Seq(Nat) /\ Len(pad) = n % 2
  BY <1>4
<1> HIDE DEF n, h, pad
<1>6. hn \in Seq(Nat) /\ Len(hn) = Len(h) + Len(name)
  <2>1. h \in Seq(Nat)
    BY <1>3
  <2> QED BY ONLY <2>1, name \in Seq(Nat), TwoParts
<1>7. s \in Seq(Nat) /\ Len(s) = Len(hn) + Len(pad)
  <2>1. hn \in Seq(Nat) /\ pad \in Seq(Nat)
    BY <1>5, <1>6
  <2> HIDE DEF hn
  <2> QED BY ONLY <2>1, TwoParts
<1>8. Len(hn) = 2 + n /\ Len(s) = 2 + n + (n % 2) /\ Len(s) >= 2
  BY <1>1, <1>3, <1>4, <1>5, <1>6, <1>7 DEF n
<1>9. ASSUME NEW r \in Seq(Nat)
      PROVE  /\ s \o r # <<>> /\ (s \o r)[1] = 145
             /\ getAsciiTagPart(s \o r) = [ok |-> TRUE, name |-> name, rest |-> r]
  <2> DEFINE q == pad \o r
             b == s \o r
  <2>1. q \in Seq(Nat)
    BY ONLY <1>5, r \in Seq(Nat), TwoParts
  <2>2. b = hn \o q
    <3> HIDE DEF hn
    <3> QED BY ONLY <1>5, <1>6, r \in Seq(Nat), Assoc
  <2>3. /\ b \in Seq(Nat) /\ Len(b) = Len(s) + Len(r)
        /\ SubSeq(b, Len(s) + 1, Len(b)) = r
    <3> HIDE DEF s
    <3> QED BY ONLY <1>7, r \in Seq(Nat), TwoParts
  <2> HIDE DEF q, b, s
  <2>4. /\ \A i \in 1..Len(h) : b[i] = h[i]
        /\ SubSeq(b, Len(h) + 1, Len(h) + Len(name)) = name
    <3>1. h \in Seq(Nat)
      BY <1>3
    <3>2. /\ \A i \in 1..Len(h) : ((h \o name) \o q)[i] = h[i]
          /\ SubSeq((h \o name) \o q, Len(h) + 1, Len(h) + Len(name)) = name
      BY ONLY <3>1, name \in Seq(Nat), <2>1, Three
    <3> QED BY ONLY <2>2, <3>2 DEF hn
  <2>5. /\ b[1] = 145 /\ b[2] = n
        /\ SubSeq(b, 3, 2 + n) = name
    BY <1>3, <2>4 DEF n
  <2>6. Len(r) \in Nat
    BY LenProperties
  <2>7. Len(b) > 1 /\ ~(Len(b) < 2) /\ ~(Len(b) < 2 + n + (n % 2)) /\ Len(b) # 0
    BY ONLY <1>1, <1>4, <1>8, <2>3, <2>6
  <2>8. b # <<>>
    BY <2>3, <2>7, EmptySeq
  <2>9. SubSeq(b, 2 + n + (n % 2) + 1, Len(b)) = r
    BY <1>8, <2>3
  <2>10. getAsciiTagPart(b) = [ok |-> TRUE, name |-> name, rest |-> r]
    BY <2>5, <2>7, <2>9 DEF getAsciiTagPart
  <2> QED BY <2>5, <2>8, <2>10 DEF b
<1> HIDE DEF s
<1>10. NameSays(s, name)
  BY <1>7, <1>8, <1>9 DEF NameSays
<1> QED BY <1>2, <1>10

(* What a segment is to a device that reads on. *)
SegmentSays(s, call) ==
  /\ s \in Seq(Nat) /\ Len(s) >= 2
  /\ \A r \in Seq(Nat), x \in Seq(BuilderCall) :
       NextSegment([read |-> x, rest |-> s \o r]) = [read |-> Append(x, call), rest |-> r]

(* What the device does with a segment, by its code. *)
LEMMA NextClass ==
  ASSUME NEW st, st.rest # <<>>, st.rest[1] \in {32, 33}, CIPClassRead(st.rest).ok
  PROVE  NextSegment(st) = [read |-> Append(st.read, [do |-> "class", n |-> CIPClassRead(st.rest).n]),
                            rest |-> CIPClassRead(st.rest).rest]
<1>1. /\ st.rest[1] \notin {36, 37, 38} /\ st.rest[1] \notin {48, 49}
      /\ st.rest[1] \notin {40, 41, 42} /\ st.rest[1] # 145
  OBVIOUS
<1> QED BY <1>1 DEF NextSegment, Symbolic

(* The same of an instance. *)
LEMMA NextInstance ==
  ASSUME NEW st, st.rest # <<>>, st.rest[1] \in {36, 37, 38}, CIPInstanceRead(st.rest).ok
  PROVE  NextSegment(st) = [read |-> Append(st.read, [do |-> "instance", n |-> CIPInstanceRead(st.rest).n]),
                            rest |-> CIPInstanceRead(st.rest).rest]
<1>1. /\ st.rest[1] \notin {32, 33} /\ st.rest[1] \notin {48, 49}
      /\ st.rest[1] \notin {40, 41, 42} /\ st.rest[1] # 145
  OBVIOUS
<1> QED BY <1>1 DEF NextSegment, Symbolic

(* The same of an attribute. *)
LEMMA NextAttribute ==
  ASSUME NEW st, st.rest # <<>>, st.rest[1] \in {48, 49}, CIPAttributeRead(st.rest).ok
  PROVE  NextSegment(st) = [read |-> Append(st.read, [do |-> "attribute", n |-> CIPAttributeRead(st.rest).n]),
                            rest |-> CIPAttributeRead(st.rest).rest]
<1>1. /\ st.rest[1] \notin {32, 33} /\ st.rest[1] \notin {36, 37, 38}
      /\ st.rest[1] \notin {40, 41, 42} /\ st.rest[1] # 145
  OBVIOUS
<1> QED BY <1>1 DEF NextSegment, Symbolic

(* The same of an element. *)
LEMMA NextElement ==
  ASSUME NEW st, st.rest # <<>>, st.rest[1] \in {40, 41, 42}, ElementRead(st.rest).ok
  PROVE  NextSegment(st) = [read |-> Append(st.read, [do |-> "element", n |-> ElementRead(st.rest).n]),
                            rest |-> ElementRead(st.rest).rest]
<1>1. /\ st.rest[1] \notin {32, 33} /\ st.rest[1] \notin {36, 37, 38}
      /\ st.rest[1] \notin {48, 49} /\ st.rest[1] # 145
  OBVIOUS
<1> QED BY <1>1 DEF NextSegment, Symbolic

(* The same of a name. *)
LEMMA NextSymbolic ==
  ASSUME NEW st, st.rest # <<>>, st.rest[1] = 145, getAsciiTagPart(st.rest).ok
  PROVE  NextSegment(st) = [read |-> Append(st.read, [do |-> "symbolic", name |-> getAsciiTagPart(st.rest).name]),
                            rest |-> getAsciiTagPart(st.rest).rest]
<1>1. /\ st.rest[1] \notin {32, 33} /\ st.rest[1] \notin {36, 37, 38}
      /\ st.rest[1] \notin {48, 49} /\ st.rest[1] \notin {40, 41, 42}
  OBVIOUS
<1> QED BY <1>1 DEF NextSegment, Symbolic

(* A number of two bytes is one of four. *)
LEMMA Word16In32 == Word16 \subseteq Word32
<1> SUFFICES ASSUME NEW n \in Nat, n < 65536 PROVE n \div 65536 < 65536
  BY DEF Word16, Word32
<1> QED OBVIOUS

(* A class is read as it was built. *)
LEMMA ClassReads ==
  ASSUME NEW n \in Word16
  PROVE  SegmentSays(CIPClass(n), [do |-> "class", n |-> n])
<1> DEFINE s == CIPClass(n)
<1>1. n \in Word32 /\ n < 65536
  BY Word16In32 DEF Word16
<1>2. LogicalSays(s, 32, 33, 33, n)
  BY <1>1, LogicalRead DEF CIPClass
<1> HIDE DEF s
<1>3. ASSUME NEW r \in Seq(Nat), NEW x \in Seq(BuilderCall)
      PROVE  NextSegment([read |-> x, rest |-> s \o r])
               = [read |-> Append(x, [do |-> "class", n |-> n]), rest |-> r]
  <2> DEFINE b == s \o r
  <2>1. b # <<>> /\ b[1] \in {32, 33} /\ CIPClassRead(b) = [ok |-> TRUE, n |-> n, rest |-> r]
    BY <1>2 DEF LogicalSays, CIPClassRead
  <2> HIDE DEF b
  <2>2. NextSegment([read |-> x, rest |-> b]) = [read |-> Append(x, [do |-> "class", n |-> n]), rest |-> r]
    <3> DEFINE st == [read |-> x, rest |-> b]
    <3>1. st.rest = b /\ st.read = x
      OBVIOUS
    <3> HIDE DEF st
    <3>2. NextSegment(st) = [read |-> Append(st.read, [do |-> "class", n |-> n]), rest |-> r]
      BY <2>1, <3>1, NextClass
    <3> QED BY <3>1, <3>2 DEF st
  <2> QED BY <2>2 DEF b
<1>4. s \in Seq(Nat) /\ Len(s) >= 2
  BY <1>2 DEF LogicalSays
<1>5. SegmentSays(s, [do |-> "class", n |-> n])
  BY <1>3, <1>4 DEF SegmentSays
<1> QED BY <1>5 DEF s

(* An instance is read as it was built. *)
LEMMA InstanceReads ==
  ASSUME NEW n \in Word32
  PROVE  SegmentSays(CIPInstance(n), [do |-> "instance", n |-> n])
<1> DEFINE s == CIPInstance(n)
<1>1. LogicalSays(s, 36, 37, 38, n)
  BY LogicalRead DEF CIPInstance
<1> HIDE DEF s
<1>2. ASSUME NEW r \in Seq(Nat), NEW x \in Seq(BuilderCall)
      PROVE  NextSegment([read |-> x, rest |-> s \o r])
               = [read |-> Append(x, [do |-> "instance", n |-> n]), rest |-> r]
  <2> DEFINE b == s \o r
  <2>1. b # <<>> /\ b[1] \in {36, 37, 38} /\ CIPInstanceRead(b) = [ok |-> TRUE, n |-> n, rest |-> r]
    BY <1>1 DEF LogicalSays, CIPInstanceRead
  <2> HIDE DEF b
  <2>2. NextSegment([read |-> x, rest |-> b]) = [read |-> Append(x, [do |-> "instance", n |-> n]), rest |-> r]
    <3> DEFINE st == [read |-> x, rest |-> b]
    <3>1. st.rest = b /\ st.read = x
      OBVIOUS
    <3> HIDE DEF st
    <3>2. NextSegment(st) = [read |-> Append(st.read, [do |-> "instance", n |-> n]), rest |-> r]
      BY <2>1, <3>1, NextInstance
    <3> QED BY <3>1, <3>2 DEF st
  <2> QED BY <2>2 DEF b
<1>3. s \in Seq(Nat) /\ Len(s) >= 2
  BY <1>1 DEF LogicalSays
<1>4. SegmentSays(s, [do |-> "instance", n |-> n])
  BY <1>2, <1>3 DEF SegmentSays
<1> QED BY <1>4 DEF s

(* An attribute is read as it was built. *)
LEMMA AttributeReads ==
  ASSUME NEW n \in Word16
  PROVE  SegmentSays(CIPAttribute(n), [do |-> "attribute", n |-> n])
<1> DEFINE s == CIPAttribute(n)
<1>1. n \in Word32 /\ n < 65536
  BY Word16In32 DEF Word16
<1>2. LogicalSays(s, 48, 49, 49, n)
  BY <1>1, LogicalRead DEF CIPAttribute
<1> HIDE DEF s
<1>3. ASSUME NEW r \in Seq(Nat), NEW x \in Seq(BuilderCall)
      PROVE  NextSegment([read |-> x, rest |-> s \o r])
               = [read |-> Append(x, [do |-> "attribute", n |-> n]), rest |-> r]
  <2> DEFINE b == s \o r
  <2>1. b # <<>> /\ b[1] \in {48, 49} /\ CIPAttributeRead(b) = [ok |-> TRUE, n |-> n, rest |-> r]
    BY <1>2 DEF LogicalSays, CIPAttributeRead
  <2> HIDE DEF b
  <2>2. NextSegment([read |-> x, rest |-> b]) = [read |-> Append(x, [do |-> "attribute", n |-> n]), rest |-> r]
    <3> DEFINE st == [read |-> x, rest |-> b]
    <3>1. st.rest = b /\ st.read = x
      OBVIOUS
    <3> HIDE DEF st
    <3>2. NextSegment(st) = [read |-> Append(st.read, [do |-> "attribute", n |-> n]), rest |-> r]
      BY <2>1, <3>1, NextAttribute
    <3> QED BY <3>1, <3>2 DEF st
  <2> QED BY <2>2 DEF b
<1>4. s \in Seq(Nat) /\ Len(s) >= 2
  BY <1>2 DEF LogicalSays
<1>5. SegmentSays(s, [do |-> "attribute", n |-> n])
  BY <1>3, <1>4 DEF SegmentSays
<1> QED BY <1>5 DEF s

(* The code of 16 bits for what is wider does no harm below 65536. *)
LEMMA ElementReads ==
  ASSUME NEW n \in Word16
  PROVE  SegmentSays(CIPElement(n), [do |-> "element", n |-> n])
<1> DEFINE s == CIPElement(n)
<1>1. n \in Word32 /\ n \in Nat /\ n < 65536
  BY Word16In32 DEF Word16
<1>2. LogicalSays(s, 40, 41, 42, n)
  <2>1. s = Logical(40, 41, 42, n)
    BY <1>1 DEF CIPElement, Logical, Wide, Narrow
  <2>2. LogicalSays(Logical(40, 41, 42, n), 40, 41, 42, n)
    BY <1>1, LogicalRead
  <2> QED BY <2>1, <2>2
<1> HIDE DEF s
<1>3. ASSUME NEW r \in Seq(Nat), NEW x \in Seq(BuilderCall)
      PROVE  NextSegment([read |-> x, rest |-> s \o r])
               = [read |-> Append(x, [do |-> "element", n |-> n]), rest |-> r]
  <2> DEFINE b == s \o r
  <2>1. b # <<>> /\ b[1] \in {40, 41, 42} /\ ElementRead(b) = [ok |-> TRUE, n |-> n, rest |-> r]
    BY <1>2 DEF LogicalSays, ElementRead
  <2> HIDE DEF b
  <2>2. NextSegment([read |-> x, rest |-> b]) = [read |-> Append(x, [do |-> "element", n |-> n]), rest |-> r]
    <3> DEFINE st == [read |-> x, rest |-> b]
    <3>1. st.rest = b /\ st.read = x
      OBVIOUS
    <3> HIDE DEF st
    <3>2. NextSegment(st) = [read |-> Append(st.read, [do |-> "element", n |-> n]), rest |-> r]
      BY <2>1, <3>1, NextElement
    <3> QED BY <3>1, <3>2 DEF st
  <2> QED BY <2>2 DEF b
<1>4. s \in Seq(Nat) /\ Len(s) >= 2
  BY <1>2 DEF LogicalSays
<1>5. SegmentSays(s, [do |-> "element", n |-> n])
  BY <1>3, <1>4 DEF SegmentSays
<1> QED BY <1>5 DEF s

(* A plain name is read as it was built, if one byte holds its length. *)
LEMMA SymbolicReads ==
  ASSUME NEW name \in Seq(Nat), Len(name) < 256, PlainName(name)
  PROVE  SegmentSays(marshalIOIPart(name), [do |-> "symbolic", name |-> name])
<1> DEFINE s == marshalIOIPart(name)
<1>1. NameSays(s, name)
  BY NameRead
<1> HIDE DEF s
<1>2. ASSUME NEW r \in Seq(Nat), NEW x \in Seq(BuilderCall)
      PROVE  NextSegment([read |-> x, rest |-> s \o r])
               = [read |-> Append(x, [do |-> "symbolic", name |-> name]), rest |-> r]
  <2> DEFINE b == s \o r
  <2>1. b # <<>> /\ b[1] = 145 /\ getAsciiTagPart(b) = [ok |-> TRUE, name |-> name, rest |-> r]
    BY <1>1 DEF NameSays
  <2> HIDE DEF b
  <2>2. NextSegment([read |-> x, rest |-> b]) = [read |-> Append(x, [do |-> "symbolic", name |-> name]), rest |-> r]
    <3> DEFINE st == [read |-> x, rest |-> b]
    <3>1. st.rest = b /\ st.read = x
      OBVIOUS
    <3> HIDE DEF st
    <3>2. NextSegment(st) = [read |-> Append(st.read, [do |-> "symbolic", name |-> name]), rest |-> r]
      <4> DEFINE p == getAsciiTagPart(st.rest)
      <4>1. p.ok /\ p.name = name /\ p.rest = r
        BY <2>1, <3>1
      <4>2. st.rest # <<>> /\ st.rest[1] = 145
        BY <2>1, <3>1
      <4>3. NextSegment(st) = [read |-> Append(st.read, [do |-> "symbolic", name |-> p.name]), rest |-> p.rest]
        BY <4>1, <4>2, NextSymbolic
      <4> HIDE DEF p
      <4> QED BY <4>1, <4>3
    <3> QED BY <3>1, <3>2 DEF st
  <2> QED BY <2>2 DEF b
<1>3. s \in Seq(Nat) /\ Len(s) >= 2
  BY <1>1 DEF NameSays
<1>4. SegmentSays(s, [do |-> "symbolic", name |-> name])
  BY <1>2, <1>3 DEF SegmentSays
<1> QED BY <1>4 DEF s

(* Every segment of a logical path is read as the call that built it. *)
LEMMA SegmentReads ==
  ASSUME NEW call \in BuilderCall, ReadAsBuilt(call)
  PROVE  SegmentSays(Segment(call), call)
<1>1. CASE call.do = "class"
  <2>1. call = [do |-> "class", n |-> call.n] /\ call.n \in Word16
    BY <1>1 DEF BuilderCall
  <2>2. Segment(call) = CIPClass(call.n)
    BY <1>1 DEF Segment
  <2> QED BY <2>1, <2>2, ClassReads
<1>2. CASE call.do = "instance"
  <2>1. call = [do |-> "instance", n |-> call.n] /\ call.n \in Word32
    BY <1>2 DEF BuilderCall
  <2>2. Segment(call) = CIPInstance(call.n)
    BY <1>2 DEF Segment
  <2> QED BY <2>1, <2>2, InstanceReads
<1>3. CASE call.do = "attribute"
  <2>1. call = [do |-> "attribute", n |-> call.n] /\ call.n \in Word16
    BY <1>3 DEF BuilderCall
  <2>2. Segment(call) = CIPAttribute(call.n)
    BY <1>3 DEF Segment
  <2> QED BY <2>1, <2>2, AttributeReads
<1>4. CASE call.do = "element"
  <2>1. call = [do |-> "element", n |-> call.n] /\ call.n \in Word32
    BY <1>4 DEF BuilderCall
  <2>2. Segment(call) = CIPElement(call.n)
    BY <1>4 DEF Segment
  <2>3. call.n \in Word16
    <3>1. call.n < 65536
      BY <1>4 DEF ReadAsBuilt
    <3> QED BY <2>1, <3>1 DEF Word16, Word32
  <2> QED BY <2>1, <2>2, <2>3, ElementReads
<1>5. CASE call.do = "symbolic"
  <2>1. call = [do |-> "symbolic", name |-> call.name] /\ call.name \in Seq(Byte)
    BY <1>5 DEF BuilderCall
  <2>2. Segment(call) = marshalIOIPart(call.name)
    BY <1>5 DEF Segment
  <2>3. call.name \in Seq(Nat)
    BY <2>1 DEF Byte
  <2>4. Len(call.name) < 256 /\ PlainName(call.name)
    BY <1>5 DEF ReadAsBuilt
  <2> QED BY <2>1, <2>2, <2>3, <2>4, SymbolicReads
<1> QED BY <1>1, <1>2, <1>3, <1>4, <1>5 DEF ReadAsBuilt

-----------------------------------------------------------------------------
(* A PathBuilder, and the device that reads what it built.                  *)

(* The loop over the calls goes from each to the next. *)
BuilderRuns(u, calls, n) ==
  u[0] = [end |-> "ok", bytes |-> <<>>] /\ \A k \in 1..n : u[k] = Build(u[k - 1], calls[k])

(* PathBuilder is its loop: there is such a run, and it ends with the path. *)
LEMMA BuilderLoop ==
  ASSUME NEW calls, NEW n \in Nat, Len(calls) = n
  PROVE  \E u : BuilderRuns(u, calls, n) /\ PathBuilder(calls) = u[n]
<1> DEFINE a == [end |-> "ok", bytes |-> <<>>]
           F(g) == [k \in 0..n |-> IF k = 0 THEN a ELSE Build(g[k - 1], calls[k])]
           u == CHOOSE g : g = F(g)
           S == {k \in 0..n : \E g : BuilderRuns(g, calls, k)}
<1>1. 0 \in S
  <2> DEFINE g == [i \in 0..n |-> a]
  <2>1. BuilderRuns(g, calls, 0)
    BY DEF BuilderRuns
  <2> HIDE DEF g
  <2> QED BY <2>1
<1>2. ASSUME NEW k \in 1..n, k - 1 \in S PROVE k \in S
  <2>1. PICK g : BuilderRuns(g, calls, k - 1)
    BY <1>2
  <2> DEFINE x == Build(g[k - 1], calls[k])
             h == [i \in 0..n |-> IF i = k THEN x ELSE g[i]]
  <2>2. h[k] = x /\ \A i \in 0..(k - 1) : h[i] = g[i]
    <3> HIDE DEF x
    <3> QED OBVIOUS
  <2> HIDE DEF h
  <2>3. h[0] = a
    BY <2>1, <2>2 DEF BuilderRuns
  <2>4. ASSUME NEW i \in 1..k PROVE h[i] = Build(h[i - 1], calls[i])
    <3>1. CASE i = k
      BY <2>2, <3>1
    <3>2. CASE i # k
      <4>1. i \in 1..(k - 1) /\ h[i] = g[i] /\ h[i - 1] = g[i - 1]
        BY <2>2, <3>2
      <4> QED BY <2>1, <4>1 DEF BuilderRuns
    <3> QED BY <3>1, <3>2
  <2>5. BuilderRuns(h, calls, k)
    BY <2>3, <2>4 DEF BuilderRuns
  <2> QED BY <2>5
<1> HIDE DEF S
<1>3. n \in S
  BY <1>1, <1>2, InductTo
<1>4. PICK g0 : BuilderRuns(g0, calls, n)
  BY <1>3 DEF S
<1> DEFINE g == [k \in 0..n |-> g0[k]]
<1>5. g = F(g)
  <2>1. \A k \in 0..n : g[k] = IF k = 0 THEN a ELSE Build(g[k - 1], calls[k])
    BY <1>4 DEF BuilderRuns
  <2> QED BY <2>1
<1>6. u = F(u)
  <2> HIDE DEF F, g
  <2> QED BY <1>5
<1>7. PathBuilder(calls) = u[n]
  BY DEF PathBuilder
<1> HIDE DEF u
<1>8. BuilderRuns(u, calls, n)
  <2>1. u[0] = a
    BY <1>6
  <2>2. \A k \in 1..n : u[k] = Build(u[k - 1], calls[k])
    BY <1>6
  <2> QED BY <2>1, <2>2 DEF BuilderRuns
<1> QED BY <1>7, <1>8

(* The device reads segment after segment. *)
DeviceRuns(u, b, n) ==
  u[0] = [read |-> <<>>, rest |-> b] /\ \A k \in 1..n : u[k] = NextSegment(u[k - 1])

(* SegmentsRead is its loop. *)
LEMMA DeviceLoop ==
  ASSUME NEW b, NEW n \in Nat, Len(b) = n
  PROVE  \E u : DeviceRuns(u, b, n) /\ SegmentsRead(b) = u[n].read
<1> DEFINE a == [read |-> <<>>, rest |-> b]
           F(g) == [k \in 0..n |-> IF k = 0 THEN a ELSE NextSegment(g[k - 1])]
           u == CHOOSE g : g = F(g)
           S == {k \in 0..n : \E g : DeviceRuns(g, b, k)}
<1>1. 0 \in S
  <2> DEFINE g == [i \in 0..n |-> a]
  <2>1. DeviceRuns(g, b, 0)
    BY DEF DeviceRuns
  <2> HIDE DEF g
  <2> QED BY <2>1
<1>2. ASSUME NEW k \in 1..n, k - 1 \in S PROVE k \in S
  <2>1. PICK g : DeviceRuns(g, b, k - 1)
    BY <1>2
  <2> DEFINE x == NextSegment(g[k - 1])
             h == [i \in 0..n |-> IF i = k THEN x ELSE g[i]]
  <2>2. h[k] = x /\ \A i \in 0..(k - 1) : h[i] = g[i]
    <3> HIDE DEF x
    <3> QED OBVIOUS
  <2> HIDE DEF h
  <2>3. h[0] = a
    BY <2>1, <2>2 DEF DeviceRuns
  <2>4. ASSUME NEW i \in 1..k PROVE h[i] = NextSegment(h[i - 1])
    <3>1. CASE i = k
      BY <2>2, <3>1
    <3>2. CASE i # k
      <4>1. i \in 1..(k - 1) /\ h[i] = g[i] /\ h[i - 1] = g[i - 1]
        BY <2>2, <3>2
      <4> QED BY <2>1, <4>1 DEF DeviceRuns
    <3> QED BY <3>1, <3>2
  <2>5. DeviceRuns(h, b, k)
    BY <2>3, <2>4 DEF DeviceRuns
  <2> QED BY <2>5
<1> HIDE DEF S
<1>3. n \in S
  BY <1>1, <1>2, InductTo
<1>4. PICK g0 : DeviceRuns(g0, b, n)
  BY <1>3 DEF S
<1> DEFINE g == [k \in 0..n |-> g0[k]]
<1>5. g = F(g)
  <2>1. \A k \in 0..n : g[k] = IF k = 0 THEN a ELSE NextSegment(g[k - 1])
    BY <1>4 DEF DeviceRuns
  <2> QED BY <2>1
<1>6. u = F(u)
  <2> HIDE DEF F, g
  <2> QED BY <1>5
<1>7. SegmentsRead(b) = u[n].read
  BY DEF SegmentsRead
<1> HIDE DEF u
<1>8. DeviceRuns(u, b, n)
  <2>1. u[0] = a
    BY <1>6
  <2>2. \A k \in 1..n : u[k] = NextSegment(u[k - 1])
    BY <1>6
  <2> QED BY <2>1, <2>2 DEF DeviceRuns
<1> QED BY <1>7, <1>8

(* Bytes that grow by a piece at a time. *)
Grows(P, pieces, c) ==
  /\ P \in [0..c -> Seq(Nat)] /\ P[0] = <<>>
  /\ \A k \in 1..c : P[k] = P[k - 1] \o pieces[k]

(* The segments of the first calls. *)
Segments(calls, c) == [k \in 1..c |-> Segment(calls[k])]

(* Up to the first call that fails a builder has what was called, and after *)
(* it nothing more.                                                         *)
LEMMA BuiltPath ==
  ASSUME NEW calls \in Seq(BuilderCall), NEW c \in 0..Len(calls),
         \A k \in 1..c : ReadAsBuilt(calls[k]),
         c < Len(calls) => NotBuilt(calls[c + 1])
  PROVE  \E P : /\ Grows(P, Segments(calls, c), c)
                /\ PathBuilder(calls).bytes = P[c]
                /\ PathBuilder(calls).end = IF c = Len(calls) THEN "ok"
                                            ELSE Outcome(calls[c + 1])
<1> DEFINE n == Len(calls)
<1>1. n \in Nat /\ \A k \in 1..n : calls[k] \in BuilderCall
  BY LenProperties, ElementOfSeq
<1>2. PICK u : BuilderRuns(u, calls, n) /\ PathBuilder(calls) = u[n]
  BY <1>1, BuilderLoop
<1> HIDE DEF n
<1>3. \A k \in 1..n : u[k] = Build(u[k - 1], calls[k])
  BY <1>2 DEF BuilderRuns
<1>4. c \in Nat /\ c <= n /\ \A k \in 1..c : k \in 1..n
  BY <1>1 DEF n
<1>5. \A k \in 1..c : Segment(calls[k]) \in Seq(Nat) /\ Outcome(calls[k]) = "ok"
  <2> SUFFICES ASSUME NEW k \in 1..c PROVE Segment(calls[k]) \in Seq(Nat) /\ Outcome(calls[k]) = "ok"
    OBVIOUS
  <2>1. calls[k] \in BuilderCall /\ ReadAsBuilt(calls[k])
    BY <1>1, <1>4
  <2>2. SegmentSays(Segment(calls[k]), calls[k])
    BY <2>1, SegmentReads
  <2>3. calls[k].do # "parse"
    BY <2>1 DEF ReadAsBuilt
  <2>4. calls[k].do = "symbolic" => parse_tag_name(calls[k].name).ok
    BY <2>1, PlainNameParses DEF ReadAsBuilt
  <2>5. Outcome(calls[k]) = "ok"
    BY <2>3, <2>4 DEF Outcome
  <2> QED BY <2>2, <2>5 DEF SegmentSays
<1> DEFINE Ok(k) == u[k].bytes \in Seq(Nat) /\ u[k] = [end |-> "ok", bytes |-> u[k].bytes]
           S == {k \in 0..c : Ok(k)}
<1>6. ASSUME NEW k \in 1..c, Ok(k - 1)
      PROVE  Ok(k) /\ u[k].bytes = u[k - 1].bytes \o Segment(calls[k])
  <2> DEFINE p == u[k - 1].bytes
             s == Segment(calls[k])
  <2>1. u[k - 1] = [end |-> "ok", bytes |-> p] /\ p \in Seq(Nat) /\ s \in Seq(Nat)
    BY <1>5, <1>6
  <2>2. u[k] = Build(u[k - 1], calls[k]) /\ Outcome(calls[k]) = "ok"
    BY <1>3, <1>4, <1>5
  <2> DEFINE v == u[k - 1]
  <2>3. u[k] = [v EXCEPT !.bytes = @ \o s]
    BY <2>1, <2>2 DEF Build
  <2> HIDE DEF p, s, v
  <2>4. u[k] = [end |-> "ok", bytes |-> p \o s]
    <3>1. v = [end |-> "ok", bytes |-> p]
      BY <2>1 DEF v
    <3> QED BY ONLY <2>3, <3>1
  <2>5. p \o s \in Seq(Nat)
    BY ONLY <2>1, TwoParts
  <2>6. u[k].bytes = p \o s
    BY ONLY <2>4
  <2>7. Ok(k)
    BY ONLY <2>4, <2>5, <2>6
  <2> QED BY <2>6, <2>7 DEF p, s
<1>7. \A k \in 0..c : k \in S
  <2>1. 0 \in S
    <3>1. u[0] = [end |-> "ok", bytes |-> <<>>]
      BY <1>2 DEF BuilderRuns
    <3>2. u[0].bytes = <<>>
      BY <3>1
    <3>3. Ok(0)
      BY ONLY <3>1, <3>2
    <3> HIDE DEF Ok
    <3> QED BY <1>4, <3>3
  <2>2. ASSUME NEW k \in 1..c, k - 1 \in S PROVE k \in S
    <3> HIDE DEF Ok
    <3>1. Ok(k - 1)
      BY <2>2
    <3>2. Ok(k)
      BY <1>6, <3>1
    <3> QED BY <1>4, <3>2
  <2> HIDE DEF S
  <2> QED BY <1>4, <2>1, <2>2, InductTo
<1> DEFINE P == [k \in 0..c |-> u[k].bytes]
<1>8. Grows(P, Segments(calls, c), c)
  <2>1. \A k \in 0..c : Ok(k)
    BY <1>7
  <2>2. P \in [0..c -> Seq(Nat)]
    BY <2>1
  <2>3. P[0] = <<>>
    BY <1>2, <1>4 DEF BuilderRuns
  <2>4. \A k \in 1..c : u[k].bytes = u[k - 1].bytes \o Segment(calls[k])
    <3> HIDE DEF Ok
    <3>1. \A k \in 1..c : k - 1 \in 0..c
      BY <1>4
    <3> QED BY <1>6, <2>1, <3>1
  <2>5. \A k \in 1..c : P[k] = P[k - 1] \o Segment(calls[k])
    <3>1. \A k \in 1..c : k \in 0..c /\ k - 1 \in 0..c
      BY <1>4
    <3>2. \A k \in 0..c : P[k] = u[k].bytes
      OBVIOUS
    <3> HIDE DEF P
    <3> QED BY <2>4, <3>1, <3>2
  <2> HIDE DEF P
  <2>6. \A k \in 1..c : P[k] = P[k - 1] \o Segments(calls, c)[k]
    BY <2>5 DEF Segments
  <2> QED BY <2>2, <2>3, <2>6 DEF Grows
<1>9. Ok(c) /\ P[c] = u[c].bytes
  BY <1>4, <1>7
<1>10. CASE c = n
  BY <1>2, <1>8, <1>9, <1>10 DEF n
<1>11. CASE c # n
  <2> DEFINE e == Outcome(calls[c + 1])
             f == [end |-> e, bytes |-> P[c]]
             T == {k \in 0..(n - c - 1) : u[c + 1 + k] = f}
  <2>1. n - c - 1 \in Nat /\ c + 1 \in 1..n /\ c < n
    BY <1>1, <1>4, <1>11
  <2>2. e # "ok"
    BY <2>1 DEF NotBuilt, n
  <2>3. u[c + 1] = f
    <3>1. u[c + 1] = Build(u[c], calls[c + 1])
      <4>1. c + 1 - 1 = c
        BY <1>4
      <4> QED BY <1>3, <2>1, <4>1
    <3>2. u[c + 1] = [u[c] EXCEPT !.end = e]
      BY <1>9, <2>2, <3>1 DEF Build
    <3> HIDE DEF P, e
    <3> QED BY <1>9, <3>2
  <2>4. ASSUME NEW k \in 1..(n - c - 1), u[c + 1 + (k - 1)] = f
        PROVE  u[c + 1 + k] = f
    <3>1. c + 1 + k \in 1..n /\ c + 1 + k - 1 = c + 1 + (k - 1)
      BY <1>1, <1>4
    <3>2. u[c + 1 + k] = Build(f, calls[c + 1 + k])
      BY <1>3, <2>4, <3>1
    <3>3. f.end # "ok"
      BY <2>2
    <3> HIDE DEF f
    <3> QED BY <3>2, <3>3 DEF Build
  <2>5. \A k \in 0..(n - c - 1) : k \in T
    <3>1. 0 \in T
      BY <1>4, <2>1, <2>3
    <3>2. \A k \in 1..(n - c - 1) : k - 1 \in T => k \in T
      <4> HIDE DEF f
      <4> QED BY <2>1, <2>4
    <3> HIDE DEF T
    <3> QED BY <2>1, <3>1, <3>2, InductTo
  <2>6. u[n] = f
    <3>1. c + 1 + (n - c - 1) = n /\ n - c - 1 \in 0..(n - c - 1)
      BY <1>1, <1>4, <2>1
    <3> HIDE DEF f
    <3> QED BY <2>5, <3>1
  <2> HIDE DEF P
  <2> QED BY <1>2, <1>8, <1>11, <2>6 DEF n
<1> QED BY <1>10, <1>11

(* One element more of a sequence. *)
LEMMA OneMore ==
  ASSUME NEW S, NEW s \in Seq(S), NEW j \in 1..Len(s)
  PROVE  /\ SubSeq(s, 1, j - 1) \in Seq(S)
         /\ Append(SubSeq(s, 1, j - 1), s[j]) = SubSeq(s, 1, j)
<1>1. Len(s) \in Nat /\ \A i \in 1..Len(s) : s[i] \in S
  BY LenProperties, ElementOfSeq
<1>2. 1 \in 1..Len(s) /\ j \in 1..Len(s) /\ s[j] \in S
  BY <1>1
<1>3. SubSeq(s, 1, j - 1) \in Seq(S)
  <2>1. 1 \in Int /\ j - 1 \in Int /\ \A i \in 1..(j - 1) : s[i] \in S
    BY <1>1
  <2> QED BY <2>1, SubSeqProperties
<1>4. SubSeq(s, 1, j) = SubSeq(s, 1, j - 1) \o <<s[j]>>
  BY <1>2, SubSeqRecursiveSecond
<1>5. Append(SubSeq(s, 1, j - 1), s[j]) = SubSeq(s, 1, j - 1) \o <<s[j]>>
  BY <1>2, <1>3, AppendIsConcat
<1> QED BY <1>3, <1>4, <1>5

(* Of what grew by a piece at a time, what is behind each piece: of all of  *)
(* it at first, and nothing at the end.                                     *)
Shrinks(D, pieces, c, b) ==
  /\ D \in [0..c -> Seq(Nat)] /\ D[0] = b /\ D[c] = <<>>
  /\ \A k \in 1..c : D[k - 1] = pieces[k] \o D[k]

(* Bytes that grew by pieces of two bytes or more can be taken apart again. *)
LEMMA Pieces ==
  ASSUME NEW c \in Nat, NEW pieces \in [1..c -> Seq(Nat)], \A k \in 1..c : Len(pieces[k]) >= 2,
         NEW P, Grows(P, pieces, c)
  PROVE  /\ P[c] \in Seq(Nat) /\ Len(P[c]) \in Nat /\ Len(P[c]) >= c
         /\ \E D : Shrinks(D, pieces, c, P[c])
<1> DEFINE seg(k) == pieces[k]
<1>1. \A k \in 1..c : k \in 0..c /\ k - 1 \in 0..c
  OBVIOUS
<1>2. \A k \in 1..c : seg(k) \in Seq(Nat) /\ Len(seg(k)) >= 2
  OBVIOUS
<1> HIDE DEF seg
<1>3. /\ \A k \in 0..c : P[k] \in Seq(Nat)
      /\ P[0] = <<>>
      /\ \A k \in 1..c : P[k] = P[k - 1] \o seg(k)
  BY DEF Grows, seg
<1>4. c \in Nat
  OBVIOUS
<1>5. \A k \in 0..c : Len(P[k]) >= k
  <2> DEFINE S == {k \in 0..c : Len(P[k]) >= k}
  <2>1. 0 \in S
    BY <1>4, <1>3
  <2>2. ASSUME NEW k \in 1..c, k - 1 \in S PROVE k \in S
    <3>1. P[k - 1] \in Seq(Nat) /\ seg(k) \in Seq(Nat) /\ P[k] = P[k - 1] \o seg(k)
      BY <1>1, <1>2, <1>3
    <3>2. Len(P[k]) = Len(P[k - 1]) + Len(seg(k))
      BY ONLY <3>1, TwoParts
    <3>3. Len(P[k - 1]) \in Nat /\ Len(seg(k)) \in Nat
      BY <3>1, LenProperties
    <3>4. Len(seg(k)) >= 2 /\ Len(P[k - 1]) >= k - 1 /\ k \in 0..c
      BY <1>1, <1>2, <2>2
    <3>5. Len(P[k]) >= k
      BY ONLY <3>2, <3>3, <3>4, k \in 1..c, <1>4
    <3> QED BY <3>4, <3>5
  <2> HIDE DEF S
  <2>3. \A k \in 0..c : k \in S
    BY <1>4, <2>1, <2>2, InductTo
  <2> QED BY <2>3 DEF S
<1> DEFINE b == P[c]
           Ends(j, d) == d \in Seq(Nat) /\ b = P[j] \o d
<1>6. \A j \in 0..c : \E d : Ends(j, d)
  <2> DEFINE S == {i \in 0..c : \E d : Ends(c - i, d)}
  <2>1. 0 \in S
    <3>1. P[c] \in Seq(Nat) /\ c - 0 = c
      BY <1>4, <1>3
    <3>2. P[c] \o <<>> = P[c] /\ <<>> \in Seq(Nat)
      BY <3>1, ConcatEmptySeq
    <3>3. Ends(c - 0, <<>>)
      BY <3>1, <3>2
    <3> HIDE DEF Ends
    <3> QED BY <1>4, <3>3
  <2>2. ASSUME NEW i \in 1..c, i - 1 \in S PROVE i \in S
    <3> DEFINE k == c - (i - 1)
    <3>1. k \in 1..c /\ k - 1 = c - i /\ i \in 0..c
      BY <1>4
    <3>2. PICK d : Ends(k, d)
      BY <2>2
    <3> HIDE DEF k
    <3>3. P[k - 1] \in Seq(Nat) /\ seg(k) \in Seq(Nat) /\ P[k] = P[k - 1] \o seg(k)
      BY <1>1, <1>2, <1>3, <3>1
    <3> DEFINE e == seg(k) \o d
    <3>4. d \in Seq(Nat) /\ b = (P[k - 1] \o seg(k)) \o d
      BY <3>2, <3>3
    <3>5. e \in Seq(Nat) /\ (P[k - 1] \o seg(k)) \o d = P[k - 1] \o e
      <4>1. P[k - 1] \in Seq(Nat) /\ seg(k) \in Seq(Nat) /\ d \in Seq(Nat)
        BY <3>3, <3>4
      <4>2. e \in Seq(Nat)
        BY ONLY <4>1, TwoParts
      <4>3. (P[k - 1] \o seg(k)) \o d = P[k - 1] \o e
        BY ONLY <4>1, Assoc
      <4> QED BY ONLY <4>2, <4>3
    <3> HIDE DEF e, b
    <3>6. Ends(c - i, e)
      BY <3>1, <3>4, <3>5
    <3> HIDE DEF Ends
    <3> QED BY <3>1, <3>6
  <2> HIDE DEF S
  <2>3. \A i \in 0..c : i \in S
    BY <1>4, <2>1, <2>2, InductTo
  <2>4. \A j \in 0..c : c - j \in 0..c /\ c - (c - j) = j
    BY <1>4
  <2> HIDE DEF Ends
  <2> QED BY <2>3, <2>4 DEF S
<1> DEFINE D(j) == SubSeq(b, Len(P[j]) + 1, Len(b))
<1>7. \A j \in 0..c : D(j) \in Seq(Nat) /\ b = P[j] \o D(j)
  <2> SUFFICES ASSUME NEW j \in 0..c PROVE D(j) \in Seq(Nat) /\ b = P[j] \o D(j)
    OBVIOUS
  <2>1. PICK d : Ends(j, d)
    BY <1>6
  <2>2. P[j] \in Seq(Nat) /\ d \in Seq(Nat) /\ b = P[j] \o d
    BY <1>3, <2>1
  <2> HIDE DEF b
  <2>3. D(j) = d
    BY ONLY <2>2, TwoParts
  <2> QED BY <2>2, <2>3
<1>8. b \in Seq(Nat) /\ Len(b) \in Nat /\ Len(b) >= c
  <2>1. b \in Seq(Nat) /\ Len(b) >= c
    BY <1>4, <1>3, <1>5
  <2> QED BY <2>1, LenProperties
<1>9. \A j \in 1..c : D(j - 1) = seg(j) \o D(j)
  <2> SUFFICES ASSUME NEW j \in 1..c PROVE D(j - 1) = seg(j) \o D(j)
    OBVIOUS
  <2>1. P[j - 1] \in Seq(Nat) /\ seg(j) \in Seq(Nat) /\ P[j] = P[j - 1] \o seg(j)
    BY <1>1, <1>2, <1>3
  <2> DEFINE d == D(j)
             e == seg(j) \o d
  <2>2. d \in Seq(Nat) /\ b = (P[j - 1] \o seg(j)) \o d
    BY <1>1, <1>7, <2>1
  <2> HIDE DEF d
  <2>3. e \in Seq(Nat) /\ (P[j - 1] \o seg(j)) \o d = P[j - 1] \o e
    <3>1. P[j - 1] \in Seq(Nat) /\ seg(j) \in Seq(Nat) /\ d \in Seq(Nat)
      BY <2>1, <2>2
    <3>2. e \in Seq(Nat)
      BY ONLY <3>1, TwoParts
    <3>3. (P[j - 1] \o seg(j)) \o d = P[j - 1] \o e
      BY ONLY <3>1, Assoc
    <3> QED BY ONLY <3>2, <3>3
  <2> HIDE DEF e, b
  <2>4. b = P[j - 1] \o e
    BY <2>2, <2>3
  <2>5. SubSeq(b, Len(P[j - 1]) + 1, Len(b)) = e
    BY ONLY <2>1, <2>3, <2>4, TwoParts
  <2> QED BY <2>5 DEF e, d
<1>10. D(0) = b
  <2>1. 0 \in 0..c
    BY <1>4
  <2> HIDE DEF D, b
  <2>2. b = P[0] \o D(0) /\ D(0) \in Seq(Nat)
    BY <1>7, <2>1
  <2>3. P[0] = <<>>
    BY <1>3
  <2>4. b = <<>> \o D(0)
    BY ONLY <2>2, <2>3
  <2> QED BY <2>2, <2>4, ConcatEmptySeq
<1>11. D(c) = <<>>
  <2>1. c \in 0..c
    BY <1>4
  <2> HIDE DEF D, b
  <2>2. D(c) \in Seq(Nat) /\ b = b \o D(c)
    BY <1>7, <2>1 DEF b
  <2> QED BY <1>8, <2>2, ConcatEqualIffEmpty
<1> HIDE DEF D, b
<1> DEFINE d == [j \in 0..c |-> D(j)]
<1>12. Shrinks(d, pieces, c, b)
  <2>1. \A j \in 0..c : d[j] = D(j)
    OBVIOUS
  <2>2. d \in [0..c -> Seq(Nat)]
    BY <1>7
  <2>3. 0 \in 0..c /\ c \in 0..c
    BY <1>4
  <2> HIDE DEF d
  <2>4. d[0] = b /\ d[c] = <<>>
    BY <1>10, <1>11, <2>1, <2>3
  <2>5. \A k \in 1..c : d[k - 1] = pieces[k] \o d[k]
    BY <1>1, <1>9, <2>1 DEF seg
  <2> QED BY <2>2, <2>4, <2>5 DEF Shrinks
<1> QED BY <1>8, <1>12 DEF b

(* What is built is read, call by call, and then there is nothing left. *)
LEMMA ReadsBuilt ==
  ASSUME NEW calls \in Seq(BuilderCall), NEW c \in 0..Len(calls),
         \A k \in 1..c : ReadAsBuilt(calls[k]),
         NEW P, Grows(P, Segments(calls, c), c)
  PROVE  SegmentsRead(P[c]) = SubSeq(calls, 1, c)
<1> DEFINE n == Len(calls)
           seg == Segments(calls, c)
           b == P[c]
<1>1. n \in Nat /\ c \in Nat /\ c <= n /\ \A k \in 1..n : calls[k] \in BuilderCall
  BY LenProperties, ElementOfSeq
<1>2. \A k \in 1..c : k \in 1..n /\ k \in 0..c /\ k - 1 \in 0..c /\ calls[k] \in BuilderCall
  <2> HIDE DEF n
  <2> QED BY <1>1
<1>3. \A k \in 1..c : SegmentSays(seg[k], calls[k])
  <2>1. \A k \in 1..c : SegmentSays(Segment(calls[k]), calls[k])
    BY <1>2, SegmentReads
  <2> QED BY <2>1 DEF Segments
<1>4. seg \in [1..c -> Seq(Nat)] /\ \A k \in 1..c : Len(seg[k]) >= 2
  <2>1. seg = [k \in 1..c |-> seg[k]]
    BY DEF Segments
  <2> HIDE DEF seg
  <2>2. \A k \in 1..c : seg[k] \in Seq(Nat) /\ Len(seg[k]) >= 2
    BY <1>3 DEF SegmentSays
  <2> QED BY <2>1, <2>2
<1> HIDE DEF seg
<1>5. /\ b \in Seq(Nat) /\ Len(b) \in Nat /\ Len(b) >= c
      /\ \E D : Shrinks(D, seg, c, b)
  <2>1. Grows(P, seg, c)
    BY DEF seg
  <2> QED BY ONLY <1>1, <1>4, <2>1, Pieces
<1>6. PICK D : Shrinks(D, seg, c, b)
  BY <1>5
<1> HIDE DEF b
<1>7. PICK u : DeviceRuns(u, b, Len(b)) /\ SegmentsRead(b) = u[Len(b)].read
  BY <1>5, DeviceLoop
<1> DEFINE At(j) == u[j] = [read |-> SubSeq(calls, 1, j), rest |-> D[j]]
<1>8. \A j \in 0..c : At(j)
  <2> DEFINE S == {j \in 0..c : At(j)}
  <2>1. 0 \in S
    <3>1. b = D[0]
      BY <1>6 DEF Shrinks
    <3>2. SubSeq(calls, 1, 0) = <<>>
      BY SubSeqEmpty
    <3>3. u[0] = [read |-> <<>>, rest |-> b]
      BY <1>7 DEF DeviceRuns
    <3> QED BY <1>1, <3>1, <3>2, <3>3
  <2>2. ASSUME NEW j \in 1..c, j - 1 \in S PROVE j \in S
    <3> DEFINE x == SubSeq(calls, 1, j - 1)
               r == D[j]
    <3>1. u[j] = NextSegment(u[j - 1])
      <4>1. j \in 1..Len(b)
        BY <1>1, <1>5
      <4> QED BY <1>7, <4>1 DEF DeviceRuns
    <3>2. u[j - 1] = [read |-> x, rest |-> seg[j] \o r]
      <4>1. D[j - 1] = seg[j] \o D[j]
        BY <1>6 DEF Shrinks
      <4> QED BY <2>2, <4>1
    <3>3. x \in Seq(BuilderCall) /\ Append(x, calls[j]) = SubSeq(calls, 1, j)
      <4>1. j \in 1..Len(calls)
        BY <1>2 DEF n
      <4> QED BY ONLY calls \in Seq(BuilderCall), <4>1, OneMore
    <3>4. r \in Seq(Nat) /\ j \in 0..c
      BY <1>2, <1>6 DEF Shrinks
    <3> HIDE DEF x, r
    <3>5. NextSegment([read |-> x, rest |-> seg[j] \o r]) = [read |-> Append(x, calls[j]), rest |-> r]
      <4>1. SegmentSays(seg[j], calls[j])
        BY <1>3
      <4> QED BY <3>3, <3>4, <4>1 DEF SegmentSays
    <3>6. u[j] = [read |-> SubSeq(calls, 1, j), rest |-> r]
      BY <3>1, <3>2, <3>3, <3>5
    <3> QED BY <3>4, <3>6 DEF r
  <2> HIDE DEF S
  <2>3. \A k \in 0..c : k \in S
    BY <1>1, <2>1, <2>2, InductTo
  <2> QED BY <2>3 DEF S
<1>9. u[c] = [read |-> SubSeq(calls, 1, c), rest |-> <<>>]
  <2>1. c \in 0..c
    BY <1>1
  <2>2. D[c] = <<>>
    BY <1>6 DEF Shrinks
  <2> QED BY <1>8, <2>1, <2>2
<1> DEFINE w == [read |-> SubSeq(calls, 1, c), rest |-> <<>>]
           l == Len(b) - c
<1>10. NextSegment(w) = w
  BY DEF NextSegment
<1>11. w.read = SubSeq(calls, 1, c)
  OBVIOUS
<1> HIDE DEF w
<1>12. \A k \in 0..l : u[c + k] = w
  <2> DEFINE S == {k \in 0..l : u[c + k] = w}
  <2>1. l \in Nat
    BY <1>1, <1>5
  <2>2. 0 \in S
    BY <1>1, <1>9, <2>1 DEF w
  <2>3. ASSUME NEW k \in 1..l, k - 1 \in S PROVE k \in S
    <3>1. c + k \in 1..Len(b) /\ c + k - 1 = c + (k - 1)
      BY <1>1, <1>5, <2>1
    <3>2. u[c + k] = NextSegment(u[c + (k - 1)])
      BY <1>7, <3>1 DEF DeviceRuns
    <3>3. u[c + k] = w
      BY <1>10, <2>3, <3>2
    <3> QED BY <2>1, <3>3
  <2> HIDE DEF S
  <2>4. \A k \in 0..l : k \in S
    BY <2>1, <2>2, <2>3, InductTo
  <2> QED BY <2>4 DEF S
<1>13. u[Len(b)] = w
  <2>1. l \in 0..l /\ c + l = Len(b)
    BY <1>1, <1>5
  <2> QED BY <1>12, <2>1
<1> QED BY <1>7, <1>11, <1>13 DEF b

-----------------------------------------------------------------------------
(* A route, and the device that reads its hops.                             *)

(* The loop over the parts of a route, and the device's over its hops. *)
ParseRuns(u, route, n) ==
  u[0] = [end |-> "ok", bytes |-> <<>>] /\ \A k \in 1..n : u[k] = AddRoutePart(u[k - 1], route[k])

(* ParsePath is its loop. *)
LEMMA ParseLoop ==
  ASSUME NEW route, NEW n \in Nat, Len(route) = n
  PROVE  \E u : ParseRuns(u, route, n) /\ ParsePath(route) = u[n]
<1> DEFINE a == [end |-> "ok", bytes |-> <<>>]
           F(g) == [k \in 0..n |-> IF k = 0 THEN a ELSE AddRoutePart(g[k - 1], route[k])]
           u == CHOOSE g : g = F(g)
           S == {k \in 0..n : \E g : ParseRuns(g, route, k)}
<1>1. 0 \in S
  <2> DEFINE g == [i \in 0..n |-> a]
  <2>1. ParseRuns(g, route, 0)
    BY DEF ParseRuns
  <2> HIDE DEF g
  <2> QED BY <2>1
<1>2. ASSUME NEW k \in 1..n, k - 1 \in S PROVE k \in S
  <2>1. PICK g : ParseRuns(g, route, k - 1)
    BY <1>2
  <2> DEFINE x == AddRoutePart(g[k - 1], route[k])
             h == [i \in 0..n |-> IF i = k THEN x ELSE g[i]]
  <2>2. h[k] = x /\ \A i \in 0..(k - 1) : h[i] = g[i]
    <3> HIDE DEF x
    <3> QED OBVIOUS
  <2> HIDE DEF h
  <2>3. h[0] = a
    BY <2>1, <2>2 DEF ParseRuns
  <2>4. ASSUME NEW i \in 1..k PROVE h[i] = AddRoutePart(h[i - 1], route[i])
    <3>1. CASE i = k
      BY <2>2, <3>1
    <3>2. CASE i # k
      <4>1. i \in 1..(k - 1) /\ h[i] = g[i] /\ h[i - 1] = g[i - 1]
        BY <2>2, <3>2
      <4> QED BY <2>1, <4>1 DEF ParseRuns
    <3> QED BY <3>1, <3>2
  <2>5. ParseRuns(h, route, k)
    BY <2>3, <2>4 DEF ParseRuns
  <2> QED BY <2>5
<1> HIDE DEF S
<1>3. n \in S
  BY <1>1, <1>2, InductTo
<1>4. PICK g0 : ParseRuns(g0, route, n)
  BY <1>3 DEF S
<1> DEFINE g == [k \in 0..n |-> g0[k]]
<1>5. g = F(g)
  <2>1. \A k \in 0..n : g[k] = IF k = 0 THEN a ELSE AddRoutePart(g[k - 1], route[k])
    BY <1>4 DEF ParseRuns
  <2> QED BY <2>1
<1>6. u = F(u)
  <2> HIDE DEF F, g
  <2> QED BY <1>5
<1>7. ParsePath(route) = u[n]
  BY DEF ParsePath
<1> HIDE DEF u
<1>8. ParseRuns(u, route, n)
  <2>1. u[0] = a
    BY <1>6
  <2>2. \A k \in 1..n : u[k] = AddRoutePart(u[k - 1], route[k])
    BY <1>6
  <2> QED BY <2>1, <2>2 DEF ParseRuns
<1> QED BY <1>7, <1>8

(* u is the run of RouteRead on b. *)
HopRuns(u, b, n) ==
  u[0] = [read |-> <<>>, rest |-> b] /\ \A k \in 1..n : u[k] = NextHop(u[k - 1])

(* RouteRead is its loop. *)
LEMMA HopLoop ==
  ASSUME NEW b, NEW n \in Nat, Len(b) = n
  PROVE  \E u : HopRuns(u, b, n) /\ RouteRead(b) = u[n].read
<1> DEFINE a == [read |-> <<>>, rest |-> b]
           F(g) == [k \in 0..n |-> IF k = 0 THEN a ELSE NextHop(g[k - 1])]
           u == CHOOSE g : g = F(g)
           S == {k \in 0..n : \E g : HopRuns(g, b, k)}
<1>1. 0 \in S
  <2> DEFINE g == [i \in 0..n |-> a]
  <2>1. HopRuns(g, b, 0)
    BY DEF HopRuns
  <2> HIDE DEF g
  <2> QED BY <2>1
<1>2. ASSUME NEW k \in 1..n, k - 1 \in S PROVE k \in S
  <2>1. PICK g : HopRuns(g, b, k - 1)
    BY <1>2
  <2> DEFINE x == NextHop(g[k - 1])
             h == [i \in 0..n |-> IF i = k THEN x ELSE g[i]]
  <2>2. h[k] = x /\ \A i \in 0..(k - 1) : h[i] = g[i]
    <3> HIDE DEF x
    <3> QED OBVIOUS
  <2> HIDE DEF h
  <2>3. h[0] = a
    BY <2>1, <2>2 DEF HopRuns
  <2>4. ASSUME NEW i \in 1..k PROVE h[i] = NextHop(h[i - 1])
    <3>1. CASE i = k
      BY <2>2, <3>1
    <3>2. CASE i # k
      <4>1. i \in 1..(k - 1) /\ h[i] = g[i] /\ h[i - 1] = g[i - 1]
        BY <2>2, <3>2
      <4> QED BY <2>1, <4>1 DEF HopRuns
    <3> QED BY <3>1, <3>2
  <2>5. HopRuns(h, b, k)
    BY <2>3, <2>4 DEF HopRuns
  <2> QED BY <2>5
<1> HIDE DEF S
<1>3. n \in S
  BY <1>1, <1>2, InductTo
<1>4. PICK g0 : HopRuns(g0, b, n)
  BY <1>3 DEF S
<1> DEFINE g == [k \in 0..n |-> g0[k]]
<1>5. g = F(g)
  <2>1. \A k \in 0..n : g[k] = IF k = 0 THEN a ELSE NextHop(g[k - 1])
    BY <1>4 DEF HopRuns
  <2> QED BY <2>1
<1>6. u = F(u)
  <2> HIDE DEF F, g
  <2> QED BY <1>5
<1>7. RouteRead(b) = u[n].read
  BY DEF RouteRead
<1> HIDE DEF u
<1>8. HopRuns(u, b, n)
  <2>1. u[0] = a
    BY <1>6
  <2>2. \A k \in 1..n : u[k] = NextHop(u[k - 1])
    BY <1>6
  <2> QED BY <2>1, <2>2 DEF HopRuns
<1> QED BY <1>7, <1>8

(* A port and a link as bytes. *)
Hop(port, link) ==
  IF IsAddress(link) THEN <<port.n + 16, Len(link.chars)>> \o link.chars ELSE <<port.n, link.n>>

(* s is read as a hop from port to link, whatever follows it. *)
HopSays(s, port, link) ==
  /\ s \in Seq(Nat) /\ Len(s) >= 2
  /\ \A r \in Seq(Nat), x \in Seq(RoutePart) :
       NextHop([read |-> x, rest |-> s \o r]) = [read |-> x \o <<port, link>>, rest |-> r]

(* A port and a link are read as a hop. *)
LEMMA LinkReads ==
  ASSUME NEW p \in Nat, p < 16, NEW l \in Nat
  PROVE  HopSays(<<p, l>>, [kind |-> "number", n |-> p], [kind |-> "number", n |-> l])
<1> DEFINE s == <<p, l>>
           port == [kind |-> "number", n |-> p]
           link == [kind |-> "number", n |-> l]
<1>1. s \in Seq(Nat) /\ Len(s) = 2 /\ s[1] = p /\ s[2] = l
  OBVIOUS
<1> HIDE DEF s
<1>2. ASSUME NEW r \in Seq(Nat), NEW x \in Seq(RoutePart)
      PROVE  NextHop([read |-> x, rest |-> s \o r]) = [read |-> x \o <<port, link>>, rest |-> r]
  <2> DEFINE b == s \o r
             st == [read |-> x, rest |-> b]
  <2>1. /\ Len(b) = Len(s) + Len(r) /\ SubSeq(b, Len(s) + 1, Len(b)) = r
        /\ \A i \in 1..Len(s) : b[i] = s[i]
    BY ONLY <1>1, r \in Seq(Nat), TwoParts
  <2>2. Len(r) \in Nat
    BY LenProperties
  <2> HIDE DEF b
  <2>3. ~(Len(b) < 2) /\ SubSeq(b, 3, Len(b)) = r /\ b[1] = p /\ b[2] = l
    BY ONLY <1>1, <2>1, <2>2
  <2>4. (b[1] \div 16) % 2 # 1
    <3>1. p \div 16 = 0
      OBVIOUS
    <3> QED BY <2>3, <3>1
  <2>5. st.rest = b /\ st.read = x
    OBVIOUS
  <2> HIDE DEF st
  <2>6. NextHop(st) = [read |-> st.read \o <<[kind |-> "number", n |-> b[1]], [kind |-> "number", n |-> b[2]]>>,
                       rest |-> SubSeq(b, 3, Len(b))]
    BY <2>3, <2>4, <2>5 DEF NextHop
  <2>7. NextHop(st) = [read |-> x \o <<port, link>>, rest |-> r]
    BY ONLY <2>3, <2>5, <2>6
  <2> QED BY <2>7 DEF st, b
<1> HIDE DEF port, link
<1>3. HopSays(s, port, link)
  <2>1. Len(s) >= 2
    BY <1>1
  <2> QED BY <1>1, <1>2, <2>1 DEF HopSays
<1> QED BY <1>3 DEF s, port, link

(* So are a port with bit 4 set and an address. *)
LEMMA AddressReads ==
  ASSUME NEW p \in Nat, p < 16, NEW chars \in Seq(Nat), Len(chars) < 256
  PROVE  HopSays(<<p + 16, Len(chars)>> \o chars,
                 [kind |-> "number", n |-> p], [kind |-> "address", chars |-> chars])
<1> DEFINE l == Len(chars)
           q == p + 16
           h == <<q, l>>
           s == h \o chars
           port == [kind |-> "number", n |-> p]
           link == [kind |-> "address", chars |-> chars]
<1>1. l \in Nat /\ q \in Nat /\ q - 16 = p /\ (q \div 16) % 2 = 1
  <2>1. q \in Nat /\ q - 16 = p
    OBVIOUS
  <2>2. q \div 16 = 1
    OBVIOUS
  <2> QED BY <2>1, <2>2, LenProperties
<1> HIDE DEF q
<1>2. h \in Seq(Nat) /\ Len(h) = 2 /\ h[1] = q /\ h[2] = l
  <2> HIDE DEF l
  <2> QED BY <1>1
<1> HIDE DEF h
<1>3. s \in Seq(Nat) /\ Len(s) = 2 + l
  <2>1. s \in Seq(Nat) /\ Len(s) = Len(h) + Len(chars)
    BY ONLY <1>2, chars \in Seq(Nat), TwoParts
  <2> QED BY <1>2, <2>1
<1>4. ASSUME NEW r \in Seq(Nat), NEW x \in Seq(RoutePart)
      PROVE  NextHop([read |-> x, rest |-> s \o r]) = [read |-> x \o <<port, link>>, rest |-> r]
  <2> DEFINE b == s \o r
             st == [read |-> x, rest |-> b]
  <2>1. /\ Len(b) = Len(h) + Len(chars) + Len(r)
        /\ \A i \in 1..Len(h) : b[i] = h[i]
        /\ SubSeq(b, Len(h) + 1, Len(h) + Len(chars)) = chars
        /\ SubSeq(b, Len(h) + Len(chars) + 1, Len(b)) = r
    <3>1. h \in Seq(Nat)
      BY <1>2
    <3> QED BY ONLY <3>1, chars \in Seq(Nat), r \in Seq(Nat), Three
  <2>2. Len(r) \in Nat
    BY LenProperties
  <2> HIDE DEF b
  <2>3. /\ ~(Len(b) < 2) /\ b[1] = q /\ b[2] = l
        /\ SubSeq(b, 3, 2 + l) = chars /\ SubSeq(b, 3 + l, Len(b)) = r
    <3>1. Len(h) + 1 = 3 /\ Len(h) + Len(chars) = 2 + l /\ Len(h) + Len(chars) + 1 = 3 + l
      BY <1>1, <1>2
    <3>2. ~(Len(b) < 2) /\ b[1] = q /\ b[2] = l
      BY <1>1, <1>2, <2>1, <2>2
    <3> QED BY ONLY <2>1, <3>1, <3>2
  <2>4. st.rest = b /\ st.read = x
    OBVIOUS
  <2> HIDE DEF st
  <2>5. NextHop(st) = [read |-> st.read \o <<[kind |-> "number", n |-> b[1] - 16],
                                             [kind |-> "address", chars |-> SubSeq(b, 3, 2 + b[2])]>>,
                       rest |-> SubSeq(b, 3 + b[2], Len(b))]
    BY <1>1, <2>3, <2>4 DEF NextHop
  <2>6. NextHop(st) = [read |-> x \o <<port, link>>, rest |-> r]
    <3>1. b[1] - 16 = p
      BY <1>1, <2>3
    <3> HIDE DEF l
    <3> QED BY ONLY <2>3, <2>4, <2>5, <3>1
  <2> QED BY <2>6 DEF st, b
<1> HIDE DEF port, link, s
<1>5. HopSays(s, port, link)
  <2>1. Len(s) >= 2
    BY <1>1, <1>3
  <2> QED BY <1>3, <1>4, <2>1 DEF HopSays
<1> QED BY <1>5 DEF s, h, q, port, link

(* What a part adds: a number its byte, an address behind a port its length *)
(* and its characters, and bit 4 of the port.                               *)
LEMMA AddNumber ==
  ASSUME NEW p \in Seq(Nat), NEW part \in RoutePart, ~IsAddress(part),
         AddRoutePart([end |-> "ok", bytes |-> p], part).end = "ok"
  PROVE  /\ part.n \in Nat /\ part.n < 256 /\ part = [kind |-> "number", n |-> part.n]
         /\ AddRoutePart([end |-> "ok", bytes |-> p], part) = [end |-> "ok", bytes |-> p \o <<part.n>>]
         /\ p \o <<part.n>> \in Seq(Nat)
<1> DEFINE st == [end |-> "ok", bytes |-> p]
<1>1. part = [kind |-> "number", n |-> part.n] /\ part.n \in Int
  BY DEF RoutePart, IsAddress
<1>2. AddRoutePart(st, part) = IF 0 <= part.n /\ part.n < 256 THEN [st EXCEPT !.bytes = Append(@, part.n)]
                               ELSE [st EXCEPT !.end = "error"]
  BY DEF AddRoutePart
<1>3. 0 <= part.n /\ part.n < 256
  <2>1. [st EXCEPT !.end = "error"].end = "error"
    OBVIOUS
  <2> HIDE DEF st
  <2> QED BY <1>2, <2>1 DEF st
<1>4. part.n \in Nat
  BY <1>1, <1>3
<1>5. Append(p, part.n) = p \o <<part.n>> /\ Append(p, part.n) \in Seq(Nat)
  BY <1>4, AppendIsConcat, AppendProperties
<1>6. AddRoutePart(st, part) = [end |-> "ok", bytes |-> Append(p, part.n)]
  BY <1>2, <1>3
<1> QED BY <1>1, <1>3, <1>4, <1>5, <1>6

(* An address behind a port is taken with the port. *)
LEMMA AddAddress ==
  ASSUME NEW p \in Seq(Nat), NEW n \in Nat, n < 16, NEW part \in RoutePart, IsAddress(part),
         Len(part.chars) < 256
  PROVE  /\ part.chars \in Seq(Nat) /\ part = [kind |-> "address", chars |-> part.chars]
         /\ AddRoutePart([end |-> "ok", bytes |-> p \o <<n>>], part)
              = [end |-> "ok", bytes |-> p \o (<<n + 16, Len(part.chars)>> \o part.chars)]
<1> DEFINE w == <<n>>
           q == p \o w
           st == [end |-> "ok", bytes |-> q]
           c == part.chars
           l == Len(c)
<1>1. part = [kind |-> "address", chars |-> c] /\ c \in Seq(Byte)
  BY DEF RoutePart, IsAddress
<1>2. c \in Seq(Nat)
  BY <1>1 DEF Byte
<1>3. l \in Nat /\ l % 256 = l
  <2>1. l \in Nat
    BY <1>2, LenProperties
  <2>2. l < 256
    OBVIOUS
  <2> HIDE DEF l
  <2> QED BY <2>1, <2>2
<1>4. w \in Seq(Nat) /\ Len(w) = 1 /\ w[1] = n
  OBVIOUS
<1> HIDE DEF w
<1>5. /\ q \in Seq(Nat) /\ Len(q) = Len(p) + Len(w) /\ SubSeq(q, 1, Len(p)) = p
      /\ \A i \in 1..Len(w) : q[Len(p) + i] = w[i]
  <2>1. w \in Seq(Nat)
    BY <1>4
  <2> QED BY ONLY p \in Seq(Nat), <2>1, TwoParts
<1> HIDE DEF q
<1>6. Len(p) \in Nat
  BY LenProperties
<1>7. Len(q) = Len(p) + 1 /\ Len(q) - 1 = Len(p) /\ Len(q) # 0
  BY <1>4, <1>5, <1>6
<1>8. Front(q) = p /\ Last(q) = n /\ q # <<>>
  <2>1. Front(q) = p
    BY <1>5, <1>7 DEF Front
  <2>2. q[Len(p) + 1] = w[1]
    BY <1>4, <1>5
  <2>3. Last(q) = n
    BY <1>4, <1>7, <2>2 DEF Last
  <2>4. q # <<>>
    BY <1>5, <1>7, EmptySeq
  <2> QED BY <2>1, <2>3, <2>4
<1>9. (Last(q) \div 16) % 2 # 1
  <2>1. n \div 16 = 0
    OBVIOUS
  <2> QED BY <1>8, <2>1
<1>10. st.end = "ok" /\ st.bytes = q
  OBVIOUS
<1>11. AddRoutePart(st, part) = [st EXCEPT !.bytes = Front(@) \o <<Last(q) + 16, l % 256>> \o c]
  <2> HIDE DEF st, l, c
  <2> QED BY <1>8, <1>9, <1>10 DEF AddRoutePart, l, c
<1>12. AddRoutePart(st, part) = [end |-> "ok", bytes |-> (p \o <<n + 16, l>>) \o c]
  <2> HIDE DEF l, c
  <2> QED BY ONLY <1>3, <1>8, <1>11
<1>13. <<n + 16, l>> \in Seq(Nat)
  <2> HIDE DEF l
  <2> QED BY <1>3
<1>14. (p \o <<n + 16, l>>) \o c = p \o (<<n + 16, l>> \o c)
  <2> DEFINE h == <<n + 16, l>>
  <2> HIDE DEF l, c, h
  <2>1. h \in Seq(Nat)
    BY <1>13 DEF h
  <2>2. (p \o h) \o c = p \o (h \o c)
    BY ONLY p \in Seq(Nat), <1>2, <2>1, Assoc
  <2> QED BY <2>2 DEF h
<1> HIDE DEF l, c
<1> QED BY <1>1, <1>2, <1>12, <1>14 DEF l, c, st, q, w

(* A hop that is taken without an error adds its bytes, which say it. *)
LEMMA HopAdded ==
  ASSUME NEW p \in Seq(Nat), NEW port \in RoutePart, NEW link \in RoutePart,
         ~IsAddress(port), port.n < 16, IsAddress(link) => Len(link.chars) < 256,
         NEW s1, s1 = AddRoutePart([end |-> "ok", bytes |-> p], port), s1.end = "ok",
         NEW s2, s2 = AddRoutePart(s1, link), s2.end = "ok"
  PROVE  s2 = [end |-> "ok", bytes |-> p \o Hop(port, link)] /\ HopSays(Hop(port, link), port, link)
<1> DEFINE n == port.n
           q == p \o <<n>>
<1>1. /\ n \in Nat /\ port = [kind |-> "number", n |-> n]
      /\ s1 = [end |-> "ok", bytes |-> q] /\ q \in Seq(Nat)
  BY AddNumber
<1>2. n < 16
  OBVIOUS
<1>3. CASE IsAddress(link)
  <2> DEFINE c == link.chars
             h == <<n + 16, Len(c)>> \o c
  <2>1. /\ c \in Seq(Nat) /\ link = [kind |-> "address", chars |-> c]
        /\ s2 = [end |-> "ok", bytes |-> p \o h]
    <3> HIDE DEF n
    <3>1. Len(c) < 256
      BY <1>3
    <3>2. s2 = AddRoutePart([end |-> "ok", bytes |-> p \o <<n>>], link)
      BY <1>1
    <3>3. /\ link.chars \in Seq(Nat) /\ link = [kind |-> "address", chars |-> link.chars]
          /\ AddRoutePart([end |-> "ok", bytes |-> p \o <<n>>], link)
               = [end |-> "ok", bytes |-> p \o (<<n + 16, Len(link.chars)>> \o link.chars)]
      BY ONLY p \in Seq(Nat), <1>1, <1>2, link \in RoutePart, <1>3, <3>1, AddAddress
    <3> QED BY ONLY <3>2, <3>3
  <2>2. HopSays(h, port, link)
    <3>1. Len(c) < 256
      BY <1>3
    <3> HIDE DEF n, c
    <3>2. HopSays(h, [kind |-> "number", n |-> n], [kind |-> "address", chars |-> c])
      BY ONLY <1>1, <1>2, <2>1, <3>1, AddressReads
    <3> QED BY <1>1, <2>1, <3>2
  <2>3. Hop(port, link) = h
    BY <1>3 DEF Hop
  <2> QED BY <2>1, <2>2, <2>3
<1>4. CASE ~IsAddress(link)
  <2> DEFINE l == link.n
             h == <<n, l>>
  <2>1. /\ l \in Nat /\ link = [kind |-> "number", n |-> l]
        /\ s2 = [end |-> "ok", bytes |-> q \o <<l>>]
    <3> HIDE DEF q
    <3>1. s2 = AddRoutePart([end |-> "ok", bytes |-> q], link)
      BY <1>1
    <3>2. AddRoutePart([end |-> "ok", bytes |-> q], link).end = "ok"
      BY <3>1
    <3> QED BY <1>1, <1>4, <3>1, <3>2, AddNumber
  <2> HIDE DEF n, l
  <2>2. HopSays(h, port, link)
    <3>1. HopSays(h, [kind |-> "number", n |-> n], [kind |-> "number", n |-> l])
      BY ONLY <1>1, <1>2, <2>1, LinkReads
    <3> QED BY <1>1, <2>1, <3>1
  <2>3. Hop(port, link) = h
    BY <1>4 DEF Hop, n, l
  <2>4. q \o <<l>> = p \o h
    <3>1. <<n>> \in Seq(Nat) /\ <<l>> \in Seq(Nat)
      BY <1>1, <2>1
    <3>2. <<n>> \o <<l>> = h
      BY ONLY <1>1, <2>1, Pair
    <3> DEFINE a == <<n>>
               b == <<l>>
    <3> HIDE DEF a, b, h
    <3>3. a \in Seq(Nat) /\ b \in Seq(Nat) /\ a \o b = h
      BY <3>1, <3>2 DEF a, b
    <3>4. (p \o a) \o b = p \o (a \o b)
      BY ONLY p \in Seq(Nat), <3>3, Assoc
    <3> QED BY <3>3, <3>4 DEF a, b
  <2> QED BY <2>1, <2>2, <2>3, <2>4
<1> QED BY <1>3, <1>4

(* The bytes of the first hops. *)
HopPieces(route, h) == [k \in 1..h |-> Hop(route[2 * k - 1], route[2 * k])]

(* A route of hops that is taken without an error is the bytes of its hops. *)
LEMMA ParsedRoute ==
  ASSUME NEW route \in Seq(RoutePart), Hops(route), ParsePath(route).end = "ok",
         NEW h \in Nat, Len(route) = 2 * h
  PROVE  /\ \E P : Grows(P, HopPieces(route, h), h) /\ ParsePath(route).bytes = P[h]
         /\ \A k \in 1..h : HopSays(HopPieces(route, h)[k], route[2 * k - 1], route[2 * k])
<1> DEFINE n == 2 * h
<1>1. n \in Nat /\ \A k \in 1..n : route[k] \in RoutePart
  BY ElementOfSeq
<1>2. PICK u : ParseRuns(u, route, n) /\ ParsePath(route) = u[n]
  BY <1>1, ParseLoop
<1>3. u[0] = [end |-> "ok", bytes |-> <<>>] /\ \A k \in 1..n : u[k] = AddRoutePart(u[k - 1], route[k])
  BY <1>2 DEF ParseRuns
<1> HIDE DEF n
<1>4. \A k \in 0..n : u[k].end = "ok"
  <2> DEFINE S == {i \in 0..n : u[n - i].end = "ok"}
  <2>1. 0 \in S
    <3>1. n - 0 = n
      BY <1>1
    <3> QED BY <1>1, <1>2, <3>1
  <2>2. ASSUME NEW i \in 1..n, i - 1 \in S PROVE i \in S
    <3>1. n - (i - 1) \in 1..n /\ n - (i - 1) - 1 = n - i /\ i \in 0..n
      BY <1>1
    <3>2. u[n - (i - 1)] = AddRoutePart(u[n - i], route[n - (i - 1)])
      BY <1>3, <3>1
    <3>3. u[n - (i - 1)].end = "ok"
      BY <2>2
    <3>4. ASSUME u[n - i].end # "ok" PROVE FALSE
      <4>1. AddRoutePart(u[n - i], route[n - (i - 1)]) = u[n - i]
        BY <3>4 DEF AddRoutePart
      <4> QED BY <3>2, <3>3, <3>4, <4>1
    <3> QED BY <3>1, <3>4
  <2> HIDE DEF S
  <2>3. \A i \in 0..n : i \in S
    BY <1>1, <2>1, <2>2, InductTo
  <2>4. \A k \in 0..n : n - k \in 0..n /\ n - (n - k) = k
    BY <1>1
  <2> QED BY <2>3, <2>4 DEF S
<1> DEFINE piece(k) == Hop(route[2 * k - 1], route[2 * k])
           Ok(k) == u[2 * k].bytes \in Seq(Nat) /\ u[2 * k] = [end |-> "ok", bytes |-> u[2 * k].bytes]
<1>5. ASSUME NEW k \in 1..h, Ok(k - 1)
      PROVE  /\ Ok(k) /\ u[2 * k].bytes = u[2 * (k - 1)].bytes \o piece(k)
             /\ HopSays(piece(k), route[2 * k - 1], route[2 * k])
  <2> DEFINE p == u[2 * (k - 1)].bytes
             port == route[2 * k - 1]
             link == route[2 * k]
             s1 == u[2 * k - 1]
             s2 == u[2 * k]
  <2>1. /\ 2 * k - 1 \in 1..n /\ 2 * k \in 1..n /\ 2 * k - 1 - 1 = 2 * (k - 1)
        /\ 2 * k - 1 \in 0..n /\ 2 * k \in 0..n
        /\ (2 * k - 1) % 2 = 1 /\ (2 * k) % 2 # 1
    BY DEF n
  <2>2. p \in Seq(Nat) /\ u[2 * (k - 1)] = [end |-> "ok", bytes |-> p]
    BY <1>5
  <2>3. port \in RoutePart /\ link \in RoutePart
    BY <1>1, <2>1
  <2>4. ~IsAddress(port) /\ port.n < 16 /\ (IsAddress(link) => Len(link.chars) < 256)
    <3>1. DOMAIN route = 1..n
      BY LenProperties DEF n
    <3> QED BY <2>1, <3>1 DEF Hops
  <2>5. s1 = AddRoutePart(u[2 * (k - 1)], port) /\ s1.end = "ok"
    BY <1>3, <1>4, <2>1
  <2>6. s2 = AddRoutePart(s1, link) /\ s2.end = "ok"
    BY <1>3, <1>4, <2>1
  <2> HIDE DEF p, port, link, s1, s2
  <2>7. s1 = AddRoutePart([end |-> "ok", bytes |-> p], port)
    BY <2>2, <2>5
  <2>8. s2 = [end |-> "ok", bytes |-> p \o Hop(port, link)] /\ HopSays(Hop(port, link), port, link)
    <3>1. p \in Seq(Nat) /\ s1.end = "ok"
      BY <2>2, <2>5
    <3>2. s2.end = "ok" /\ s2 = AddRoutePart(s1, link)
      BY <2>6
    <3> QED BY ONLY <2>3, <2>4, <2>7, <3>1, <3>2, HopAdded, Zenon
  <2>9. p \o Hop(port, link) \in Seq(Nat)
    <3>1. Hop(port, link) \in Seq(Nat)
      BY <2>8 DEF HopSays
    <3> QED BY ONLY <2>2, <3>1, TwoParts
  <2>10. s2.bytes = p \o Hop(port, link)
    BY <2>8
  <2>11. Ok(k)
    BY <2>8, <2>9, <2>10 DEF s2
  <2> HIDE DEF Ok
  <2> QED BY <2>8, <2>10, <2>11 DEF p, port, link, s2
<1>6. \A k \in 0..h : Ok(k)
  <2> DEFINE S == {k \in 0..h : Ok(k)}
  <2>1. 0 \in S
    <3>1. 2 * 0 = 0 /\ u[0].bytes = <<>>
      BY <1>3
    <3>2. u[2 * 0] = [end |-> "ok", bytes |-> <<>>] /\ u[2 * 0].bytes = <<>>
      BY <1>3, <3>1
    <3>3. Ok(0)
      BY ONLY <3>2
    <3> HIDE DEF Ok
    <3> QED BY <3>3
  <2>2. ASSUME NEW k \in 1..h, k - 1 \in S PROVE k \in S
    <3> HIDE DEF Ok, piece
    <3>1. Ok(k - 1)
      BY <2>2
    <3> QED BY <1>5, <3>1
  <2> HIDE DEF S
  <2>3. \A k \in 0..h : k \in S
    BY <2>1, <2>2, InductTo
  <2> QED BY <2>3 DEF S
<1> HIDE DEF piece
<1>7. \A k \in 1..h : /\ u[2 * k].bytes = u[2 * (k - 1)].bytes \o piece(k)
                      /\ HopSays(piece(k), route[2 * k - 1], route[2 * k])
  <2>1. \A k \in 1..h : k - 1 \in 0..h
    OBVIOUS
  <2> HIDE DEF Ok
  <2> QED BY <1>5, <1>6, <2>1
<1>8. \A k \in 1..h : HopPieces(route, h)[k] = piece(k)
  BY DEF HopPieces, piece
<1> DEFINE P == [k \in 0..h |-> u[2 * k].bytes]
<1>9. Grows(P, HopPieces(route, h), h)
  <2>1. P \in [0..h -> Seq(Nat)]
    BY <1>6
  <2>2. \A k \in 0..h : P[k] = u[2 * k].bytes
    OBVIOUS
  <2> HIDE DEF P
  <2>3. P[0] = <<>>
    <3>1. 2 * 0 = 0 /\ 0 \in 0..h
      OBVIOUS
    <3> QED BY <1>3, <2>2, <3>1
  <2>4. \A k \in 1..h : k \in 0..h /\ k - 1 \in 0..h
    OBVIOUS
  <2>5. \A k \in 1..h : P[k] = P[k - 1] \o HopPieces(route, h)[k]
    BY <1>7, <1>8, <2>2, <2>4
  <2> QED BY <2>1, <2>3, <2>5 DEF Grows
<1>10. ParsePath(route).bytes = P[h]
  BY <1>2 DEF n
<1> HIDE DEF P
<1>11. \A k \in 1..h : HopSays(HopPieces(route, h)[k], route[2 * k - 1], route[2 * k])
  BY <1>7, <1>8
<1> QED BY <1>9, <1>10, <1>11

(* Two elements more of a sequence. *)
LEMMA TwoMore ==
  ASSUME NEW S, NEW s \in Seq(S), NEW j \in Nat, j + 2 <= Len(s)
  PROVE  /\ SubSeq(s, 1, j) \in Seq(S)
         /\ SubSeq(s, 1, j) \o <<s[j + 1], s[j + 2]>> = SubSeq(s, 1, j + 2)
<1> DEFINE x == SubSeq(s, 1, j)
           y == SubSeq(s, 1, j + 2)
           e == <<s[j + 1], s[j + 2]>>
<1>1. Len(s) \in Nat /\ \A i \in 1..Len(s) : s[i] \in S
  BY LenProperties, ElementOfSeq
<1>2. x \in Seq(S) /\ Len(x) = j /\ \A i \in 1..j : x[i] = s[i]
  <2>1. 1 \in Int /\ j \in Int /\ \A i \in 1..j : s[i] \in S
    BY <1>1
  <2>2. /\ x \in Seq(S) /\ Len(x) = IF 1 <= j THEN j - 1 + 1 ELSE 0
        /\ \A i \in 1..(j - 1 + 1) : x[i] = s[1 + i - 1]
    BY <2>1, SubSeqProperties
  <2>3. j - 1 + 1 = j /\ \A i \in 1..j : 1 + i - 1 = i
    OBVIOUS
  <2> HIDE DEF x
  <2> QED BY <2>2, <2>3
<1>3. y \in Seq(S) /\ Len(y) = j + 2 /\ \A i \in 1..(j + 2) : y[i] = s[i]
  <2> DEFINE n == j + 2
  <2>1. n \in Nat /\ 1 <= n
    OBVIOUS
  <2> HIDE DEF n
  <2>2. 1 \in Int /\ n \in Int /\ \A i \in 1..n : s[i] \in S
    BY <1>1, <2>1 DEF n
  <2>3. /\ SubSeq(s, 1, n) \in Seq(S) /\ Len(SubSeq(s, 1, n)) = IF 1 <= n THEN n - 1 + 1 ELSE 0
        /\ \A i \in 1..(n - 1 + 1) : SubSeq(s, 1, n)[i] = s[1 + i - 1]
    BY <2>2, SubSeqProperties
  <2>4. n - 1 + 1 = n /\ \A i \in 1..n : 1 + i - 1 = i
    BY <2>1
  <2> QED BY <2>1, <2>3, <2>4 DEF n
<1>4. e \in Seq(S) /\ Len(e) = 2 /\ e[1] = s[j + 1] /\ e[2] = s[j + 2]
  <2>1. s[j + 1] \in S /\ s[j + 2] \in S
    BY <1>1
  <2> QED BY <2>1
<1> HIDE DEF x, y, e
<1>5. /\ x \o e \in Seq(S) /\ Len(x \o e) = Len(x) + Len(e)
      /\ \A i \in 1..Len(x) : (x \o e)[i] = x[i]
      /\ \A i \in 1..Len(e) : (x \o e)[Len(x) + i] = e[i]
  <2>1. x \in Seq(S) /\ e \in Seq(S)
    BY <1>2, <1>4
  <2> QED BY ONLY <2>1, Apart
<1>6. \A i \in 1..(j + 2) : (x \o e)[i] = y[i]
  <2>1. \A i \in 1..j : (x \o e)[i] = y[i]
    <3>1. \A i \in 1..j : i \in 1..(j + 2)
      OBVIOUS
    <3>2. \A i \in 1..j : (x \o e)[i] = x[i]
      BY ONLY <1>2, <1>5
    <3>3. \A i \in 1..j : y[i] = s[i]
      BY ONLY <1>3, <3>1
    <3> QED BY ONLY <1>2, <3>2, <3>3
  <2>2. (x \o e)[j + 1] = s[j + 1] /\ (x \o e)[j + 2] = s[j + 2]
    <3>1. 1 \in 1..2 /\ 2 \in 1..2
      OBVIOUS
    <3> QED BY ONLY <1>2, <1>4, <1>5, <3>1
  <2>3. y[j + 1] = s[j + 1] /\ y[j + 2] = s[j + 2]
    BY <1>3
  <2>4. \A i \in 1..(j + 2) : i \in 1..j \/ i = j + 1 \/ i = j + 2
    OBVIOUS
  <2> QED BY <2>1, <2>2, <2>3, <2>4
<1>7. Len(x \o e) = Len(y) /\ Len(y) = j + 2
  BY <1>2, <1>3, <1>4, <1>5
<1>8. x \o e = y
  BY <1>3, <1>5, <1>6, <1>7, SeqEqual
<1> QED BY <1>2, <1>8 DEF x, y, e

(* A route of hops is read, hop by hop, and then there is nothing left. *)
LEMMA HopsRead ==
  ASSUME NEW route \in Seq(RoutePart), Hops(route), ParsePath(route).end = "ok"
  PROVE  RouteRead(ParsePath(route).bytes) = route
<1>1. PICK c \in Nat : Len(route) = 2 * c
  <2> DEFINE n == Len(route)
  <2>1. n \in Nat /\ n % 2 = 0
    BY LenProperties DEF Hops
  <2> HIDE DEF n
  <2>2. n \div 2 \in Nat /\ n = 2 * (n \div 2)
    BY <2>1
  <2> QED BY <2>2 DEF n
<1> DEFINE seg == HopPieces(route, c)
<1>2. /\ \E P : Grows(P, seg, c) /\ ParsePath(route).bytes = P[c]
      /\ \A k \in 1..c : HopSays(seg[k], route[2 * k - 1], route[2 * k])
  BY <1>1, ParsedRoute
<1>3. PICK P : Grows(P, seg, c) /\ ParsePath(route).bytes = P[c]
  BY <1>2
<1>4. seg = [k \in 1..c |-> seg[k]]
  BY DEF HopPieces
<1> HIDE DEF seg
<1>5. seg \in [1..c -> Seq(Nat)] /\ \A k \in 1..c : Len(seg[k]) >= 2
  <2>1. \A k \in 1..c : seg[k] \in Seq(Nat) /\ Len(seg[k]) >= 2
    BY <1>2 DEF HopSays
  <2> QED BY <1>4, <2>1
<1> DEFINE b == P[c]
<1>6. /\ b \in Seq(Nat) /\ Len(b) \in Nat /\ Len(b) >= c
      /\ \E D : Shrinks(D, seg, c, b)
  BY ONLY c \in Nat, <1>5, <1>3, Pieces
<1>7. PICK D : Shrinks(D, seg, c, b)
  BY <1>6
<1> HIDE DEF b
<1>8. PICK u : HopRuns(u, b, Len(b)) /\ RouteRead(b) = u[Len(b)].read
  BY <1>6, HopLoop
<1> DEFINE At(j) == u[j] = [read |-> SubSeq(route, 1, 2 * j), rest |-> D[j]]
<1>9. \A j \in 0..c : At(j)
  <2> DEFINE S == {j \in 0..c : At(j)}
  <2>1. 0 \in S
    <3>1. b = D[0]
      BY <1>7 DEF Shrinks
    <3>2. SubSeq(route, 1, 2 * 0) = <<>>
      <4>1. 2 * 0 = 0
        OBVIOUS
      <4> QED BY <4>1, SubSeqEmpty
    <3>3. u[0] = [read |-> <<>>, rest |-> b]
      BY <1>8 DEF HopRuns
    <3> QED BY <3>1, <3>2, <3>3
  <2>2. ASSUME NEW j \in 1..c, j - 1 \in S PROVE j \in S
    <3> DEFINE x == SubSeq(route, 1, 2 * (j - 1))
               r == D[j]
    <3>1. u[j] = NextHop(u[j - 1])
      <4>1. j \in 1..Len(b)
        BY <1>6
      <4> QED BY <1>8, <4>1 DEF HopRuns
    <3>2. u[j - 1] = [read |-> x, rest |-> seg[j] \o r]
      <4>1. D[j - 1] = seg[j] \o D[j]
        BY <1>7 DEF Shrinks
      <4> QED BY <2>2, <4>1
    <3>3. x \in Seq(RoutePart) /\ x \o <<route[2 * j - 1], route[2 * j]>> = SubSeq(route, 1, 2 * j)
      <4> DEFINE i == 2 * (j - 1)
      <4>1. i \in Nat /\ i + 2 <= Len(route) /\ i + 1 = 2 * j - 1 /\ i + 2 = 2 * j
        BY <1>1
      <4> HIDE DEF i
      <4>2. /\ SubSeq(route, 1, i) \in Seq(RoutePart)
            /\ SubSeq(route, 1, i) \o <<route[i + 1], route[i + 2]>> = SubSeq(route, 1, i + 2)
        BY ONLY route \in Seq(RoutePart), <4>1, TwoMore
      <4> QED BY <4>1, <4>2 DEF i
    <3>4. r \in Seq(Nat) /\ j \in 0..c
      BY <1>7 DEF Shrinks
    <3> HIDE DEF x, r
    <3>5. NextHop([read |-> x, rest |-> seg[j] \o r]) = [read |-> x \o <<route[2 * j - 1], route[2 * j]>>, rest |-> r]
      <4>1. HopSays(seg[j], route[2 * j - 1], route[2 * j])
        BY <1>2
      <4> QED BY <3>3, <3>4, <4>1 DEF HopSays
    <3>6. u[j] = [read |-> SubSeq(route, 1, 2 * j), rest |-> r]
      BY <3>1, <3>2, <3>3, <3>5
    <3> QED BY <3>4, <3>6 DEF r
  <2> HIDE DEF S
  <2>3. \A k \in 0..c : k \in S
    BY <2>1, <2>2, InductTo
  <2> QED BY <2>3 DEF S
<1>10. u[c] = [read |-> route, rest |-> <<>>]
  <2>1. c \in 0..c
    OBVIOUS
  <2>2. SubSeq(route, 1, 2 * c) = route
    BY <1>1, SubSeqFull
  <2>3. D[c] = <<>>
    BY <1>7 DEF Shrinks
  <2> QED BY <1>9, <2>1, <2>2, <2>3
<1> DEFINE w == [read |-> route, rest |-> <<>>]
           l == Len(b) - c
<1>11. NextHop(w) = w
  BY DEF NextHop
<1>12. w.read = route
  OBVIOUS
<1> HIDE DEF w
<1>13. \A k \in 0..l : u[c + k] = w
  <2> DEFINE S == {k \in 0..l : u[c + k] = w}
  <2>1. l \in Nat
    BY <1>6
  <2>2. 0 \in S
    BY <1>10, <2>1 DEF w
  <2>3. ASSUME NEW k \in 1..l, k - 1 \in S PROVE k \in S
    <3>1. c + k \in 1..Len(b) /\ c + k - 1 = c + (k - 1)
      BY <1>6, <2>1
    <3>2. u[c + k] = NextHop(u[c + (k - 1)])
      BY <1>8, <3>1 DEF HopRuns
    <3>3. u[c + k] = w
      BY <1>11, <2>3, <3>2
    <3> QED BY <2>1, <3>3
  <2> HIDE DEF S
  <2>4. \A k \in 0..l : k \in S
    BY <2>1, <2>2, <2>3, InductTo
  <2> QED BY <2>4 DEF S
<1>14. u[Len(b)] = w
  <2>1. l \in 0..l /\ c + l = Len(b)
    BY <1>6
  <2> QED BY <1>13, <2>1
<1> QED BY <1>3, <1>8, <1>12, <1>14 DEF b

-----------------------------------------------------------------------------
(* Paths and routes are read as they were built.                            *)

(* A builder's path: to the first call that is no route, or to the end. *)
LEMMA BuildRead ==
  ASSUME NEW calls \in Seq(BuilderCall), NEW p, p = PathBuilder(calls), p.end \in {"ok", "error"},
         \A k \in DOMAIN calls : ReadAsBuilt(calls[k]) \/ NotBuilt(calls[k])
  PROVE  \/ p.end = "ok" /\ SegmentsRead(p.bytes) = calls
         \/ /\ p.end = "error"
            /\ \E k \in DOMAIN calls :
                 /\ NotBuilt(calls[k]) /\ \A i \in 1..(k - 1) : ~NotBuilt(calls[i])
                 /\ SegmentsRead(p.bytes) = SubSeq(calls, 1, k - 1)
<1> DEFINE n == Len(calls)
           T == {k \in 1..n : NotBuilt(calls[k])}
<1>1. n \in Nat /\ DOMAIN calls = 1..n
  BY LenProperties
<1>2. ASSUME NEW c \in 0..n, \A k \in 1..c : ~NotBuilt(calls[k]), c < n => NotBuilt(calls[c + 1])
      PROVE  /\ SegmentsRead(p.bytes) = SubSeq(calls, 1, c)
             /\ p.end = IF c = n THEN "ok" ELSE Outcome(calls[c + 1])
  <2>1. \A k \in 1..c : ReadAsBuilt(calls[k])
    <3>1. \A k \in 1..c : k \in 1..n
      BY <1>1
    <3> QED BY <1>1, <1>2, <3>1
  <2>2. PICK P : /\ Grows(P, Segments(calls, c), c)
                 /\ PathBuilder(calls).bytes = P[c]
                 /\ PathBuilder(calls).end = IF c = Len(calls) THEN "ok"
                                             ELSE Outcome(calls[c + 1])
    BY <1>2, <2>1, BuiltPath
  <2>3. SegmentsRead(P[c]) = SubSeq(calls, 1, c)
    BY <2>1, <2>2, ReadsBuilt
  <2> QED BY <2>2, <2>3
<1>3. CASE T = {}
  <2>1. \A k \in 1..n : ~NotBuilt(calls[k])
    BY <1>3
  <2>2. n \in 0..n /\ ~(n < n)
    BY <1>1
  <2>3. SegmentsRead(p.bytes) = SubSeq(calls, 1, n) /\ p.end = "ok"
    <3> HIDE DEF n
    <3> QED BY <1>2, <2>1, <2>2
  <2>4. SubSeq(calls, 1, n) = calls
    BY SubSeqFull
  <2> QED BY <2>3, <2>4
<1>4. CASE T # {}
  <2>1. PICK x \in T : \A y \in T : x <= y
    <3>1. T \in SUBSET Nat
      BY <1>1
    <3> HIDE DEF T
    <3> QED BY <1>4, <3>1, Least
  <2> DEFINE c == x - 1
  <2>2. x \in 1..n /\ c \in 0..n /\ c < n /\ c # n /\ c + 1 = x /\ NotBuilt(calls[x])
    BY <1>1, <2>1
  <2>3. \A k \in 1..c : ~NotBuilt(calls[k])
    <3>1. \A k \in 1..c : k \in 1..n /\ ~(x <= k)
      BY <1>1, <2>2
    <3> QED BY <2>1, <3>1
  <2>4. /\ SegmentsRead(p.bytes) = SubSeq(calls, 1, c)
        /\ p.end = Outcome(calls[x])
    <3> HIDE DEF n, c
    <3>1. NotBuilt(calls[c + 1])
      BY <2>2
    <3>2. /\ SegmentsRead(p.bytes) = SubSeq(calls, 1, c)
          /\ p.end = IF c = n THEN "ok" ELSE Outcome(calls[c + 1])
      BY <1>2, <2>2, <2>3, <3>1
    <3> QED BY <2>2, <3>2
  <2>5. p.end = "error"
    <3>1. Outcome(calls[x]) # "ok"
      BY <2>2 DEF NotBuilt
    <3> QED BY <2>4, <3>1
  <2> QED BY <1>1, <2>2, <2>3, <2>4, <2>5
<1> QED BY <1>3, <1>4

(* The device has what it read of what was built, and the client what it    *)
(* made of the answer.                                                      *)
BuildInv ==
  job.kind = "build" =>
    /\ stage \in {1, 2, Done}
    /\ stage # 1 => wire = PathBuilder(job.calls)
    /\ stage = Done => wire.end \in {"ok", "error"} /\ got = SegmentsRead(wire.bytes)

(* Of a route, once it is parsed and once it is read. *)
RouteInv ==
  job.kind = "route" =>
    /\ stage \in {1, 2, Done}
    /\ stage # 1 => wire = ParsePath(job.route)
    /\ stage = Done => wire.end = "ok" /\ got = RouteRead(wire.bytes)

(* Of a server that says who it is, once it answered and once it is read. *)
IdentityInv ==
  job.kind = "identity" =>
    /\ stage \in {1, 2, Done, Refused}
    /\ stage = Refused => job.id.typed # Attributes
    /\ stage \in {2, Done} => wire = frameListIdentityResponse(buildListIdentityItemBody(job.id))
    /\ stage = Done => got = ListIdentity(wire)

(* The inductive invariant: what each stage has of the one before it. *)
ConversationInv == job \in Conversations /\ BuildInv /\ RouteInv /\ IdentityInv

(* A conversation begins with the invariant. *)
LEMMA ConversationInvInit == ConversationInit => ConversationInv
BY DEF ConversationInit, ConversationInv, BuildInv, RouteInv, IdentityInv, Done, Refused

(* Every step of a conversation keeps it. *)
LEMMA ConversationInvStep == ConversationInv /\ [ConversationNext]_conversation => ConversationInv'
<1> SUFFICES ASSUME ConversationInv, [ConversationNext]_conversation PROVE ConversationInv'
  OBVIOUS
<1> USE DEF ConversationInv, BuildInv, RouteInv, IdentityInv, Done, Refused
<1>1. CASE WriteTag
  BY <1>1 DEF WriteTag
<1>2. CASE ServeWrite
  BY <1>2 DEF ServeWrite
<1>3. CASE ReadTags
  BY <1>3 DEF ReadTags
<1>4. CASE ServeReads
  BY <1>4 DEF ServeReads
<1>5. CASE TakeReply
  BY <1>5 DEF TakeReply
<1>6. CASE BuildPath
  BY <1>6 DEF BuildPath
<1>7. CASE DeviceReads
  BY <1>7 DEF DeviceReads
<1>8. CASE AnswerIdentity
  BY <1>8 DEF AnswerIdentity
<1>9. CASE TakeIdentity
  BY <1>9 DEF TakeIdentity
<1>10. CASE UNCHANGED conversation
  BY <1>10 DEF conversation
<1> QED BY <1>1, <1>2, <1>3, <1>4, <1>5, <1>6, <1>7, <1>8, <1>9, <1>10 DEF ConversationNext

(* The invariant is strong enough for the paths. *)
LEMMA PathsReadHolds ==
  ASSUME ConversationInv
  PROVE  PathsRead
<1> SUFFICES ASSUME stage = Done
             PROVE  /\ ( /\ job.kind = "build"
                         /\ \A k \in DOMAIN job.calls : ReadAsBuilt(job.calls[k]) \/ NotBuilt(job.calls[k]) ) =>
                         \/ wire.end = "ok" /\ got = job.calls
                         \/ /\ wire.end = "error"
                            /\ \E k \in DOMAIN job.calls :
                                 /\ NotBuilt(job.calls[k]) /\ \A i \in 1..(k - 1) : ~NotBuilt(job.calls[i])
                                 /\ got = SubSeq(job.calls, 1, k - 1)
                    /\ (job.kind = "route" /\ Hops(job.route)) => got = job.route
  BY DEF PathsRead
<1>1. stage # 1
  BY DEF Done
<1>2. ASSUME job.kind = "build",
             \A k \in DOMAIN job.calls : ReadAsBuilt(job.calls[k]) \/ NotBuilt(job.calls[k])
      PROVE  \/ wire.end = "ok" /\ got = job.calls
             \/ /\ wire.end = "error"
                /\ \E k \in DOMAIN job.calls :
                     /\ NotBuilt(job.calls[k]) /\ \A i \in 1..(k - 1) : ~NotBuilt(job.calls[i])
                     /\ got = SubSeq(job.calls, 1, k - 1)
  <2> DEFINE calls == job.calls
  <2>1. calls \in Seq(BuilderCall)
    <3>1. calls \in Builds
      BY <1>2 DEF ConversationInv, Conversations
    <3> QED BY <3>1, ConversationAssumption
  <2>2. wire = PathBuilder(calls) /\ wire.end \in {"ok", "error"} /\ got = SegmentsRead(wire.bytes)
    BY <1>1, <1>2 DEF ConversationInv, BuildInv
  <2>3. \A k \in DOMAIN calls : ReadAsBuilt(calls[k]) \/ NotBuilt(calls[k])
    BY <1>2
  <2> HIDE DEF calls
  <2>4. \/ wire.end = "ok" /\ SegmentsRead(wire.bytes) = calls
        \/ /\ wire.end = "error"
           /\ \E k \in DOMAIN calls :
                /\ NotBuilt(calls[k]) /\ \A i \in 1..(k - 1) : ~NotBuilt(calls[i])
                /\ SegmentsRead(wire.bytes) = SubSeq(calls, 1, k - 1)
    BY ONLY <2>1, <2>2, <2>3, BuildRead
  <2> QED BY <2>2, <2>4 DEF calls
<1>3. ASSUME job.kind = "route", Hops(job.route)
      PROVE  got = job.route
  <2> DEFINE route == job.route
  <2>1. route \in Seq(RoutePart)
    <3>1. route \in Routes
      BY <1>3 DEF ConversationInv, Conversations
    <3> QED BY <3>1, ConversationAssumption
  <2>2. wire = ParsePath(route) /\ wire.end = "ok" /\ got = RouteRead(wire.bytes)
    BY <1>1, <1>3 DEF ConversationInv, RouteInv
  <2>3. Hops(route)
    BY <1>3
  <2> HIDE DEF route
  <2>4. RouteRead(ParsePath(route).bytes) = route
    BY <2>1, <2>2, <2>3, HopsRead
  <2> QED BY <2>2, <2>4 DEF route
<1> QED BY <1>2, <1>3

(* What a device reads of a path or of a route is what it was built of. *)
THEOREM PathsReadAlways == ConversationSpec => []PathsRead
<1>1. ConversationInv => PathsRead
  BY PathsReadHolds
<1> QED BY <1>1, ConversationInvInit, ConversationInvStep, PTL DEF ConversationSpec

-----------------------------------------------------------------------------
(* Who is there.                                                            *)

(* b begins with p. *)
Begins(p, b) == \E d \in Seq(Nat) : b = p \o d

(* What follows a beginning is a part of the whole. *)
LEMMA Field ==
  ASSUME NEW p \in Seq(Nat), NEW w \in Seq(Nat), NEW b, Begins(p \o w, b)
  PROVE  /\ Begins(p, b) /\ SubSeq(b, Len(p) + 1, Len(p) + Len(w)) = w
         /\ \A i \in 1..Len(w) : b[Len(p) + i] = w[i]
<1>1. PICK d \in Seq(Nat) : b = (p \o w) \o d
  BY DEF Begins
<1>2. SubSeq(b, Len(p) + 1, Len(p) + Len(w)) = w
  BY ONLY p \in Seq(Nat), w \in Seq(Nat), d \in Seq(Nat), <1>1, Three
<1>3. b = p \o (w \o d) /\ w \o d \in Seq(Nat)
  <2>1. (p \o w) \o d = p \o (w \o d)
    BY ONLY p \in Seq(Nat), w \in Seq(Nat), d \in Seq(Nat), Assoc
  <2>2. w \o d \in Seq(Nat)
    BY ONLY w \in Seq(Nat), d \in Seq(Nat), TwoParts
  <2> QED BY ONLY <1>1, <2>1, <2>2
<1>4. \A i \in 1..Len(w) : b[Len(p) + i] = w[i]
  <2> DEFINE e == w \o d
  <2>1. Len(e) = Len(w) + Len(d) /\ \A i \in 1..Len(w) : e[i] = w[i]
    BY ONLY w \in Seq(Nat), d \in Seq(Nat), TwoParts
  <2>2. Len(w) \in Nat /\ Len(d) \in Nat
    BY LenProperties
  <2>3. e \in Seq(Nat) /\ b = p \o e
    BY <1>3
  <2> HIDE DEF e
  <2>4. \A i \in 1..Len(e) : b[Len(p) + i] = e[i]
    BY ONLY p \in Seq(Nat), <2>3, TwoParts
  <2>5. \A i \in 1..Len(w) : i \in 1..Len(e)
    BY <2>1, <2>2
  <2> QED BY <2>1, <2>4, <2>5
<1>5. Begins(p, b)
  BY <1>3 DEF Begins
<1> QED BY <1>2, <1>4, <1>5

(* Two bytes, lowest first, are read as they are written. *)
LEMMA Word16LE ==
  ASSUME NEW n \in Word16
  PROVE  LE(n, 2) \in Seq(Nat) /\ Len(LE(n, 2)) = 2 /\ FromLE(LE(n, 2)) = n
<1>1. n \in Nat /\ 2 \in 1..4
  BY DEF Word16
<1> QED BY <1>1, LEIs, LE16

(* A function on an interval from 1 is a sequence. *)
LEMMA FunctionSeq ==
  ASSUME NEW S, NEW k \in Nat, NEW f \in [1..k -> S]
  PROVE  f \in Seq(S) /\ Len(f) = k
OBVIOUS

(* Highest byte first, and read so. *)
LEMMA Word16BE ==
  ASSUME NEW n \in Word16
  PROVE  BE(n, 2) \in Seq(Nat) /\ Len(BE(n, 2)) = 2 /\ FromLE(Reverse(BE(n, 2))) = n
<1> DEFINE s == LE(n, 2)
           t == Reverse(s)
           v == Reverse(t)
<1>1. s \in Seq(Nat) /\ Len(s) = 2 /\ FromLE(s) = n
  BY Word16LE
<1> HIDE DEF s
<1>2. s[1] \in Nat /\ s[2] \in Nat
  BY <1>1, ElementOfSeq
<1>3. t = [i \in 1..2 |-> s[(2 - i) + 1]]
  BY <1>1 DEF Reverse
<1>4. t \in Seq(Nat) /\ Len(t) = 2 /\ t[1] = s[2] /\ t[2] = s[1]
  <2>1. t \in [1..2 -> Nat] /\ t[1] = s[2] /\ t[2] = s[1]
    BY <1>2, <1>3
  <2> DEFINE k == 2
  <2>2. k \in Nat /\ t \in [1..k -> Nat] /\ k = 2
    BY <2>1
  <2> HIDE DEF t, k
  <2>3. t \in Seq(Nat) /\ Len(t) = k
    BY ONLY <2>2, FunctionSeq
  <2> QED BY ONLY <2>1, <2>2, <2>3
<1> HIDE DEF t
<1>5. v = [i \in 1..2 |-> t[(2 - i) + 1]]
  BY <1>4 DEF Reverse
<1>6. v \in Seq(Nat) /\ Len(v) = 2 /\ v[1] = s[1] /\ v[2] = s[2]
  <2>1. v \in [1..2 -> Nat] /\ v[1] = s[1] /\ v[2] = s[2]
    BY <1>2, <1>4, <1>5
  <2> DEFINE k == 2
  <2>2. k \in Nat /\ v \in [1..k -> Nat] /\ k = 2
    BY <2>1
  <2> HIDE DEF v, k
  <2>3. v \in Seq(Nat) /\ Len(v) = k
    BY ONLY <2>2, FunctionSeq
  <2> QED BY ONLY <2>1, <2>2, <2>3
<1> HIDE DEF v
<1>7. v = s
  <2>1. \A i \in 1..Len(v) : v[i] = s[i]
    BY <1>1, <1>6
  <2> QED BY <1>1, <1>6, <2>1, SeqEqual
<1> QED BY <1>1, <1>4, <1>7 DEF v, t, s, BE

(* The answer: a count of one, and an item whose data are the body. *)
HasItem(r, body) ==
  /\ Len(r) = 4 + Len(body)
  /\ FromLE(SubSeq(r, 3, 4)) = Len(body)
  /\ SubSeq(r, 5, 4 + Len(body)) = body

(* The answer that frameListIdentityResponse makes counts one item, the body. *)
LEMMA FrameHasItem ==
  ASSUME NEW body \in Seq(Nat), Len(body) < 65536
  PROVE  /\ ~(Len(frameListIdentityResponse(body)) < 2)
         /\ FromLE(SubSeq(frameListIdentityResponse(body), 1, 2)) = 1
         /\ HasItem(Drop(frameListIdentityResponse(body), 2), body)
<1> DEFINE a1 == LE(1, 2)
           a2 == LE(12, 2)
           a3 == LE(Len(body), 2)
           p2 == a1 \o a2
           p3 == p2 \o a3
           b == p3 \o body
           len == Len(body)
<1>1. len \in Nat /\ len < 65536
  BY LenProperties
<1>2. 1 \in Word16 /\ 12 \in Word16 /\ len \in Word16
  <2> HIDE DEF len
  <2> QED BY <1>1 DEF Word16
<1> HIDE DEF len
<1>3. a1 \in Seq(Nat) /\ Len(a1) = 2 /\ FromLE(a1) = 1
  BY ONLY <1>2, Word16LE
<1>4. a2 \in Seq(Nat) /\ Len(a2) = 2 /\ FromLE(a2) = 12
  BY ONLY <1>2, Word16LE
<1>5. a3 \in Seq(Nat) /\ Len(a3) = 2 /\ FromLE(a3) = len
  BY ONLY <1>2, Word16LE DEF len
<1>6. frameListIdentityResponse(body) = b
  BY DEF frameListIdentityResponse
<1> HIDE DEF a1, a2, a3
<1> DEFINE r2 == a3 \o body
           r1 == a2 \o r2
<1>7. r2 \in Seq(Nat) /\ Len(r2) = Len(a3) + Len(body)
  BY ONLY <1>5, body \in Seq(Nat), TwoParts
<1>8. /\ r1 \in Seq(Nat) /\ Len(r1) = Len(a2) + Len(r2)
      /\ SubSeq(r1, 1, Len(a2)) = a2
  <2> HIDE DEF r2
  <2> QED BY ONLY <1>4, <1>7, TwoParts
<1>9. r1 = (a2 \o a3) \o body
  BY ONLY <1>4, <1>5, body \in Seq(Nat), Assoc
<1>10. /\ SubSeq(r1, Len(a2) + 1, Len(a2) + Len(a3)) = a3
       /\ SubSeq(r1, Len(a2) + Len(a3) + 1, Len(r1)) = body
  <2>1. a2 \in Seq(Nat) /\ a3 \in Seq(Nat)
    BY <1>4, <1>5
  <2> HIDE DEF r1
  <2> QED BY ONLY <1>9, <2>1, body \in Seq(Nat), Three
<1>11. b = a1 \o r1
  <2>1. a1 \in Seq(Nat) /\ a2 \in Seq(Nat) /\ a3 \in Seq(Nat)
    BY <1>3, <1>4, <1>5
  <2>2. p2 \in Seq(Nat)
    BY ONLY <2>1, TwoParts
  <2>3. b = p2 \o r2
    <3> HIDE DEF p2
    <3> QED BY ONLY <2>1, <2>2, body \in Seq(Nat), Assoc
  <2>4. r2 \in Seq(Nat)
    BY <1>7
  <2> HIDE DEF r2
  <2>5. p2 \o r2 = a1 \o r1
    <3>1. a1 \in Seq(Nat) /\ a2 \in Seq(Nat)
      BY <2>1
    <3> QED BY ONLY <3>1, <2>4, Assoc
  <2> QED BY <2>5, <2>3
<1> HIDE DEF b, r1, r2
<1>12. /\ b \in Seq(Nat) /\ Len(b) = Len(a1) + Len(r1)
       /\ SubSeq(b, 1, Len(a1)) = a1 /\ SubSeq(b, Len(a1) + 1, Len(b)) = r1
  <2>1. a1 \in Seq(Nat) /\ r1 \in Seq(Nat)
    BY <1>3, <1>8
  <2> QED BY ONLY <1>11, <2>1, TwoParts
<1>13. /\ Len(r1) = 4 + len /\ SubSeq(r1, 3, 4) = a3 /\ SubSeq(r1, 5, 4 + len) = body
  <2>1. Len(a2) + 1 = 3 /\ Len(a2) + Len(a3) = 4 /\ Len(a2) + Len(a3) + 1 = 5 /\ Len(r1) = 4 + len
    BY <1>1, <1>4, <1>5, <1>7, <1>8 DEF len
  <2> QED BY ONLY <1>10, <2>1
<1>14. HasItem(r1, body)
  BY ONLY <1>5, <1>13 DEF HasItem, len
<1>15. SubSeq(b, 1, 2) = a1 /\ Drop(b, 2) = r1 /\ ~(Len(b) < 2)
  <2>1. Len(b) = 2 + Len(r1) /\ Len(a1) + 1 = 3 /\ 2 + 1 = 3
    BY ONLY <1>3, <1>12
  <2>2. Len(r1) \in Nat
    BY ONLY <1>1, <1>13
  <2>3. ~(Len(b) < 2)
    BY ONLY <2>1, <2>2
  <2> QED BY ONLY <1>3, <1>12, <2>1, <2>3 DEF Drop
<1> QED BY ONLY <1>3, <1>6, <1>14, <1>15

(* ReadItem takes that item as it was put. *)
LEMMA ItemRead ==
  ASSUME NEW body \in Seq(Nat), NEW r, HasItem(r, body), NEW y,
         y = ReadItem([ok |-> TRUE, items |-> <<>>, rest |-> r])
  PROVE  y.ok /\ y.items # <<>> /\ y.items[1].data = body
<1> DEFINE x == [ok |-> TRUE, items |-> <<>>, rest |-> r]
           len == Len(body)
           item == [id |-> FromLE(SubSeq(r, 1, 2)), data |-> SubSeq(r, 5, 4 + len)]
<1>1. len \in Nat
  BY LenProperties
<1>2. Len(r) = 4 + len /\ FromLE(SubSeq(r, 3, 4)) = len /\ SubSeq(r, 5, 4 + len) = body
  BY DEF HasItem
<1> HIDE DEF len
<1>3. ~(Len(r) < 4) /\ ~(Len(r) < 4 + len)
  BY ONLY <1>1, <1>2
<1>4. x.ok /\ x.rest = r /\ x.items = <<>>
  OBVIOUS
<1>5. y = [x EXCEPT !.items = Append(@, item), !.rest = Drop(@, 4 + len)]
  <2> HIDE DEF x
  <2>1. y = ReadItem(x)
    BY DEF x
  <2> QED BY ONLY <1>2, <1>3, <1>4, <2>1 DEF ReadItem
<1>6. item.data = body
  BY <1>2
<1> HIDE DEF item
<1>7. y.ok /\ y.items = Append(<<>>, item)
  BY ONLY <1>5
<1>8. Append(<<>>, item) = <<item>>
  OBVIOUS
<1> QED BY ONLY <1>6, <1>7, <1>8

(* The loop over one item takes one step. *)
LEMMA ItemLoop ==
  ASSUME NEW b, ~(Len(b) < 2), FromLE(SubSeq(b, 1, 2)) = 1, NEW y,
         y = ReadItem([ok |-> TRUE, items |-> <<>>, rest |-> Drop(b, 2)])
  PROVE  readItems(b) = [ok |-> y.ok, items |-> y.items]
<1> DEFINE count == FromLE(SubSeq(b, 1, 2))
           x == [ok |-> TRUE, items |-> <<>>, rest |-> Drop(b, 2)]
           F(g) == [k \in 0..count |-> IF k = 0 THEN x ELSE ReadItem(g[k - 1])]
           u == CHOOSE g : g = F(g)
           h == [k \in 0..count |-> IF k = 0 THEN x ELSE y]
<1>1. readItems(b) = [ok |-> u[count].ok, items |-> u[count].items]
  BY DEF readItems
<1>2. count = 1 /\ y = ReadItem(x)
  OBVIOUS
<1> HIDE DEF count, x
<1>3. h = F(h)
  <2>1. h[0] = x /\ h[1] = y
    BY <1>2
  <2>2. \A k \in 0..count : k = 0 \/ k = 1
    BY <1>2
  <2>3. \A k \in 0..count : h[k] = IF k = 0 THEN x ELSE ReadItem(h[k - 1])
    <3> HIDE DEF h
    <3>1. 1 - 1 = 0
      OBVIOUS
    <3> QED BY ONLY <1>2, <2>1, <2>2, <3>1
  <2>4. h = [k \in 0..count |-> h[k]]
    OBVIOUS
  <2> HIDE DEF h
  <2> QED BY ONLY <2>3, <2>4
<1>4. u = F(u)
  <2> HIDE DEF F, h
  <2> QED BY <1>3
<1> HIDE DEF u
<1>5. u[0] = x /\ u[1] = ReadItem(u[0])
  <2>1. 0 \in 0..count /\ 1 \in 0..count
    BY <1>2
  <2>2. \A k \in 0..count : u[k] = IF k = 0 THEN x ELSE ReadItem(u[k - 1])
    BY ONLY <1>4
  <2>3. 1 - 1 = 0
    OBVIOUS
  <2> QED BY ONLY <2>1, <2>2, <2>3
<1>6. u[count] = y
  BY ONLY <1>2, <1>5
<1> QED BY ONLY <1>1, <1>6

(* The one item of the answer is the body. *)
LEMMA OneItem ==
  ASSUME NEW body \in Seq(Nat), Len(body) < 65536
  PROVE  ListIdentity(frameListIdentityResponse(body)) = ParseFromBytes(body)
<1> DEFINE b == frameListIdentityResponse(body)
           y == ReadItem([ok |-> TRUE, items |-> <<>>, rest |-> Drop(b, 2)])
           in == readItems(b)
<1>1. ~(Len(b) < 2) /\ FromLE(SubSeq(b, 1, 2)) = 1 /\ HasItem(Drop(b, 2), body)
  BY FrameHasItem
<1> HIDE DEF b
<1>2. y.ok /\ y.items # <<>> /\ y.items[1].data = body
  BY ONLY body \in Seq(Nat), <1>1, ItemRead
<1>3. in = [ok |-> y.ok, items |-> y.items]
  BY ONLY <1>1, ItemLoop
<1> HIDE DEF y, in
<1>4. in.ok /\ in.items # <<>> /\ in.items[1].data = body
  BY ONLY <1>2, <1>3
<1>5. ListIdentity(b) = ParseFromBytes(body)
  BY ONLY <1>4 DEF ListIdentity, in
<1> QED BY <1>5 DEF b

(* Four bytes, lowest first, are read as they are written. *)
LEMMA Word32LE ==
  ASSUME NEW n \in Word32
  PROVE  LE(n, 4) \in Seq(Nat) /\ Len(LE(n, 4)) = 4 /\ FromLE(LE(n, 4)) = n
<1>1. n \in Nat /\ 4 \in 1..4
  BY DEF Word32
<1> QED BY <1>1, LEIs, LE32

(* A beginning, and the field that follows it, of known lengths. *)
Starts(p, i) == p \in Seq(Nat) /\ Len(p) = i

(* A beginning grows by what is joined to it. *)
LEMMA Grown ==
  ASSUME NEW p, NEW w, NEW i \in Nat, NEW k \in Nat, Starts(p, i), Starts(w, k)
  PROVE  Starts(p \o w, i + k)
<1>1. p \in Seq(Nat) /\ w \in Seq(Nat) /\ Len(p) = i /\ Len(w) = k
  BY DEF Starts
<1>2. p \o w \in Seq(Nat) /\ Len(p \o w) = Len(p) + Len(w)
  BY ONLY <1>1, TwoParts
<1> QED BY <1>1, <1>2 DEF Starts

(* The k bytes of b behind the first i are those of the field. *)
FieldIs(b, i, k, w) == SubSeq(b, i + 1, i + k) = w /\ \A j \in 1..k : b[i + j] = w[j]

(* What is joined to a beginning is the field behind it. *)
LEMMA FieldAt ==
  ASSUME NEW p, NEW w, NEW i \in Nat, NEW k \in Nat, Starts(p, i), Starts(w, k), NEW b, Begins(p \o w, b)
  PROVE  Begins(p, b) /\ FieldIs(b, i, k, w)
<1>1. p \in Seq(Nat) /\ w \in Seq(Nat) /\ Len(p) = i /\ Len(w) = k
  BY DEF Starts
<1>2. /\ Begins(p, b) /\ SubSeq(b, Len(p) + 1, Len(p) + Len(w)) = w
      /\ \A j \in 1..Len(w) : b[Len(p) + j] = w[j]
  <2>1. p \in Seq(Nat) /\ w \in Seq(Nat)
    BY <1>1
  <2> QED BY ONLY <2>1, Begins(p \o w, b), Field
<1>3. SubSeq(b, i + 1, i + k) = w /\ \A j \in 1..k : b[i + j] = w[j]
  BY ONLY <1>1, <1>2
<1> QED BY <1>2, <1>3 DEF FieldIs

(* The name that is sent: no more than 255 characters of it. *)
Sent(id) == SubSeq(id.name, 1, IF Len(id.name) > 255 THEN 255 ELSE Len(id.name))

(* The name that is sent is what IdentityKept says of it. *)
LEMMA SentIs ==
  ASSUME NEW id \in Identity
  PROVE  /\ Sent(id) \in Seq(Nat) /\ Len(Sent(id)) \in Nat /\ Len(Sent(id)) < 256
         /\ Sent(id) = SubSeq(id.name, 1, Min({255, Len(id.name)}))
<1> DEFINE s == id.name
           l == Len(s)
           n == IF l > 255 THEN 255 ELSE l
<1>1. s \in Seq(Nat)
  <2>1. s \in Seq(Byte)
    BY DEF Identity
  <2> HIDE DEF s
  <2> QED BY <2>1 DEF Byte
<1>2. l \in Nat /\ \A i \in 1..l : s[i] \in Nat
  BY <1>1, LenProperties, ElementOfSeq
<1> HIDE DEF s, l
<1>3. n \in Nat /\ n <= l /\ n < 256
  BY ONLY <1>2
<1> DEFINE t == SubSeq(s, 1, n)
<1>4. t \in Seq(Nat) /\ Len(t) = IF 1 <= n THEN n - 1 + 1 ELSE 0
  <2> HIDE DEF n
  <2>1. 1 \in Int /\ n \in Int /\ \A i \in 1..n : s[i] \in Nat
    BY <1>2, <1>3
  <2> QED BY <2>1, SubSeqProperties
<1>5. Len(t) = n
  <2> HIDE DEF n, t
  <2>1. Len(t) = IF 1 <= n THEN n - 1 + 1 ELSE 0
    BY <1>4 DEF t
  <2> QED BY ONLY <1>3, <2>1
<1>6. Min({255, l}) = n
  <2>1. n \in {255, l} /\ \A y \in {255, l} : n <= y
    BY ONLY <1>2
  <2>2. \A x \in {255, l} : (\A y \in {255, l} : x <= y) => x = n
    BY ONLY <1>2
  <2> HIDE DEF n
  <2> QED BY <2>1, <2>2 DEF Min
<1>7. Sent(id) = t
  BY DEF Sent, s, l
<1> HIDE DEF n
<1>8. t \in Seq(Nat) /\ Len(t) \in Nat /\ Len(t) < 256
  BY ONLY <1>3, <1>4, <1>5
<1>9. t = SubSeq(s, 1, Min({255, l}))
  BY ONLY <1>6
<1> HIDE DEF t
<1> QED BY ONLY <1>7, <1>8, <1>9 DEF s, l

(* The fields of the answer are where the client looks for them. *)
LEMMA BodyRead ==
  ASSUME NEW id \in Identity
  PROVE  LET b == buildListIdentityItemBody(id)
             l == Len(Sent(id))
         IN  /\ b \in Seq(Nat) /\ l \in Nat /\ l < 256 /\ Len(b) = 34 + l
             /\ PortOf(b) = id.port /\ SubSeq(b, 7, 10) = To4(id.addr)
             /\ FromLE(SubSeq(b, 19, 20)) = id.vendor /\ FromLE(SubSeq(b, 21, 22)) = id.device
             /\ FromLE(SubSeq(b, 23, 24)) = id.product /\ FromLE(SubSeq(b, 25, 26)) = id.revision
             /\ FromLE(SubSeq(b, 27, 28)) = id.status /\ FromLE(SubSeq(b, 29, 32)) = id.serial
             /\ b[33] = l /\ SubSeq(b, 34, 33 + l) = Sent(id)
<1> DEFINE l == Len(Sent(id))
           a1 == LE(1, 2)
           a2 == BE(2, 2)
           a3 == BE(id.port, 2)
           a4 == To4(id.addr)
           a5 == Zero(8)
           a6 == LE(id.vendor, 2)
           a7 == LE(id.device, 2)
           a8 == LE(id.product, 2)
           a9 == LE(id.revision, 2)
           a10 == LE(id.status, 2)
           a11 == LE(id.serial, 4)
           a12 == <<Len(Sent(id))>>
           a13 == Sent(id)
           a14 == <<255>>
           p1 == a1
           p2 == p1 \o a2
           p3 == p2 \o a3
           p4 == p3 \o a4
           p5 == p4 \o a5
           p6 == p5 \o a6
           p7 == p6 \o a7
           p8 == p7 \o a8
           p9 == p8 \o a9
           p10 == p9 \o a10
           p11 == p10 \o a11
           p12 == p11 \o a12
           p13 == p12 \o a13
           p14 == p13 \o a14
<1>1. /\ id.port \in Word16 /\ id.vendor \in Word16 /\ id.device \in Word16 /\ id.product \in Word16
      /\ id.revision \in Word16 /\ id.status \in Word16 /\ id.serial \in Word32
      /\ 1 \in Word16 /\ 2 \in Word16
  <2>1. 1 \in Word16 /\ 2 \in Word16
    BY DEF Word16
  <2> QED BY <2>1 DEF Identity
<1>2. l \in Nat /\ l < 256 /\ Sent(id) \in Seq(Nat)
  BY SentIs
<1>3. buildListIdentityItemBody(id) = p14
  BY DEF buildListIdentityItemBody, Sent
<1>4. Starts(a1, 2)
  BY <1>1, Word16LE DEF Starts
<1>5. Starts(a2, 2)
  BY <1>1, Word16BE DEF Starts
<1>6. Starts(a3, 2) /\ FromLE(Reverse(a3)) = id.port
  BY <1>1, Word16BE DEF Starts
<1>7. Starts(a4, 4)
  <2> DEFINE k == 4
  <2>1. k \in Nat /\ a4 \in [1..k -> Byte] /\ k = 4
    <3>1. k \in Nat /\ k = 4 /\ id.addr \in [1..k -> Byte] \cup {NotIPv4}
      BY DEF Identity
    <3> HIDE DEF k
    <3>2. Zero(k) \in [1..k -> Byte]
      BY DEF Zero, Byte
    <3>3. a4 = IF id.addr = NotIPv4 THEN Zero(k) ELSE id.addr
      BY ONLY <3>1 DEF a4, To4
    <3> QED BY ONLY <3>1, <3>2, <3>3
  <2> HIDE DEF k, a4
  <2>2. k \in Nat /\ a4 \in [1..k -> Nat]
    BY <2>1 DEF Byte
  <2>3. a4 \in Seq(Nat) /\ Len(a4) = k
    BY ONLY <2>2, FunctionSeq
  <2> QED BY ONLY <2>1, <2>3 DEF Starts
<1>8. Starts(a5, 8)
  <2> DEFINE k == 8
  <2>1. k \in Nat /\ k = 8
    OBVIOUS
  <2> HIDE DEF k
  <2> DEFINE z == Zero(k)
  <2>2. z \in [1..k -> Nat]
    BY DEF Zero
  <2>3. a5 = z
    BY <2>1
  <2> HIDE DEF z, a5
  <2>4. z \in Seq(Nat) /\ Len(z) = k
    BY ONLY <2>1, <2>2, FunctionSeq
  <2> QED BY ONLY <2>1, <2>3, <2>4 DEF Starts
<1>9. Starts(a6, 2) /\ FromLE(a6) = id.vendor
  BY <1>1, Word16LE DEF Starts
<1>10. Starts(a7, 2) /\ FromLE(a7) = id.device
  BY <1>1, Word16LE DEF Starts
<1>11. Starts(a8, 2) /\ FromLE(a8) = id.product
  BY <1>1, Word16LE DEF Starts
<1>12. Starts(a9, 2) /\ FromLE(a9) = id.revision
  BY <1>1, Word16LE DEF Starts
<1>13. Starts(a10, 2) /\ FromLE(a10) = id.status
  BY <1>1, Word16LE DEF Starts
<1>14. Starts(a11, 4) /\ FromLE(a11) = id.serial
  BY <1>1, Word32LE DEF Starts
<1>15. Starts(a12, 1) /\ a12[1] = l
  <2> HIDE DEF l
  <2> QED BY <1>2 DEF Starts, l
<1>16. Starts(a13, l)
  BY <1>2 DEF Starts
<1>17. Starts(a14, 1)
  BY DEF Starts
<1> HIDE DEF l, a1, a2, a3, a4, a5, a6, a7, a8, a9, a10, a11, a12, a13, a14
<1>18. Starts(p2, 4)
  <2>1. Starts(p1 \o a2, 2 + 2)
    BY <1>4, <1>5, Grown
  <2> QED BY <2>1
<1> HIDE DEF p1
<1>19. Starts(p3, 6)
  <2>1. Starts(p2 \o a3, 4 + 2)
    BY <1>18, <1>6, Grown
  <2> QED BY <2>1
<1> HIDE DEF p2
<1>20. Starts(p4, 10)
  <2>1. Starts(p3 \o a4, 6 + 4)
    BY <1>19, <1>7, Grown
  <2> QED BY <2>1
<1> HIDE DEF p3
<1>21. Starts(p5, 18)
  <2>1. Starts(p4 \o a5, 10 + 8)
    BY <1>20, <1>8, Grown
  <2> QED BY <2>1
<1> HIDE DEF p4
<1>22. Starts(p6, 20)
  <2>1. Starts(p5 \o a6, 18 + 2)
    BY <1>21, <1>9, Grown
  <2> QED BY <2>1
<1> HIDE DEF p5
<1>23. Starts(p7, 22)
  <2>1. Starts(p6 \o a7, 20 + 2)
    BY <1>22, <1>10, Grown
  <2> QED BY <2>1
<1> HIDE DEF p6
<1>24. Starts(p8, 24)
  <2>1. Starts(p7 \o a8, 22 + 2)
    BY <1>23, <1>11, Grown
  <2> QED BY <2>1
<1> HIDE DEF p7
<1>25. Starts(p9, 26)
  <2>1. Starts(p8 \o a9, 24 + 2)
    BY <1>24, <1>12, Grown
  <2> QED BY <2>1
<1> HIDE DEF p8
<1>26. Starts(p10, 28)
  <2>1. Starts(p9 \o a10, 26 + 2)
    BY <1>25, <1>13, Grown
  <2> QED BY <2>1
<1> HIDE DEF p9
<1>27. Starts(p11, 32)
  <2>1. Starts(p10 \o a11, 28 + 4)
    BY <1>26, <1>14, Grown
  <2> QED BY <2>1
<1> HIDE DEF p10
<1>28. Starts(p12, 33)
  <2>1. Starts(p11 \o a12, 32 + 1)
    BY <1>27, <1>15, Grown
  <2> QED BY <2>1
<1> HIDE DEF p11
<1>29. Starts(p13, 33 + l)
  BY <1>2, <1>28, <1>16, Grown
<1> HIDE DEF p12
<1>30. Starts(p14, 34 + l)
  <2>1. 33 + l \in Nat /\ 33 + l + 1 = 34 + l
    BY <1>2
  <2>2. Starts(p13 \o a14, 33 + l + 1)
    <3> HIDE DEF p13
    <3> QED BY <1>29, <1>17, <2>1, Grown
  <2> QED BY <2>1, <2>2
<1> HIDE DEF p13
<1> DEFINE b == p14
<1>31. Begins(p13 \o a14, b)
  <2>1. b \in Seq(Nat) /\ b = p13 \o a14
    BY <1>30 DEF Starts
  <2>2. b \o <<>> = b /\ <<>> \in Seq(Nat)
    BY <2>1, ConcatEmptySeq
  <2> HIDE DEF b
  <2> QED BY <2>1, <2>2 DEF Begins
<1>32. b = p14
  OBVIOUS
<1> HIDE DEF b, p14
<1>33. Begins(p13, b)
  <2>1. 33 + l \in Nat
    BY <1>2
  <2> QED BY <1>29, <1>17, <1>31, <2>1, FieldAt
<1>34. Begins(p12, b) /\ SubSeq(b, 34, 33 + l) = a13
  <2>1. Begins(p12 \o a13, b)
    BY <1>33 DEF p13
  <2>2. Begins(p12, b) /\ FieldIs(b, 33, l, a13)
    BY <1>2, <1>28, <1>16, <2>1, FieldAt
  <2> QED BY <2>2 DEF FieldIs
<1>35. Begins(p11, b) /\ b[33] = l
  <2>1. Begins(p11 \o a12, b)
    BY <1>34 DEF p12
  <2>2. Begins(p11, b) /\ FieldIs(b, 32, 1, a12)
    BY <1>27, <1>15, <2>1, FieldAt
  <2>3. b[33] = a12[1]
    BY <2>2 DEF FieldIs
  <2> QED BY ONLY <1>15, <2>2, <2>3
<1>36. Begins(p10, b) /\ SubSeq(b, 29, 32) = a11
  <2>1. Begins(p10 \o a11, b)
    BY <1>35 DEF p11
  <2>2. Begins(p10, b) /\ FieldIs(b, 28, 4, a11)
    <3>1. 28 \in Nat /\ 4 \in Nat
      OBVIOUS
    <3> QED BY <1>26, <1>14, <2>1, <3>1, FieldAt
  <2> QED BY <2>2 DEF FieldIs
<1>37. Begins(p9, b) /\ SubSeq(b, 27, 28) = a10
  <2>1. Begins(p9 \o a10, b)
    BY <1>36 DEF p10
  <2>2. Begins(p9, b) /\ FieldIs(b, 26, 2, a10)
    <3>1. 26 \in Nat /\ 2 \in Nat
      OBVIOUS
    <3> QED BY <1>25, <1>13, <2>1, <3>1, FieldAt
  <2> QED BY <2>2 DEF FieldIs
<1>38. Begins(p8, b) /\ SubSeq(b, 25, 26) = a9
  <2>1. Begins(p8 \o a9, b)
    BY <1>37 DEF p9
  <2>2. Begins(p8, b) /\ FieldIs(b, 24, 2, a9)
    <3>1. 24 \in Nat /\ 2 \in Nat
      OBVIOUS
    <3> QED BY <1>24, <1>12, <2>1, <3>1, FieldAt
  <2> QED BY <2>2 DEF FieldIs
<1>39. Begins(p7, b) /\ SubSeq(b, 23, 24) = a8
  <2>1. Begins(p7 \o a8, b)
    BY <1>38 DEF p8
  <2>2. Begins(p7, b) /\ FieldIs(b, 22, 2, a8)
    <3>1. 22 \in Nat /\ 2 \in Nat
      OBVIOUS
    <3> QED BY <1>23, <1>11, <2>1, <3>1, FieldAt
  <2> QED BY <2>2 DEF FieldIs
<1>40. Begins(p6, b) /\ SubSeq(b, 21, 22) = a7
  <2>1. Begins(p6 \o a7, b)
    BY <1>39 DEF p7
  <2>2. Begins(p6, b) /\ FieldIs(b, 20, 2, a7)
    <3>1. 20 \in Nat /\ 2 \in Nat
      OBVIOUS
    <3> QED BY <1>22, <1>10, <2>1, <3>1, FieldAt
  <2> QED BY <2>2 DEF FieldIs
<1>41. Begins(p5, b) /\ SubSeq(b, 19, 20) = a6
  <2>1. Begins(p5 \o a6, b)
    BY <1>40 DEF p6
  <2>2. Begins(p5, b) /\ FieldIs(b, 18, 2, a6)
    <3>1. 18 \in Nat /\ 2 \in Nat
      OBVIOUS
    <3> QED BY <1>21, <1>9, <2>1, <3>1, FieldAt
  <2> QED BY <2>2 DEF FieldIs
<1>42. Begins(p4, b) /\ SubSeq(b, 11, 18) = a5
  <2>1. Begins(p4 \o a5, b)
    BY <1>41 DEF p5
  <2>2. Begins(p4, b) /\ FieldIs(b, 10, 8, a5)
    <3>1. 10 \in Nat /\ 8 \in Nat
      OBVIOUS
    <3> QED BY <1>20, <1>8, <2>1, <3>1, FieldAt
  <2> QED BY <2>2 DEF FieldIs
<1>43. Begins(p3, b) /\ SubSeq(b, 7, 10) = a4
  <2>1. Begins(p3 \o a4, b)
    BY <1>42 DEF p4
  <2>2. Begins(p3, b) /\ FieldIs(b, 6, 4, a4)
    <3>1. 6 \in Nat /\ 4 \in Nat
      OBVIOUS
    <3> QED BY <1>19, <1>7, <2>1, <3>1, FieldAt
  <2> QED BY <2>2 DEF FieldIs
<1>44. Begins(p2, b) /\ SubSeq(b, 5, 6) = a3
  <2>1. Begins(p2 \o a3, b)
    BY <1>43 DEF p3
  <2>2. Begins(p2, b) /\ FieldIs(b, 4, 2, a3)
    <3>1. 4 \in Nat /\ 2 \in Nat
      OBVIOUS
    <3> QED BY <1>18, <1>6, <2>1, <3>1, FieldAt
  <2> QED BY <2>2 DEF FieldIs
<1>45. b \in Seq(Nat) /\ Len(b) = 34 + l
  BY <1>30, <1>32 DEF Starts
<1>46. PortOf(b) = id.port
  BY <1>6, <1>44 DEF PortOf
<1>47. SubSeq(b, 7, 10) = To4(id.addr)
  BY <1>43 DEF a4
<1>48. /\ FromLE(SubSeq(b, 19, 20)) = id.vendor /\ FromLE(SubSeq(b, 21, 22)) = id.device
       /\ FromLE(SubSeq(b, 23, 24)) = id.product /\ FromLE(SubSeq(b, 25, 26)) = id.revision
       /\ FromLE(SubSeq(b, 27, 28)) = id.status /\ FromLE(SubSeq(b, 29, 32)) = id.serial
  BY ONLY <1>9, <1>41, <1>10, <1>40, <1>11, <1>39, <1>12, <1>38, <1>13, <1>37, <1>14, <1>36
<1>49. SubSeq(b, 34, 33 + l) = Sent(id)
  BY <1>34 DEF a13
<1> QED BY ONLY <1>2, <1>3, <1>32, <1>35, <1>45, <1>46, <1>47, <1>48, <1>49 DEF l

(* What a client makes of a server's answer is what the server is. *)
LEMMA IdentityRead ==
  ASSUME NEW id \in Identity, NEW g,
         g = ListIdentity(frameListIdentityResponse(buildListIdentityItemBody(id)))
  PROVE  /\ g.ok
         /\ g.port = id.port /\ g.addr = To4(id.addr) /\ g.vendor = id.vendor
         /\ g.device = id.device /\ g.product = id.product /\ g.revision = id.revision
         /\ g.status = id.status /\ g.serial = id.serial
         /\ g.name = SubSeq(id.name, 1, Min({255, Len(id.name)}))
<1> DEFINE b == buildListIdentityItemBody(id)
           l == Len(Sent(id))
<1>1. /\ b \in Seq(Nat) /\ l \in Nat /\ l < 256 /\ Len(b) = 34 + l
      /\ PortOf(b) = id.port /\ SubSeq(b, 7, 10) = To4(id.addr)
      /\ FromLE(SubSeq(b, 19, 20)) = id.vendor /\ FromLE(SubSeq(b, 21, 22)) = id.device
      /\ FromLE(SubSeq(b, 23, 24)) = id.product /\ FromLE(SubSeq(b, 25, 26)) = id.revision
      /\ FromLE(SubSeq(b, 27, 28)) = id.status /\ FromLE(SubSeq(b, 29, 32)) = id.serial
      /\ b[33] = l /\ SubSeq(b, 34, 33 + l) = Sent(id)
  BY BodyRead
<1> HIDE DEF b, l
<1>2. g = ParseFromBytes(b)
  <2>1. Len(b) < 65536
    <3>1. l \in Nat /\ l < 256 /\ Len(b) = 34 + l
      BY ONLY <1>1
    <3> QED BY ONLY <3>1
  <2>2. b \in Seq(Nat)
    BY <1>1
  <2>3. ListIdentity(frameListIdentityResponse(b)) = ParseFromBytes(b)
    BY ONLY <2>1, <2>2, OneItem
  <2> QED BY <2>3 DEF b
<1>3. ~(Len(b) < 33) /\ ~(Len(b) < 33 + b[33] + 1)
  BY ONLY <1>1
<1>4. g = [ok |-> TRUE, port |-> PortOf(b), addr |-> SubSeq(b, 7, 10),
           vendor |-> FromLE(SubSeq(b, 19, 20)), device |-> FromLE(SubSeq(b, 21, 22)),
           product |-> FromLE(SubSeq(b, 23, 24)), revision |-> FromLE(SubSeq(b, 25, 26)),
           status |-> FromLE(SubSeq(b, 27, 28)), serial |-> FromLE(SubSeq(b, 29, 32)),
           name |-> SubSeq(b, 34, 33 + b[33])]
  BY ONLY <1>2, <1>3 DEF ParseFromBytes
<1>5. Sent(id) = SubSeq(id.name, 1, Min({255, Len(id.name)}))
  BY SentIs
<1> QED BY ONLY <1>1, <1>4, <1>5

(* A client knows a server by what it is: every field of the answer is read *)
(* from where it was put.                                                   *)
THEOREM IdentityKeptAlways == ConversationSpec => []IdentityKept
<1>1. ASSUME ConversationInv PROVE IdentityKept
  <2> SUFFICES ASSUME job.kind = "identity", stage = Done
               PROVE  /\ got.ok
                      /\ \A f \in DOMAIN job.id \ {"name", "addr", "typed"} : got[f] = job.id[f]
                      /\ got.addr = To4(job.id.addr)
                      /\ got.name = SubSeq(job.id.name, 1, Min({255, Len(job.id.name)}))
    <3>1. (job.kind = "identity" /\ stage = Refused) => job.id.typed # Attributes
      BY <1>1 DEF ConversationInv, IdentityInv
    <3> QED BY <3>1 DEF IdentityKept
  <2> DEFINE id == job.id
  <2>1. id \in Identity
    <3>1. id \in Identities
      BY <1>1 DEF ConversationInv, Conversations
    <3> QED BY <3>1, ConversationAssumption
  <2>2. got = ListIdentity(frameListIdentityResponse(buildListIdentityItemBody(id)))
    BY <1>1 DEF ConversationInv, IdentityInv, Done
  <2> HIDE DEF id
  <2>3. /\ got.ok
        /\ got.port = id.port /\ got.addr = To4(id.addr) /\ got.vendor = id.vendor
        /\ got.device = id.device /\ got.product = id.product /\ got.revision = id.revision
        /\ got.status = id.status /\ got.serial = id.serial
        /\ got.name = SubSeq(id.name, 1, Min({255, Len(id.name)}))
    BY ONLY <2>1, <2>2, IdentityRead
  <2>4. DOMAIN id = {"port", "addr", "vendor", "device", "product", "revision", "status", "serial",
                     "name", "typed"}
    BY <2>1 DEF Identity
  <2>5. \A f \in DOMAIN id \ {"name", "addr", "typed"} : got[f] = id[f]
    BY ONLY <2>3, <2>4
  <2> QED BY <2>3, <2>5 DEF id
<1> QED BY <1>1, ConversationInvInit, ConversationInvStep, PTL DEF ConversationSpec

==============================================================================
