--------------------------- MODULE DiscoveryProofs ---------------------------
(***************************************************************************)
(* What the module Discovery promises of a listing, for any number of      *)
(* callers, programs, symbols and templates, any pages and any chunks.     *)
(***************************************************************************)
EXTENDS Discovery, Integers, FiniteSetTheorems, TLAPS

(* The tags of scope s up to instance n, and all of them, are among T. *)
Has(T, s, n) == \A i \in Visible(s) : i <= n => Symbols[s][i].name \in T
HasAll(T, s) == Has(T, s, Len(Symbols[s]))

(* The template whose description a frame waits for. *)
Awaited(f) ==
  IF f.op = "members" THEN Members[f.template][f.next] ELSE Symbols[f.scope][f.at].template

(* What the first n members make of the description of t. *)
PartsTo(t, n) ==
  {Part(t, 0)} \cup UNION {Whole(Members[t][i], 0).parts : i \in {j \in 1..n : Members[t][j] # None}}

-----------------------------------------------------------------------------
(* What holds of the frames of a caller, and of what a call gave it, while  *)
(* the names T and the templates K are known; l says that programs are      *)
(* listed and no page was refused, w that no exchange failed and nothing    *)
(* was downloaded.                                                          *)

(* Up to the instance at hand all tags are known; the page is the last one, *)
(* or there are more.  Beyond the first call the programs have been listed. *)
ListOK(f, T, l) ==
  /\ f.start <= Len(Symbols[f.scope]) + 1 /\ f.last <= Len(Symbols[f.scope])
  /\ f.pc \in {"found", "described"} => f.at <= f.last
  /\ f.pc = "found" => Symbols[f.scope][f.at].kind = "program"
  /\ f.pc = "described" => Awaited(f) # None
  /\ f.pc \in {"programs", "subs"} => f.start = 1
  /\ l => /\ f.fallback = FALSE
          /\ f.pc # "found"
          /\ Has(T, f.scope, f.start - 1)
          /\ f.pc \in {"entries", "described"} =>
               Has(T, f.scope, f.at - 1) /\ (f.more \/ f.last = Len(Symbols[f.scope]))
          /\ f.op = "all" /\ f.pc \notin {"programs", "subs"} => \A p \in Programs : HasAll(T, p)

(* What was read of a template is whole, and its members so far are in it.  *)
MembersOK(f, w) ==
  /\ f.got <= Units(f.template) /\ f.next <= Len(Members[f.template]) + 1
  /\ f.desc.id = f.template
  /\ f.pc = "nested" => f.next <= Len(Members[f.template]) /\ Awaited(f) # None
  /\ f.pc \in {"attr", "read", "parse"} => f.next = 1
  /\ w => /\ f.desc.named = f.next - 1
          /\ f.pc = "attr" => f.desc.parts = {}
          /\ f.pc # "attr" => f.desc.parts = PartsTo(f.template, f.next - 1)
          /\ f.pc \in {"parse", "fields", "nested"} => f.got = Units(f.template)

FrameOK(f, T, l, w) == IF f.op = "members" THEN MembersOK(f, w) ELSE ListOK(f, T, l)

(* Frame g was called by frame f: of the programs only those that f still   *)
(* has and the one of g are not yet listed; a description is of what f      *)
(* waits for.                                                               *)
Called(g, f, T, l) ==
  \/ /\ g.op = "sub" /\ f.op = "all" /\ f.pc \in {"subs", "found"}
     /\ l /\ f.pc = "subs" => \A p \in Programs \ (f.programs \cup {g.scope}) : HasAll(T, p)
  \/ /\ g.op = "members" /\ f.pc \in {"described", "nested"}
     /\ g.template = Awaited(f)

(* What the innermost call f has been given. *)
Given(f, r, T, K, l, w) ==
  /\ l /\ f.pc = "subs" => r = Error \/ \A p \in Programs \ f.programs : HasAll(T, p)
  /\ f.pc \in {"described", "nested"} =>
       /\ r = Error \/ (r = Desc(r.desc) /\ r.desc \in Descriptors /\ r.desc.id = Awaited(f) /\ r.desc.id \in K)
       /\ w => r = Desc(Whole(Awaited(f), 0))

Returned(r, T, l) == l /\ r = Ok => \A s \in Scopes : HasAll(T, s)

Returns == [status : {"none", "ok", "error"}, desc : Descriptors \cup {None}]
AnyFrame == ListFrames \cup MembersFrames

(* A call of ListMembers is for a template nested in those of its callers.  *)
Deep(s) ==
  \A j \in 1..Len(s) : \A i \in 1..(j - 1) :
    s[i].op = "members" /\ s[j].op = "members" => s[i].template \in Nested(s[j].template)

CallerOK(s, r, T, K, l, w) ==
  /\ s \in Seq(AnyFrame) /\ r \in Returns /\ Deep(s)
  /\ \A i \in 1..Len(s) : FrameOK(s[i], T, l, w)
  /\ \A i \in 1..(Len(s) - 1) : Called(s[i], s[i + 1], T, l)
  /\ Len(s) > 0 => s[Len(s)].op = "all" /\ Given(s[1], r, T, K, l, w)
  /\ Len(s) = 0 => Returned(r, T, l)

KnownOK ==
  /\ KnownPrograms \subseteq Programs
  /\ DOMAIN KnownTypesByID \subseteq Templates
  /\ \A t \in DOMAIN KnownTypesByID : KnownTypesByID[t] \in Descriptors /\ KnownTypesByID[t].id = t
  /\ DOMAIN KnownTypes \subseteq DOMAIN KnownTypesByID
  /\ DOMAIN KnownTags \subseteq Names \cup {<<"Program", p>> : p \in Programs}
  /\ supported \in BOOLEAN /\ version \in 0..MaxDownloads /\ faults \in 0..MaxFaults /\ refused \in BOOLEAN

Listing == supported /\ ~refused
Untouched == faults = 0 /\ version = 0
CallersOK ==
  /\ stack \in [Callers -> Seq(AnyFrame)] /\ ret \in [Callers -> Returns]
  /\ \A c \in Callers :
       CallerOK(stack[c], ret[c], DOMAIN KnownTags, DOMAIN KnownTypesByID, Listing, Untouched)

IInv == KnownOK /\ TypesWhole /\ CallersOK

-----------------------------------------------------------------------------
(* Templates in templates.                                                  *)

LEMMA InnerTyped ==
  ASSUME NEW t \in Templates
  PROVE  /\ Inner(t) \subseteq Templates
         /\ Inner(t) = {Members[t][i] : i \in {j \in 1..Len(Members[t]) : Members[t][j] # None}}
         /\ Len(Members[t]) \in Nat
<1>1. Members[t] \in Seq(Templates \cup {None})
  BY DiscoveryAssumption
<1>2. /\ Len(Members[t]) \in Nat /\ DOMAIN Members[t] = 1..Len(Members[t])
      /\ \A i \in 1..Len(Members[t]) : Members[t][i] \in Templates \cup {None}
  BY <1>1
<1> QED BY <1>2 DEF Inner, Range

(* What is nested in t is a member of t, or nested in one. *)
LEMMA NestedUnfolds ==
  ASSUME NEW t \in Templates
  PROVE  Nested(t) = Inner(t) \cup UNION {Nested(y) : y \in Inner(t)}
<1> DEFINE S0 == Inner(t) \cup UNION {Nested(y) : y \in Inner(t)}
           Closed(S) == \A y \in S : Inner(y) \subseteq S
<1>1. Inner(t) \subseteq Templates
  BY InnerTyped
<1>2. \A y \in Templates : Nested(y) \subseteq Templates /\ Inner(y) \subseteq Nested(y)
  BY InnerTyped DEF Nested
<1>3. ASSUME NEW y \in Templates, NEW z \in Nested(y) PROVE Inner(z) \subseteq Nested(y)
  BY <1>2, InnerTyped DEF Nested
<1>4. S0 \in SUBSET Templates /\ Inner(t) \subseteq S0
  BY <1>1, <1>2
<1>5. Closed(S0)
  <2> SUFFICES ASSUME NEW z \in S0 PROVE Inner(z) \subseteq S0
    OBVIOUS
  <2>1. CASE z \in Inner(t)
    BY <1>1, <1>2, <2>1
  <2>2. ASSUME NEW y \in Inner(t), z \in Nested(y) PROVE Inner(z) \subseteq S0
    BY <1>1, <1>3, <2>2
  <2> QED BY <2>1, <2>2
<1>6. Nested(t) \subseteq S0
  BY <1>4, <1>5 DEF Nested
<1>7. ASSUME NEW y \in Inner(t), NEW x \in Nested(y) PROVE x \in Nested(t)
  <2> SUFFICES ASSUME NEW S \in SUBSET Templates, Inner(t) \subseteq S, Closed(S) PROVE x \in S
    BY <1>1, <1>2 DEF Nested
  <2>1. Inner(y) \subseteq S
    OBVIOUS
  <2> QED BY <1>1, <1>7, <2>1 DEF Nested
<1> QED BY <1>1, <1>2, <1>6, <1>7

LEMMA NestedCloses ==
  ASSUME NEW t \in Templates, NEW u \in Nested(t), NEW x \in Inner(u)
  PROVE  x \in Nested(t)
<1>1. u \in Templates
  BY DEF Nested
<1>2. x \in Templates
  BY <1>1, InnerTyped
<1> QED BY <1>2 DEF Nested

(* When all members are in a description it is whole. *)
LEMMA PartsAll ==
  ASSUME NEW t \in Templates
  PROVE  PartsTo(t, Len(Members[t])) = Whole(t, 0).parts
<1> DEFINE I == {j \in 1..Len(Members[t]) : Members[t][j] # None}
<1>1. \A u : Whole(u, 0).parts = {Part(x, 0) : x \in {u} \cup Nested(u)}
  BY DEF Whole
<1>2. Inner(t) = {Members[t][i] : i \in I}
  BY InnerTyped
<1>3. Nested(t) = Inner(t) \cup UNION {Nested(y) : y \in Inner(t)}
  BY NestedUnfolds
<1>4. PartsTo(t, Len(Members[t])) = {Part(t, 0)} \cup UNION {Whole(y, 0).parts : y \in Inner(t)}
  BY ONLY <1>2 DEF PartsTo
<1>5. UNION {Whole(y, 0).parts : y \in Inner(t)} = {Part(x, 0) : x \in Nested(t)}
  BY ONLY <1>1, <1>3
<1>6. {Part(x, 0) : x \in {t} \cup Nested(t)} = {Part(t, 0)} \cup {Part(x, 0) : x \in Nested(t)}
  OBVIOUS
<1> QED BY ONLY <1>1, <1>4, <1>5, <1>6

(* The next member with a template adds its parts, the others nothing. *)
LEMMA PartsNext ==
  ASSUME NEW t \in Templates, NEW n \in 1..Len(Members[t])
  PROVE  PartsTo(t, n) =
           PartsTo(t, n - 1) \cup (IF Members[t][n] = None THEN {} ELSE Whole(Members[t][n], 0).parts)
<1> DEFINE I(k) == {j \in 1..k : Members[t][j] # None}
<1>1. 1..n = (1..(n - 1)) \cup {n}
  BY InnerTyped
<1>2. I(n) = I(n - 1) \cup (IF Members[t][n] = None THEN {} ELSE {n})
  BY ONLY <1>1
<1> QED BY ONLY <1>2 DEF PartsTo

LEMMA PartsNone == ASSUME NEW t PROVE PartsTo(t, 0) = {Part(t, 0)}
<1>1. {j \in 1..0 : Members[t][j] # None} = {}
  OBVIOUS
<1> QED BY ONLY <1>1 DEF PartsTo

-----------------------------------------------------------------------------
(* Frames of a stack.                                                       *)

LEMMA FramesHave ==
  ASSUME NEW f \in AnyFrame
  PROVE  /\ f.op \in {"all", "sub", "members"}
         /\ f.op = "members" => f \in MembersFrames
         /\ f.op # "members" => f \in ListFrames
BY DEF AnyFrame, ListFrames, MembersFrames

LEMMA AwaitedInner ==
  ASSUME NEW f \in MembersFrames, f.next <= Len(Members[f.template]), Awaited(f) # None
  PROVE  Awaited(f) \in Inner(f.template) /\ f.template \in Templates
<1>1. f.op = "members" /\ f.template \in Templates /\ f.next \in Nat \ {0}
  BY DEF MembersFrames
<1>2. Awaited(f) = Members[f.template][f.next]
  BY <1>1 DEF Awaited
<1>3. Len(Members[f.template]) \in Nat
  BY <1>1, InnerTyped
<1>4. f.next \in 1..Len(Members[f.template])
  BY ONLY <1>1, <1>3, f.next <= Len(Members[f.template])
<1>5. Inner(f.template) = {Members[f.template][i] : i \in {j \in 1..Len(Members[f.template]) : Members[f.template][j] # None}}
  BY <1>1, InnerTyped
<1> QED BY <1>1, <1>2, <1>4, <1>5

(* What is known grows, and what has failed stays so. *)
Grown(T, K, l, w, T2, K2, l2, w2) == T \subseteq T2 /\ K \subseteq K2 /\ (l2 => l) /\ (w2 => w)

LEMMA StaysOK ==
  ASSUME NEW s, NEW r, NEW T, NEW K, NEW l, NEW w, NEW T2, NEW K2, NEW l2, NEW w2,
         CallerOK(s, r, T, K, l, w), Grown(T, K, l, w, T2, K2, l2, w2)
  PROVE  CallerOK(s, r, T2, K2, l2, w2)
<1> USE DEF Grown
<1>1. \A x, n : Has(T, x, n) => Has(T2, x, n)
  BY DEF Has
<1>2. \A x : HasAll(T, x) => HasAll(T2, x)
  BY <1>1 DEF HasAll
<1>3. \A f : FrameOK(f, T, l, w) => FrameOK(f, T2, l2, w2)
  <2>1. \A f : ListOK(f, T, l) => ListOK(f, T2, l2)
    BY <1>1, <1>2 DEF ListOK
  <2>2. \A f : MembersOK(f, w) => MembersOK(f, w2)
    BY DEF MembersOK
  <2> QED BY ONLY <2>1, <2>2 DEF FrameOK
<1>4. \A f, g : Called(g, f, T, l) => Called(g, f, T2, l2)
  BY <1>2 DEF Called
<1>5. \A f : Given(f, r, T, K, l, w) => Given(f, r, T2, K2, l2, w2)
  BY <1>2 DEF Given
<1>6. Returned(r, T, l) => Returned(r, T2, l2)
  BY <1>2 DEF Returned
<1> QED BY ONLY <1>3, <1>4, <1>5, <1>6, CallerOK(s, r, T, K, l, w) DEF CallerOK

(* A frame stands in the same place of the stack as the one before. *)
SamePlace(f, g) ==
  /\ f.op = g.op
  /\ f.op = "sub" => f.scope = g.scope
  /\ f.op = "members" => f.template = g.template

LEMMA PlaceKept ==
  ASSUME NEW f, NEW g, NEW h, NEW T, NEW l, SamePlace(f, g), Called(g, h, T, l)
  PROVE  Called(f, h, T, l)
BY DEF SamePlace, Called

LEMMA GotoOK ==
  ASSUME NEW s, NEW r, NEW q \in Returns, NEW T, NEW K, NEW l, NEW w, CallerOK(s, r, T, K, l, w), Len(s) > 0,
         NEW f \in AnyFrame, FrameOK(f, T, l, w), SamePlace(f, s[1]), Given(f, q, T, K, l, w)
  PROVE  CallerOK(<<f>> \o Tail(s), q, T, K, l, w)
<1> DEFINE u == <<f>> \o Tail(s)
<1>0. s \in Seq(AnyFrame)
  BY DEF CallerOK
<1>1. /\ u \in Seq(AnyFrame) /\ Len(u) = Len(s) /\ Len(s) \in Nat
      /\ u[1] = f /\ \A i \in 2..Len(s) : u[i] = s[i]
  BY <1>0
<1> HIDE DEF u
<1>2. \A i \in 1..Len(s) : FrameOK(s[i], T, l, w)
  BY DEF CallerOK
<1>3. \A i \in 1..(Len(s) - 1) : Called(s[i], s[i + 1], T, l)
  BY DEF CallerOK
<1>4. \A i \in 1..Len(u) : FrameOK(u[i], T, l, w)
  BY <1>1, <1>2
<1>5. ASSUME NEW i \in 1..(Len(u) - 1) PROVE Called(u[i], u[i + 1], T, l)
  <2>1. i \in 1..(Len(s) - 1) /\ i + 1 \in 2..Len(s)
    BY <1>1
  <2>2. Called(s[i], s[i + 1], T, l) /\ u[i + 1] = s[i + 1]
    BY ONLY <1>1, <1>3, <2>1
  <2>3. CASE i = 1
    BY <1>1, <2>2, <2>3, PlaceKept
  <2>4. CASE i # 1
    <3>1. i \in 2..Len(s)
      BY ONLY <1>1, <2>1, <2>4
    <3> QED BY ONLY <1>1, <2>2, <3>1
  <2> QED BY <2>3, <2>4
<1>6. u[Len(u)].op = "all"
  <2>1. s[Len(s)].op = "all"
    BY DEF CallerOK
  <2>2. CASE Len(s) = 1
    BY <1>1, <2>1, <2>2 DEF SamePlace
  <2>3. CASE Len(s) # 1
    <3>1. Len(s) \in 2..Len(s)
      BY <1>1, <2>3
    <3> QED BY <1>1, <2>1, <3>1
  <2> QED BY <2>2, <2>3
<1>7. Len(u) # 0
  BY <1>1
<1>8. Deep(u)
  <2>1. ASSUME NEW i \in 1..Len(s)
        PROVE  u[i].op = s[i].op /\ (s[i].op = "members" => u[i].template = s[i].template)
    <3>1. i = 1 \/ i \in 2..Len(s)
      BY <1>1
    <3> QED BY <1>1, <3>1 DEF SamePlace
  <2>2. ASSUME NEW j \in 1..Len(s), NEW i \in 1..(j - 1) PROVE i \in 1..Len(s)
    BY <1>1
  <2>3. Deep(s)
    BY DEF CallerOK
  <2> QED BY ONLY <1>1, <2>1, <2>2, <2>3 DEF Deep
<1> QED BY <1>1, <1>4, <1>5, <1>6, <1>7, <1>8 DEF CallerOK, u

LEMMA CallOK ==
  ASSUME NEW s, NEW r, NEW T, NEW K, NEW l, NEW w, CallerOK(s, r, T, K, l, w), Len(s) > 0,
         NEW f \in AnyFrame, FrameOK(f, T, l, w), SamePlace(f, s[1]),
         NEW g \in AnyFrame, FrameOK(g, T, l, w), Called(g, f, T, l), Given(g, r, T, K, l, w)
  PROVE  CallerOK(<<g, f>> \o Tail(s), r, T, K, l, w)
<1> DEFINE u == <<g, f>> \o Tail(s)
<1>0. s \in Seq(AnyFrame) /\ r \in Returns
  BY DEF CallerOK
<1>1. /\ u \in Seq(AnyFrame) /\ Len(u) = Len(s) + 1 /\ Len(s) \in Nat
      /\ u[1] = g /\ u[2] = f /\ \A i \in 2..Len(s) : u[i + 1] = s[i]
  BY <1>0
<1> HIDE DEF u
<1>2. \A i \in 1..Len(s) : FrameOK(s[i], T, l, w)
  BY DEF CallerOK
<1>3. \A i \in 1..(Len(s) - 1) : Called(s[i], s[i + 1], T, l)
  BY DEF CallerOK
<1>4. ASSUME NEW i \in 1..Len(u) PROVE FrameOK(u[i], T, l, w)
  <2>1. i = 1 \/ i = 2 \/ (i - 1 \in 2..Len(s) /\ i = (i - 1) + 1 /\ i - 1 \in 1..Len(s))
    BY <1>1
  <2> QED BY <1>1, <1>2, <2>1
<1>5. ASSUME NEW i \in 1..(Len(u) - 1) PROVE Called(u[i], u[i + 1], T, l)
  <2>1. CASE i = 1
    BY <1>1, <2>1
  <2>2. CASE i # 1
    <3> DEFINE j == i - 1
    <3>1. j \in 1..(Len(s) - 1) /\ j + 1 \in 2..Len(s) /\ i = j + 1 /\ i + 1 = (j + 1) + 1
      BY <1>1, <2>2
    <3> HIDE DEF j
    <3>2. Called(s[j], s[j + 1], T, l) /\ u[i + 1] = s[j + 1]
      BY ONLY <1>1, <1>3, <3>1
    <3>3. CASE j = 1
      <4>1. u[i] = f /\ Called(f, s[j + 1], T, l)
        BY <1>1, <3>1, <3>2, <3>3, PlaceKept
      <4> QED BY <3>2, <4>1
    <3>4. CASE j # 1
      <4>1. j \in 2..Len(s)
        BY ONLY <1>1, <3>1, <3>4
      <4>2. u[i] = s[j]
        BY ONLY <1>1, <3>1, <4>1
      <4> QED BY ONLY <3>2, <4>2
    <3> QED BY <3>3, <3>4
  <2> QED BY <2>1, <2>2
<1>6. u[Len(u)].op = "all"
  <2>1. s[Len(s)].op = "all"
    BY DEF CallerOK
  <2>2. CASE Len(s) = 1
    BY <1>1, <2>1, <2>2 DEF SamePlace
  <2>3. CASE Len(s) # 1
    <3>0. Len(s) \in Nat
      BY <1>1
    <3>1. Len(s) \in 2..Len(s)
      BY ONLY <3>0, <2>3, Len(s) > 0
    <3> QED BY <1>1, <2>1, <3>1
  <2> QED BY <2>2, <2>3
<1>7. Len(u) # 0
  BY <1>1
<1>8. ASSUME NEW j \in 1..Len(u), NEW i \in 1..(j - 1), u[i].op = "members", u[j].op = "members"
      PROVE  u[i].template \in Nested(u[j].template)
  <2>1. ASSUME NEW k \in 1..Len(s)
        PROVE  u[k + 1].op = s[k].op /\ (s[k].op = "members" => u[k + 1].template = s[k].template)
    <3>1. k = 1 \/ k \in 2..Len(s)
      BY <1>1
    <3>2. 1 + 1 = 2
      OBVIOUS
    <3> QED BY <1>1, <3>1, <3>2 DEF SamePlace
  <2> DEFINE k == j - 1
  <2>2. k \in 1..Len(s) /\ j = k + 1
    BY <1>1, <1>8
  <2> HIDE DEF k
  <2>3. s[k].op = "members" /\ u[j].template = s[k].template
    BY <1>8, <2>1, <2>2
  <2>4. s[k] \in AnyFrame /\ s[k].template \in Templates
    <3>1. s[k] \in AnyFrame
      BY ONLY <1>0, <2>2
    <3> QED BY <2>3, <3>1, FramesHave DEF MembersFrames
  <2>5. Deep(s)
    BY DEF CallerOK
  <2>6. CASE i = 1
    <3>1. g.op = "members" /\ u[i].template = g.template
      BY <1>1, <1>8, <2>6
    <3>2. CASE f.op = "members"
      <4>1. f \in MembersFrames
        BY <3>2, FramesHave
      <4>2. g.template = Awaited(f) /\ f.pc = "nested"
        BY <3>1, <3>2, <4>1 DEF Called, MembersFrames
      <4>3. f.next <= Len(Members[f.template]) /\ Awaited(f) # None
        BY <3>2, <4>2 DEF FrameOK, MembersOK
      <4>4. g.template \in Inner(f.template) /\ f.template \in Templates
        BY <4>1, <4>2, <4>3, AwaitedInner
      <4>5. CASE k = 1
        <5>1. f.template = s[k].template
          BY <3>2, <4>5 DEF SamePlace
        <5> QED BY <2>3, <3>1, <4>4, <5>1, NestedUnfolds
      <4>6. CASE k # 1
        <5>1. 1 \in 1..(k - 1)
          BY ONLY <1>1, <2>2, <4>6
        <5>2. s[1].op = "members" => s[1].template \in Nested(s[k].template)
          BY ONLY <2>2, <2>3, <2>5, <5>1 DEF Deep
        <5>3. f.template \in Nested(s[k].template)
          BY <3>2, <5>2 DEF SamePlace
        <5> QED BY <2>3, <2>4, <3>1, <4>4, <5>3, NestedCloses
      <4> QED BY <4>5, <4>6
    <3>3. CASE f.op # "members"
      <4>1. k # 1
        BY <2>3, <3>3 DEF SamePlace
      <4>2. 1 \in 1..(Len(s) - 1)
        BY ONLY <1>1, <2>2, <4>1
      <4>3. Called(s[1], s[1 + 1], T, l) /\ 1 + 1 = 2
        BY ONLY <1>3, <4>2
      <4>4. s[2].op = "all"
        BY <3>3, <4>3 DEF Called, SamePlace
      <4>5. k # 2
        BY <2>3, <4>4
      <4>6. 2 \in 1..(Len(s) - 1)
        BY ONLY <1>1, <2>2, <4>1, <4>5
      <4>7. Called(s[2], s[2 + 1], T, l)
        BY ONLY <1>3, <4>6
      <4> QED BY ONLY <4>4, <4>7 DEF Called
    <3> QED BY <3>2, <3>3
  <2>7. CASE i # 1
    <3> DEFINE m == i - 1
    <3>1. m \in 1..Len(s) /\ i = m + 1 /\ m \in 1..(k - 1)
      BY <1>1, <2>2, <2>7
    <3> HIDE DEF m
    <3>2. s[m].op = "members" /\ u[i].template = s[m].template
      BY <1>8, <2>1, <3>1
    <3> QED BY ONLY <2>2, <2>3, <2>5, <3>1, <3>2 DEF Deep
  <2> QED BY <2>6, <2>7
<1>9. Deep(u)
  BY ONLY <1>8 DEF Deep
<1> QED BY <1>0, <1>1, <1>4, <1>5, <1>6, <1>7, <1>9 DEF CallerOK, u

LEMMA ReturnOK ==
  ASSUME NEW s, NEW r, NEW q \in Returns, NEW T, NEW K, NEW l, NEW w, CallerOK(s, r, T, K, l, w), Len(s) > 0,
         Len(s) > 1 => Given(s[2], q, T, K, l, w),
         Len(s) = 1 => Returned(q, T, l)
  PROVE  CallerOK(Tail(s), q, T, K, l, w)
<1> DEFINE u == Tail(s)
<1>0. s \in Seq(AnyFrame)
  BY DEF CallerOK
<1>1. /\ u \in Seq(AnyFrame) /\ Len(u) = Len(s) - 1 /\ Len(s) \in Nat
      /\ \A i \in 1..(Len(s) - 1) : u[i] = s[i + 1]
  BY <1>0
<1> HIDE DEF u
<1>2. \A i \in 1..Len(s) : FrameOK(s[i], T, l, w)
  BY DEF CallerOK
<1>3. \A i \in 1..(Len(s) - 1) : Called(s[i], s[i + 1], T, l)
  BY DEF CallerOK
<1>4. ASSUME NEW i \in 1..Len(u) PROVE FrameOK(u[i], T, l, w)
  <2>1. i \in 1..(Len(s) - 1) /\ i + 1 \in 1..Len(s)
    BY <1>1
  <2> QED BY <1>1, <1>2, <2>1
<1>5. ASSUME NEW i \in 1..(Len(u) - 1) PROVE Called(u[i], u[i + 1], T, l)
  <2>1. i \in 1..(Len(s) - 1) /\ i + 1 \in 1..(Len(s) - 1)
    BY <1>1
  <2>2. u[i] = s[i + 1] /\ u[i + 1] = s[(i + 1) + 1]
    BY ONLY <1>1, <2>1
  <2> QED BY ONLY <1>3, <2>1, <2>2
<1>6. ASSUME Len(u) > 0 PROVE u[Len(u)].op = "all" /\ Given(u[1], q, T, K, l, w)
  <2>1. s[Len(s)].op = "all"
    BY DEF CallerOK
  <2>2. Len(s) > 1 /\ 1 \in 1..(Len(s) - 1) /\ Len(u) \in 1..(Len(s) - 1) /\ Len(u) + 1 = Len(s)
    BY <1>1, <1>6
  <2>3. u[Len(u)] = s[Len(s)] /\ u[1] = s[2]
    BY <1>1, <2>2
  <2> QED BY <2>1, <2>2, <2>3
<1>7. Len(u) = 0 => Len(s) = 1
  BY <1>1
<1>8. ASSUME NEW j \in 1..Len(u), NEW i \in 1..(j - 1), u[i].op = "members", u[j].op = "members"
      PROVE  u[i].template \in Nested(u[j].template)
  <2>1. /\ j \in 1..(Len(s) - 1) /\ i \in 1..(Len(s) - 1)
        /\ j + 1 \in 1..Len(s) /\ i + 1 \in 1..((j + 1) - 1)
    BY <1>1
  <2>2. u[i] = s[i + 1] /\ u[j] = s[j + 1]
    BY ONLY <1>1, <2>1
  <2>3. Deep(s)
    BY DEF CallerOK
  <2> QED BY ONLY <1>8, <2>1, <2>2, <2>3 DEF Deep
<1>9. Deep(u)
  BY ONLY <1>8 DEF Deep
<1> QED BY <1>1, <1>4, <1>5, <1>6, <1>7, <1>9 DEF CallerOK, u

-----------------------------------------------------------------------------
(* Steps of a caller.                                                       *)

(* The same in the state after a step. *)
GrownNow ==
  Grown(DOMAIN KnownTags, DOMAIN KnownTypesByID, Listing, Untouched,
        DOMAIN KnownTags', DOMAIN KnownTypesByID', Listing', Untouched')
FrameNow(f) == FrameOK(f, DOMAIN KnownTags', Listing', Untouched')
CalledNow(g, f) == Called(g, f, DOMAIN KnownTags', Listing')
GivenNow(f, r) == Given(f, r, DOMAIN KnownTags', DOMAIN KnownTypesByID', Listing', Untouched')
CallerNow(s, r) == CallerOK(s, r, DOMAIN KnownTags', DOMAIN KnownTypesByID', Listing', Untouched')
ReturnedNow(r) == Returned(r, DOMAIN KnownTags', Listing')

(* What there is of a caller before its step. *)
LEMMA Before ==
  ASSUME CallersOK, GrownNow, NEW c \in Callers
  PROVE  stack[c] \in Seq(AnyFrame) /\ ret[c] \in Returns /\ CallerNow(stack[c], ret[c])
<1>1. /\ stack[c] \in Seq(AnyFrame) /\ ret[c] \in Returns
      /\ CallerOK(stack[c], ret[c], DOMAIN KnownTags, DOMAIN KnownTypesByID, Listing, Untouched)
  BY DEF CallersOK
<1> QED BY ONLY <1>1, GrownNow, StaysOK DEF GrownNow, CallerNow

LEMMA OnTop ==
  ASSUME CallersOK, GrownNow, NEW c \in Callers, stack[c] # <<>>
  PROVE  /\ Top(c) = stack[c][1] /\ Top(c) \in AnyFrame /\ ret[c] \in Returns
         /\ Len(stack[c]) \in Nat \ {0}
         /\ FrameNow(Top(c)) /\ GivenNow(Top(c), ret[c])
         /\ Top(c).op = "all" <=> Len(stack[c]) = 1
         /\ Top(c).op # "all" =>
              CalledNow(Top(c), stack[c][2]) /\ stack[c][2] \in AnyFrame /\ FrameNow(stack[c][2])
<1> DEFINE s == stack[c]
<1>1. s \in Seq(AnyFrame) /\ ret[c] \in Returns /\ CallerNow(s, ret[c])
  BY Before
<1>2. s # <<>>
  OBVIOUS
<1>3. Top(c) = Head(s)
  BY DEF Top
<1> HIDE DEF s
<1>4. Len(s) \in Nat \ {0} /\ Head(s) = s[1] /\ s[1] \in AnyFrame /\ (Len(s) > 1 => s[2] \in AnyFrame)
  BY ONLY <1>1, <1>2
<1>5. FrameNow(s[1]) /\ GivenNow(s[1], ret[c]) /\ s[Len(s)].op = "all"
  BY ONLY <1>1, <1>4 DEF CallerNow, CallerOK, FrameNow, GivenNow
<1>6. ASSUME Len(s) > 1 PROVE CalledNow(s[1], s[2]) /\ FrameNow(s[2]) /\ s[1].op # "all"
  <2>1. 1 \in 1..(Len(s) - 1) /\ 2 \in 1..Len(s)
    BY ONLY <1>4, <1>6
  <2>2. CalledNow(s[1], s[1 + 1]) /\ FrameNow(s[2])
    BY ONLY <1>1, <2>1 DEF CallerNow, CallerOK, FrameNow, CalledNow
  <2>3. CalledNow(s[1], s[2])
    BY ONLY <2>2
  <2> QED BY ONLY <2>2, <2>3 DEF CalledNow, Called
<1>7. Len(s) = 1 \/ Len(s) > 1
  BY ONLY <1>4
<1> QED BY ONLY <1>1, <1>3, <1>4, <1>5, <1>6, <1>7 DEF s

LEMMA StepOK ==
  ASSUME CallersOK, GrownNow, NEW c \in Callers, NEW s \in Seq(AnyFrame), NEW r \in Returns,
         stack' = [stack EXCEPT ![c] = s], ret' = [ret EXCEPT ![c] = r], CallerNow(s, r)
  PROVE  CallersOK'
<1>1. stack' \in [Callers -> Seq(AnyFrame)] /\ ret' \in [Callers -> Returns]
  BY DEF CallersOK
<1>2. stack'[c] = s /\ ret'[c] = r
  BY DEF CallersOK
<1>3. ASSUME NEW d \in Callers PROVE CallerNow(stack'[d], ret'[d])
  <2>1. CASE d = c
    BY <1>2, <2>1
  <2>2. CASE d # c
    <3>1. stack'[d] = stack[d] /\ ret'[d] = ret[d]
      BY <2>2 DEF CallersOK
    <3>2. CallerNow(stack[d], ret[d])
      BY Before
    <3> QED BY ONLY <3>1, <3>2
  <2> QED BY <2>1, <2>2
<1> QED BY ONLY <1>1, <1>3 DEF CallersOK, CallerNow

LEMMA WentOK ==
  ASSUME CallersOK, GrownNow, NEW c \in Callers, stack[c] # <<>>, NEW f \in AnyFrame, Goto(c, f),
         NEW q \in Returns, ret' = [ret EXCEPT ![c] = q],
         FrameNow(f), SamePlace(f, Top(c)), GivenNow(f, q)
  PROVE  CallersOK'
<1>1. /\ Top(c) = stack[c][1] /\ Len(stack[c]) > 0
  BY OnTop
<1>2. CallerNow(stack[c], ret[c]) /\ stack[c] \in Seq(AnyFrame)
  BY Before
<1> DEFINE u == <<f>> \o Tail(stack[c])
<1>3. u \in Seq(AnyFrame)
  BY <1>1, <1>2
<1>4. CallerNow(u, q)
  BY <1>1, <1>2, GotoOK DEF CallerNow, FrameNow, GivenNow
<1>5. stack' = [stack EXCEPT ![c] = u]
  BY DEF Goto
<1> QED BY <1>3, <1>4, <1>5, StepOK

LEMMA RetKept ==
  ASSUME CallersOK, NEW c \in Callers, UNCHANGED ret
  PROVE  ret' = [ret EXCEPT ![c] = ret[c]] /\ ret[c] \in Returns
BY DEF CallersOK

LEMMA CalledOK ==
  ASSUME CallersOK, GrownNow, NEW c \in Callers, stack[c] # <<>>, UNCHANGED ret,
         NEW f \in AnyFrame, NEW g \in AnyFrame, Call(c, f, g),
         FrameNow(f), SamePlace(f, Top(c)), FrameNow(g), CalledNow(g, f), GivenNow(g, ret[c])
  PROVE  CallersOK'
<1>1. /\ Top(c) = stack[c][1] /\ Len(stack[c]) > 0
  BY OnTop
<1>2. CallerNow(stack[c], ret[c]) /\ stack[c] \in Seq(AnyFrame)
  BY Before
<1> DEFINE u == <<g, f>> \o Tail(stack[c])
<1>3. u \in Seq(AnyFrame)
  BY <1>1, <1>2
<1>4. CallerNow(u, ret[c])
  BY <1>1, <1>2, CallOK DEF CallerNow, FrameNow, GivenNow, CalledNow
<1>5. stack' = [stack EXCEPT ![c] = u]
  BY DEF Call
<1> QED BY <1>3, <1>4, <1>5, StepOK, RetKept

LEMMA ReturnedOK ==
  ASSUME CallersOK, GrownNow, NEW c \in Callers, stack[c] # <<>>, NEW q \in Returns, Return(c, q),
         Top(c).op # "all" => GivenNow(stack[c][2], q),
         Top(c).op = "all" => ReturnedNow(q)
  PROVE  CallersOK'
<1>1. /\ Top(c) = stack[c][1] /\ Len(stack[c]) \in Nat \ {0} /\ (Top(c).op = "all" <=> Len(stack[c]) = 1)
  BY OnTop
<1>2. CallerNow(stack[c], ret[c]) /\ stack[c] \in Seq(AnyFrame)
  BY Before
<1> DEFINE u == Tail(stack[c])
<1>3. u \in Seq(AnyFrame) /\ Len(stack[c]) > 0
  BY <1>1, <1>2
<1>4. CallerNow(u, q)
  BY <1>1, <1>2, <1>3, ReturnOK DEF CallerNow, GivenNow, ReturnedNow
<1>5. stack' = [stack EXCEPT ![c] = u] /\ ret' = [ret EXCEPT ![c] = q]
  BY DEF Return
<1> QED BY <1>3, <1>4, <1>5, StepOK

-----------------------------------------------------------------------------
(* Calls of ListAllTags and ListSubTags.                                    *)

LEMMA ReturnsTyped ==
  Error \in Returns /\ Ok \in Returns /\ Nothing \in Returns /\ Error # Ok
  /\ Nothing # Ok /\ Nothing # Error /\ \A d \in Descriptors : Desc(d) \in Returns /\ Desc(d) # Error
BY DEF Error, Ok, Nothing, Desc, Returns

LEMMA SymbolsTyped ==
  ASSUME NEW s \in Scopes
  PROVE  /\ Len(Symbols[s]) \in Nat
         /\ \A i \in 1..Len(Symbols[s]) :
              Symbols[s][i] \in [name : Names, kind : Kinds, template : Templates \cup {None}]
         /\ Visible(s) = {i \in 1..Len(Symbols[s]) : Symbols[s][i].kind = "tag"}
<1> DEFINE R == [name : Names, kind : Kinds, template : Templates \cup {None}]
<1>1. Symbols[s] \in Seq(R)
  BY DiscoveryAssumption
<1> HIDE DEF R
<1>2. /\ Len(Symbols[s]) \in Nat /\ DOMAIN Symbols[s] = 1..Len(Symbols[s])
      /\ \A i \in 1..Len(Symbols[s]) : Symbols[s][i] \in R
  BY <1>1
<1> QED BY <1>2 DEF Visible, R

(* The kind of call a frame is of. *)
LEMMA FrameOf ==
  ASSUME NEW f \in AnyFrame
  PROVE  /\ f.pc \in {"programs", "subs", "found"} => f \in ListFrames /\ f.op = "all" /\ f.scope = Controller
         /\ f.pc \in {"request", "entries", "described"} => f \in ListFrames /\ f.op \in {"all", "sub"}
         /\ f.pc \in {"attr", "read", "parse", "fields", "nested"} => f \in MembersFrames /\ f.op = "members"
BY DEF AnyFrame, ListFrames, MembersFrames

LEMMA ListTyped ==
  ASSUME NEW f \in ListFrames
  PROVE  /\ f \in AnyFrame /\ f.op \in {"all", "sub"} /\ f.scope \in Scopes
         /\ f.op = "sub" => f.scope \in Programs
         /\ f.op = "all" => f.scope = Controller
         /\ f.start \in Nat \ {0} /\ f.at \in Nat \ {0} /\ f.last \in Nat /\ f.more \in BOOLEAN
BY DEF AnyFrame, ListFrames, Scopes

(* What an exchange that is not counted as a fault, and one that is, leave. *)
LEMMA Steady ==
  ASSUME KnownOK, UNCHANGED <<KnownTypesByID, supported, version, refused>>,
         DOMAIN KnownTags \subseteq DOMAIN KnownTags', UNCHANGED faults \/ Fault
  PROVE  GrownNow /\ (Fault => ~Untouched')
<1>1. faults \in Nat
  BY DEF KnownOK
<1>2. Fault => faults' # 0
  BY <1>1 DEF Fault
<1> QED BY <1>2 DEF GrownNow, Grown, Listing, Untouched

(* A call that returns an error. *)
LEMMA ErrorOK ==
  ASSUME CallersOK, GrownNow, NEW c \in Callers, stack[c] # <<>>, Return(c, Error),
         Top(c).op = "members" => ~Untouched'
  PROVE  CallersOK'
<1>1. Top(c).op # "all" => CalledNow(Top(c), stack[c][2])
  BY OnTop
<1>2. ASSUME Top(c).op # "all" PROVE GivenNow(stack[c][2], Error)
  BY <1>1, <1>2 DEF CalledNow, Called, GivenNow, Given
<1>3. ReturnedNow(Error)
  BY ReturnsTyped DEF ReturnedNow, Returned
<1> QED BY <1>2, <1>3, ReturnsTyped, ReturnedOK

(* The instance at hand is dealt with. *)
LEMMA SeenOK ==
  ASSUME CallersOK, GrownNow, NEW c \in Callers, stack[c] # <<>>, NEW f, f = Top(c),
         f.op # "members", f.pc \in {"entries", "found", "described"}, f.at <= f.last,
         Goto(c, Seen(f)), NEW q \in Returns, ret' = [ret EXCEPT ![c] = q],
         Symbols[f.scope][f.at].kind = "tag" => Symbols[f.scope][f.at].name \in DOMAIN KnownTags'
  PROVE  CallersOK'
<1> DEFINE g == Seen(f)
           T == DOMAIN KnownTags'
<1>1. f \in ListFrames /\ ListOK(f, T, Listing')
  BY OnTop, FramesHave DEF FrameNow, FrameOK
<1>2. /\ f.scope \in Scopes /\ f.start \in Nat \ {0} /\ f.at \in Nat \ {0} /\ f.last \in Nat
      /\ Len(Symbols[f.scope]) \in Nat
  BY <1>1, ListTyped, SymbolsTyped
<1>3. /\ g \in ListFrames /\ g.at = f.at + 1 /\ g.start = f.at /\ g.last = f.last /\ g.more = f.more
      /\ g.scope = f.scope /\ g.op = f.op /\ g.pc = "entries" /\ g.fallback = f.fallback
  <2>1. f.at + 1 \in Nat \ {0}
    BY ONLY <1>2
  <2> QED BY ONLY <1>1, <1>2, <2>1 DEF ListFrames, Seen
<1> HIDE DEF g, T
<1>4. ASSUME Listing'
      PROVE  /\ f.fallback = FALSE /\ f.pc # "found"
             /\ Has(T, f.scope, f.at - 1) /\ (f.more \/ f.last = Len(Symbols[f.scope]))
             /\ f.op = "all" => \A p \in Programs : HasAll(T, p)
  BY <1>1, <1>4 DEF ListOK
<1>5. ASSUME Listing' PROVE Has(T, f.scope, f.at)
  <2> SUFFICES ASSUME NEW i \in Visible(f.scope), i <= f.at PROVE Symbols[f.scope][i].name \in T
    BY DEF Has
  <2>1. i \in Nat /\ Symbols[f.scope][i].kind = "tag"
    BY <1>2, SymbolsTyped
  <2>2. CASE i = f.at
    BY <2>1, <2>2 DEF T
  <2>3. CASE i # f.at
    <3>1. i <= f.at - 1
      BY ONLY <1>2, <2>1, <2>3, i <= f.at
    <3> QED BY <1>4, <1>5, <3>1 DEF Has
  <2> QED BY <2>2, <2>3
<1>6. ListOK(g, T, Listing')
  <2>1. f.last <= Len(Symbols[f.scope])
    BY <1>1 DEF ListOK
  <2>2. f.at <= Len(Symbols[f.scope]) + 1 /\ (f.at + 1) - 1 = f.at
    BY ONLY <1>2, <2>1, f.at <= f.last
  <2> QED BY ONLY <1>3, <1>4, <1>5, <2>1, <2>2 DEF ListOK
<1>7. FrameNow(g) /\ GivenNow(g, q)
  BY <1>3, <1>6 DEF FrameNow, FrameOK, GivenNow, Given, T
<1>8. SamePlace(g, f) /\ g \in AnyFrame
  BY <1>3, ListTyped DEF SamePlace
<1> QED BY <1>7, <1>8, WentOK DEF g

LEMMA AtTop ==
  ASSUME CallersOK, GrownNow, NEW c \in Callers, NEW p, At(c, p)
  PROVE  /\ stack[c] # <<>> /\ Top(c).pc = p /\ Top(c) \in AnyFrame /\ ret[c] \in Returns
         /\ FrameNow(Top(c)) /\ GivenNow(Top(c), ret[c])
         /\ Top(c).op # "all" =>
              CalledNow(Top(c), stack[c][2]) /\ stack[c][2] \in AnyFrame /\ FrameNow(stack[c][2])
<1>1. stack[c] # <<>> /\ Top(c).pc = p
  BY DEF At
<1> QED BY <1>1, OnTop

LEMMA ListAllProgramsOK ==
  ASSUME KnownOK, CallersOK, NEW c \in Callers, ListAllPrograms(c) \/ ListAllProgramsFallsBack(c)
  PROVE  CallersOK'
<1> DEFINE f == Top(c)
<1>0. At(c, "programs") /\ UNCHANGED <<KnownTypesByID, KnownTags, supported, version, refused, faults, ret>>
  BY DEF ListAllPrograms, ListAllProgramsFallsBack
<1>1. GrownNow
  BY <1>0, Steady
<1>2. stack[c] # <<>> /\ f.pc = "programs" /\ f \in AnyFrame /\ FrameNow(f)
  BY <1>0, <1>1, AtTop
<1>3. f \in ListFrames /\ f.op = "all"
  BY <1>2, FrameOf
<1>4. ListOK(f, DOMAIN KnownTags', Listing')
  BY <1>2, <1>3 DEF FrameNow, FrameOK
<1>5. ASSUME NEW g \in ListFrames, Goto(c, g), g.op = "all", FrameNow(g), GivenNow(g, ret[c]) PROVE CallersOK'
  <2>1. SamePlace(g, f) /\ g \in AnyFrame
    BY <1>3, <1>5, ListTyped DEF SamePlace
  <2> QED BY <1>0, <1>1, <1>2, <1>5, <2>1, WentOK, RetKept
<1>6. CASE ListAllPrograms(c)
  <2> DEFINE g == [f EXCEPT !.pc = "subs", !.programs = Programs]
  <2>1. Goto(c, g)
    BY <1>6 DEF ListAllPrograms
  <2> HIDE DEF f
  <2>2. /\ g \in ListFrames /\ g.op = "all" /\ g.pc = "subs" /\ g.programs = Programs /\ g.scope = f.scope
        /\ g.start = f.start /\ g.last = f.last /\ g.fallback = f.fallback
    BY ONLY <1>2, <1>3 DEF ListFrames
  <2> HIDE DEF g
  <2>3. ListOK(g, DOMAIN KnownTags', Listing')
    BY ONLY <1>2, <1>4, <2>2 DEF ListOK
  <2>4. FrameNow(g) /\ GivenNow(g, ret[c])
    BY ONLY <2>2, <2>3 DEF FrameNow, FrameOK, GivenNow, Given
  <2> QED BY <1>5, <2>1, <2>2, <2>4
<1>7. CASE ListAllProgramsFallsBack(c)
  <2> DEFINE g == [f EXCEPT !.pc = "request", !.fallback = TRUE]
  <2>1. Goto(c, g) /\ ~Listing'
    BY <1>7 DEF ListAllProgramsFallsBack, Listing
  <2> HIDE DEF f
  <2>2. /\ g \in ListFrames /\ g.op = "all" /\ g.pc = "request" /\ g.scope = f.scope
        /\ g.start = f.start /\ g.last = f.last
    BY ONLY <1>2, <1>3 DEF ListFrames
  <2> HIDE DEF g
  <2>3. ListOK(g, DOMAIN KnownTags', Listing')
    BY ONLY <1>4, <2>1, <2>2 DEF ListOK
  <2>4. FrameNow(g) /\ GivenNow(g, ret[c])
    BY ONLY <2>2, <2>3 DEF FrameNow, FrameOK, GivenNow, Given
  <2> QED BY <1>5, <2>1, <2>2, <2>4
<1> QED BY <1>6, <1>7

(* The frames that calls begin with. *)
LEMMA SubFrameOK ==
  ASSUME NEW p \in Programs, NEW n \in Nat \ {0}, n <= Len(Symbols[p]) + 1, NEW T, NEW l, l => Has(T, p, n - 1)
  PROVE  SubFrame(p, n) \in ListFrames /\ ListOK(SubFrame(p, n), T, l)
<1> DEFINE g == SubFrame(p, n)
<1>1. n - 1 \in Nat /\ n - 1 <= Len(Symbols[p])
  BY SymbolsTyped DEF Scopes
<1>2. g \in ListFrames
  BY ONLY <1>1, n \in Nat \ {0}, p \in Programs DEF ListFrames, SubFrame
<1>3. /\ g.pc = "request" /\ g.op = "sub" /\ g.scope = p /\ g.start = n /\ g.last = n - 1 /\ g.fallback = FALSE
  BY DEF SubFrame
<1> HIDE DEF g
<1>4. ListOK(g, T, l)
  BY ONLY <1>1, <1>3, n <= Len(Symbols[p]) + 1, l => Has(T, p, n - 1) DEF ListOK
<1> QED BY <1>2, <1>4 DEF g

LEMMA AllFrameOK ==
  ASSUME NEW n \in Nat \ {0}, n <= Len(Symbols[Controller]) + 1, NEW T, NEW l,
         l => Has(T, Controller, n - 1), l /\ n # 1 => \A p \in Programs : HasAll(T, p)
  PROVE  /\ AllFrame(n) \in ListFrames /\ ListOK(AllFrame(n), T, l)
         /\ AllFrame(n).pc \in {"programs", "request"} /\ AllFrame(n).op = "all"
<1> DEFINE g == AllFrame(n)
<1>1. n - 1 \in Nat /\ n - 1 <= Len(Symbols[Controller])
  BY SymbolsTyped DEF Scopes
<1>2. g \in ListFrames
  BY ONLY <1>1, n \in Nat \ {0} DEF ListFrames, AllFrame
<1>3. /\ g.pc = (IF n = 1 THEN "programs" ELSE "request") /\ g.op = "all" /\ g.scope = Controller
      /\ g.start = n /\ g.last = n - 1 /\ g.fallback = FALSE
  BY DEF AllFrame
<1> HIDE DEF g
<1>4. ListOK(g, T, l)
  BY <1>1, <1>3 DEF ListOK
<1> QED BY <1>2, <1>3, <1>4 DEF g

LEMMA HasNone == ASSUME NEW T, NEW s \in Scopes PROVE Has(T, s, 0) /\ 1 <= Len(Symbols[s]) + 1
BY SymbolsTyped DEF Has

LEMMA ListProgramsOK ==
  ASSUME KnownOK, CallersOK, NEW c \in Callers, ListPrograms(c)
  PROVE  CallersOK'
<1> DEFINE f == Top(c)
           T == DOMAIN KnownTags'
<1>0. At(c, "subs") /\ UNCHANGED <<KnownTypesByID, KnownTags, supported, version, refused, faults>>
  BY DEF ListPrograms, known
<1>1. GrownNow
  BY <1>0, Steady
<1>2. stack[c] # <<>> /\ f.pc = "subs" /\ f \in AnyFrame /\ FrameNow(f) /\ GivenNow(f, ret[c])
  BY <1>0, <1>1, AtTop
<1>3. f \in ListFrames /\ f.op = "all" /\ f.scope = Controller
  BY <1>2, FrameOf
<1>4. ListOK(f, T, Listing')
  BY <1>2, <1>3 DEF FrameNow, FrameOK
<1>5. ASSUME Listing', ret[c] # Error PROVE \A p \in Programs \ f.programs : HasAll(T, p)
  BY <1>2, <1>5 DEF GivenNow, Given
<1>6. CASE Return(c, Error)
  BY <1>1, <1>2, <1>3, <1>6, ErrorOK
<1>7. CASE ret[c] # Error /\ f.programs = {} /\ Goto(c, [f EXCEPT !.pc = "request"]) /\ UNCHANGED ret
  <2> DEFINE g == [f EXCEPT !.pc = "request"]
  <2>1. /\ g \in ListFrames /\ g.op = "all" /\ g.pc = "request" /\ g.scope = f.scope
        /\ g.start = f.start /\ g.last = f.last /\ g.fallback = f.fallback
    BY ONLY <1>3, <1>2 DEF ListFrames
  <2>2. Goto(c, g)
    BY <1>7
  <2> HIDE DEF g, f
  <2>3. ListOK(g, T, Listing')
    BY ONLY <1>2, <1>4, <1>5, <1>7, <2>1 DEF ListOK
  <2>4. FrameNow(g) /\ GivenNow(g, ret[c])
    BY ONLY <2>1, <2>3 DEF FrameNow, FrameOK, GivenNow, Given, T
  <2>5. SamePlace(g, f) /\ g \in AnyFrame
    BY <1>3, <2>1, ListTyped DEF SamePlace
  <2> QED BY <1>1, <1>2, <1>7, <2>2, <2>4, <2>5, WentOK, RetKept DEF f
<1>8. ASSUME ret[c] # Error, NEW p \in f.programs, UNCHANGED ret,
             Call(c, [f EXCEPT !.programs = @ \ {p}], SubFrame(p, 1))
      PROVE  CallersOK'
  <2> DEFINE g == [f EXCEPT !.programs = @ \ {p}]
             h == SubFrame(p, 1)
  <2>1. f.programs \in SUBSET Programs
    BY ONLY <1>3 DEF ListFrames
  <2>2. /\ g \in ListFrames /\ g.op = "all" /\ g.pc = "subs" /\ g.scope = f.scope /\ g.programs = f.programs \ {p}
        /\ g.start = f.start /\ g.last = f.last /\ g.fallback = f.fallback
    BY ONLY <1>3, <1>2, <2>1 DEF ListFrames
  <2>3. Call(c, g, h)
    BY <1>8
  <2>4. h.op = "sub" /\ h.scope = p /\ h.pc = "request"
    BY DEF SubFrame
  <2>5. p \in Programs /\ p \in Scopes
    BY <2>1 DEF Scopes
  <2>6. h \in ListFrames /\ ListOK(h, T, Listing')
    BY <2>5, HasNone, SubFrameOK
  <2> HIDE DEF g, h, f
  <2>7. ListOK(g, T, Listing')
    BY ONLY <1>2, <1>4, <2>2 DEF ListOK
  <2>8. FrameNow(g) /\ FrameNow(h) /\ GivenNow(h, ret[c])
    BY ONLY <2>2, <2>4, <2>6, <2>7 DEF FrameNow, FrameOK, GivenNow, Given, T
  <2>9. CalledNow(h, g)
    <3>1. Programs \ (g.programs \cup {h.scope}) = Programs \ f.programs
      BY ONLY <2>2, <2>4, p \in f.programs
    <3> QED BY ONLY <1>5, <1>8, <2>2, <2>4, <3>1 DEF CalledNow, Called, T
  <2>10. SamePlace(g, f) /\ g \in AnyFrame /\ h \in AnyFrame
    BY <1>3, <2>2, <2>6, ListTyped DEF SamePlace
  <2> QED BY <1>1, <1>2, <1>8, <2>3, <2>8, <2>9, <2>10, CalledOK DEF f
<1> QED BY <1>6, <1>7, <1>8 DEF ListPrograms

(* An exchange of a listing fails. *)
LEMMA ListFailsOK ==
  ASSUME KnownOK, CallersOK, NEW c \in Callers, ListAllProgramsFails(c) \/ PageFails(c)
  PROVE  CallersOK'
<1>0. /\ At(c, "programs") \/ At(c, "request")
      /\ Fault /\ Return(c, Error) /\ UNCHANGED <<KnownTypesByID, KnownTags, supported, version, refused>>
  BY DEF ListAllProgramsFails, PageFails, known
<1>1. GrownNow
  BY <1>0, Steady
<1>2. stack[c] # <<>> /\ Top(c) \in AnyFrame /\ Top(c).pc \in {"programs", "request"}
  BY <1>0, <1>1, AtTop
<1>3. Top(c).op # "members"
  BY <1>2, FrameOf
<1> QED BY <1>0, <1>1, <1>2, <1>3, ErrorOK

LEMMA PageOK ==
  ASSUME KnownOK, CallersOK, NEW c \in Callers, Page(c) \/ PageRefused(c)
  PROVE  CallersOK'
<1> DEFINE f == Top(c)
           T == DOMAIN KnownTags'
           end == Len(Symbols[f.scope])
<1>0. /\ At(c, "request") /\ UNCHANGED <<KnownTypesByID, KnownTags, supported, version, ret>>
      /\ (UNCHANGED refused) \/ refused' = TRUE
      /\ UNCHANGED faults \/ Fault
  BY DEF Page, PageRefused, known
<1>1. GrownNow
  <2>1. faults \in Nat
    BY DEF KnownOK
  <2>2. Fault => faults' # 0
    BY <2>1 DEF Fault
  <2> QED BY <1>0, <2>2 DEF GrownNow, Grown, Listing, Untouched
<1>2. stack[c] # <<>> /\ f.pc = "request" /\ f \in AnyFrame /\ FrameNow(f)
  BY <1>0, <1>1, AtTop
<1>3. f \in ListFrames
  BY <1>2, FrameOf
<1>4. ListOK(f, T, Listing')
  BY <1>2, <1>3, ListTyped DEF FrameNow, FrameOK
<1>5. f.start \in Nat \ {0} /\ end \in Nat /\ f.scope \in Scopes /\ f.start - 1 \in Nat /\ f.start - 1 <= end
  <2>1. f.start \in Nat \ {0} /\ end \in Nat /\ f.scope \in Scopes
    BY <1>3, ListTyped, SymbolsTyped
  <2>2. f.start <= end + 1
    BY <1>4 DEF ListOK
  <2> QED BY ONLY <2>1, <2>2
<1>6. ASSUME NEW last \in Nat, last <= end, NEW more \in BOOLEAN, Listing' => more \/ last = end,
             Goto(c, [f EXCEPT !.pc = "entries", !.at = f.start, !.last = last, !.more = more])
      PROVE  CallersOK'
  <2> DEFINE g == [f EXCEPT !.pc = "entries", !.at = f.start, !.last = last, !.more = more]
  <2>1. /\ g \in ListFrames /\ g.op = f.op /\ g.pc = "entries" /\ g.scope = f.scope /\ g.at = f.start
        /\ g.start = f.start /\ g.last = last /\ g.fallback = f.fallback /\ g.more = more
    BY ONLY <1>3, <1>5, <1>6 DEF ListFrames
  <2>2. Goto(c, g)
    BY <1>6
  <2> HIDE DEF g, f
  <2>3. ListOK(g, T, Listing')
    BY ONLY <1>2, <1>4, <1>6, <2>1 DEF ListOK, end
  <2>4. FrameNow(g) /\ GivenNow(g, ret[c])
    BY <1>3, <2>1, <2>3, ListTyped DEF FrameNow, FrameOK, GivenNow, Given
  <2>5. SamePlace(g, f) /\ g \in AnyFrame
    BY <1>3, <2>1, ListTyped DEF SamePlace
  <2> QED BY <1>0, <1>1, <1>2, <2>2, <2>4, <2>5, WentOK, RetKept DEF f
<1>7. CASE Page(c)
  <2>1. PICK last \in f.start - 1 .. end :
          Goto(c, [f EXCEPT !.pc = "entries", !.at = f.start, !.last = last, !.more = last < end])
    BY <1>7 DEF Page
  <2>2. last \in Nat /\ last <= end /\ (last < end) \in BOOLEAN /\ ((last < end) \/ last = end)
    BY ONLY <1>5, <2>1
  <2> QED BY <1>6, <2>1, <2>2
<1>8. CASE PageRefused(c)
  <2>1. Goto(c, [f EXCEPT !.pc = "entries", !.at = f.start, !.last = f.start - 1, !.more = FALSE]) /\ ~Listing'
    BY <1>8 DEF PageRefused, Listing
  <2> QED BY <1>5, <1>6, <2>1
<1> QED BY <1>7, <1>8

(* The instance at hand. *)
LEMMA AtEntryHas ==
  ASSUME CallersOK, GrownNow, NEW c \in Callers, NEW kind, AtEntry(c, kind)
  PROVE  /\ stack[c] # <<>> /\ Top(c) \in ListFrames /\ Top(c).op # "members" /\ Top(c).pc = "entries"
         /\ Top(c).at <= Top(c).last /\ Top(c).at \in 1..Len(Symbols[Top(c).scope]) /\ Top(c).scope \in Scopes
         /\ Entry(c).kind = kind /\ ret[c] \in Returns /\ ListOK(Top(c), DOMAIN KnownTags', Listing')
<1>1. /\ stack[c] # <<>> /\ Top(c) \in AnyFrame /\ Top(c).pc = "entries" /\ Entry(c).kind = kind
      /\ ret[c] \in Returns /\ FrameNow(Top(c)) /\ ~PageEnds(c)
  BY AtTop DEF AtEntry
<1>2. Top(c) \in ListFrames /\ Top(c).op # "members"
  BY <1>1, FrameOf
<1>3. ListOK(Top(c), DOMAIN KnownTags', Listing')
  BY <1>1, <1>2 DEF FrameNow, FrameOK
<1>4. Top(c).at \in Nat \ {0} /\ Top(c).last \in Nat /\ Top(c).scope \in Scopes
  BY <1>2, ListTyped
<1>5. Top(c).last <= Len(Symbols[Top(c).scope]) /\ Len(Symbols[Top(c).scope]) \in Nat
  BY <1>3, <1>4, SymbolsTyped DEF ListOK
<1>6. Top(c).at <= Top(c).last /\ Top(c).at \in 1..Len(Symbols[Top(c).scope])
  BY ONLY <1>1, <1>4, <1>5 DEF PageEnds
<1> QED BY <1>1, <1>2, <1>3, <1>4, <1>6

LEMMA SkipOK ==
  ASSUME KnownOK, CallersOK, NEW c \in Callers, Skip(c)
  PROVE  CallersOK'
<1>0. /\ UNCHANGED <<KnownTypesByID, KnownTags, supported, version, refused, faults, ret>>
      /\ Goto(c, Seen(Top(c))) /\ (AtEntry(c, "hidden") \/ AtEntry(c, "program"))
  BY DEF Skip, known, Passed
<1>1. GrownNow
  BY <1>0, Steady
<1>2. /\ stack[c] # <<>> /\ Top(c).op # "members" /\ Top(c).pc = "entries" /\ Top(c).at <= Top(c).last
      /\ Entry(c).kind # "tag"
  BY <1>0, <1>1, AtEntryHas
<1> QED BY <1>0, <1>1, <1>2, SeenOK, RetKept DEF Entry

(* A name that is added. *)
LEMMA KnownGrows ==
  ASSUME NEW n, NEW t, NEW u, Known(n, t, u)
  PROVE  /\ DOMAIN KnownTags' = DOMAIN KnownTags \cup {n}
         /\ KnownTags'[n] = [template |-> t, udt |-> u]
         /\ \A m \in DOMAIN KnownTags \ {n} : KnownTags'[m] = KnownTags[m]
BY DEF Known, Put

LEMMA PlainOK ==
  ASSUME KnownOK, CallersOK, NEW c \in Callers, Plain(c)
  PROVE  CallersOK'
<1>0. /\ UNCHANGED <<KnownTypesByID, supported, version, refused, faults, ret>>
      /\ Goto(c, Seen(Top(c))) /\ AtEntry(c, "tag") /\ Known(Entry(c).name, None, None)
  BY DEF Plain
<1>1. DOMAIN KnownTags' = DOMAIN KnownTags \cup {Entry(c).name}
  BY <1>0, KnownGrows
<1>2. GrownNow
  BY <1>0, <1>1, Steady
<1>3. /\ stack[c] # <<>> /\ Top(c).op # "members" /\ Top(c).pc = "entries" /\ Top(c).at <= Top(c).last
  BY <1>0, <1>2, AtEntryHas
<1> QED BY <1>0, <1>1, <1>2, <1>3, SeenOK, RetKept DEF Entry

LEMMA FoundProgramOK ==
  ASSUME KnownOK, CallersOK, NEW c \in Callers, FoundProgram(c)
  PROVE  CallersOK'
<1> DEFINE f == Top(c)
           T == DOMAIN KnownTags'
           p == Entry(c).name
           g == [f EXCEPT !.pc = "found"]
           h == SubFrame(p, 1)
<1>0. /\ UNCHANGED <<KnownTypesByID, KnownTags, supported, version, refused, faults, ret>>
      /\ AtEntry(c, "program") /\ f.fallback /\ Call(c, g, h)
  BY DEF FoundProgram
<1>1. GrownNow
  BY <1>0, Steady
<1>2. /\ stack[c] # <<>> /\ f \in ListFrames /\ f.pc = "entries" /\ f.at <= f.last /\ f.scope \in Scopes
      /\ f.at \in 1..Len(Symbols[f.scope]) /\ Entry(c).kind = "program" /\ ListOK(f, T, Listing')
  BY <1>0, <1>1, AtEntryHas
<1>3. ~Listing'
  BY <1>0, <1>2 DEF ListOK
<1>4. f.scope = Controller /\ p \in Programs /\ p \in Scopes
  <2>1. DOMAIN Symbols[f.scope] = 1..Len(Symbols[f.scope])
    BY <1>2, DiscoveryAssumption
  <2>2. Entry(c) = Symbols[f.scope][f.at]
    BY DEF Entry
  <2> QED BY <1>2, <2>1, <2>2, DiscoveryAssumption DEF Scopes
<1>5. f.op = "all"
  BY ONLY <1>2, <1>4, DiscoveryAssumption DEF ListFrames
<1>6. /\ g \in ListFrames /\ g.op = "all" /\ g.pc = "found" /\ g.scope = f.scope /\ g.at = f.at
      /\ g.start = f.start /\ g.last = f.last
  BY ONLY <1>2, <1>5 DEF ListFrames
<1>7. h \in ListFrames /\ ListOK(h, T, Listing') /\ h.op = "sub" /\ h.pc = "request"
  BY <1>4, HasNone, SubFrameOK DEF SubFrame
<1>8. Symbols[g.scope][g.at].kind = "program"
  BY <1>2, <1>6 DEF Entry
<1> HIDE DEF g, h, f
<1>9. ListOK(g, T, Listing')
  BY ONLY <1>2, <1>3, <1>6, <1>8 DEF ListOK
<1>10. FrameNow(g) /\ FrameNow(h) /\ GivenNow(h, ret[c]) /\ CalledNow(h, g)
  BY ONLY <1>3, <1>6, <1>7, <1>9 DEF FrameNow, FrameOK, GivenNow, Given, CalledNow, Called, T
<1>11. SamePlace(g, f) /\ g \in AnyFrame /\ h \in AnyFrame
  BY <1>5, <1>6, <1>7, ListTyped DEF SamePlace
<1> QED BY <1>0, <1>1, <1>2, <1>10, <1>11, CalledOK DEF f

LEMMA FoundProgramListedOK ==
  ASSUME KnownOK, CallersOK, NEW c \in Callers, FoundProgramListed(c)
  PROVE  CallersOK'
<1>0. UNCHANGED <<KnownTypesByID, supported, version, refused, faults>> /\ At(c, "found")
  BY DEF FoundProgramListed
<1>1. DOMAIN KnownTags \subseteq DOMAIN KnownTags'
  BY KnownGrows DEF FoundProgramListed
<1>2. GrownNow
  BY <1>0, <1>1, Steady
<1>3. stack[c] # <<>> /\ Top(c) \in AnyFrame /\ Top(c).pc = "found" /\ FrameNow(Top(c))
  BY <1>0, <1>2, AtTop
<1>4. Top(c).op # "members"
  BY <1>3, FrameOf
<1>5. CASE Return(c, Error)
  BY <1>2, <1>3, <1>4, <1>5, ErrorOK
<1>6. CASE Goto(c, Seen(Top(c))) /\ UNCHANGED ret
  <2>1. Top(c).at <= Top(c).last /\ Symbols[Top(c).scope][Top(c).at].kind = "program"
    BY <1>3, <1>4 DEF FrameNow, FrameOK, ListOK
  <2> QED BY <1>2, <1>3, <1>4, <1>6, <2>1, SeenOK, RetKept
<1> QED BY <1>5, <1>6 DEF FoundProgramListed

LEMMA DescTyped == \A d : Desc(d).desc = d
BY DEF Desc

LEMMA MembersFrameOK ==
  ASSUME NEW t \in Templates, NEW w
  PROVE  /\ MembersFrame(t) \in MembersFrames /\ MembersOK(MembersFrame(t), w)
         /\ MembersFrame(t).op = "members" /\ MembersFrame(t).template = t /\ MembersFrame(t).pc = "attr"
<1> DEFINE h == MembersFrame(t)
           d == [id |-> t, named |-> 0, parts |-> {}]
<1>1. Len(Members[t]) \in Nat
  BY InnerTyped
<1>2. 0 \in 0 .. MaxRounds - 1
  BY DiscoveryAssumption
<1>3. d \in Descriptors
  BY DEF Descriptors
<1>4. /\ h.op = "members" /\ h.template = t /\ h.got = 0 /\ h.next = 1 /\ h.pc = "attr" /\ h.desc = d
  BY DEF MembersFrame
<1>5. h \in MembersFrames
  BY ONLY <1>2, <1>3, t \in Templates DEF MembersFrames, MembersFrame
<1>6. 0 <= Units(t) /\ 1 <= Len(Members[t]) + 1
  BY ONLY <1>1 DEF Units
<1>7. d.id = t /\ d.named = 1 - 1 /\ d.parts = {}
  OBVIOUS
<1> HIDE DEF h, d
<1>8. MembersOK(h, w)
  BY ONLY <1>4, <1>6, <1>7 DEF MembersOK
<1> QED BY <1>4, <1>5, <1>8 DEF h

LEMMA StructuredOK ==
  ASSUME KnownOK, TypesWhole, CallersOK, NEW c \in Callers, Structured(c)
  PROVE  CallersOK'
<1> DEFINE f == Top(c)
           T == DOMAIN KnownTags'
           t == Entry(c).template
           g == [f EXCEPT !.pc = "described"]
<1>0. /\ UNCHANGED <<KnownTypesByID, KnownTags, supported, version, refused, faults>>
      /\ AtEntry(c, "tag") /\ t # None
  BY DEF Structured, known
<1>1. GrownNow
  BY <1>0, Steady
<1>2. /\ stack[c] # <<>> /\ f \in ListFrames /\ f.op # "members" /\ f.pc = "entries" /\ f.at <= f.last
      /\ f.scope \in Scopes /\ f.at \in 1..Len(Symbols[f.scope]) /\ ListOK(f, T, Listing') /\ ret[c] \in Returns
  BY <1>0, <1>1, AtEntryHas
<1>3. t \in Templates /\ t = Symbols[f.scope][f.at].template
  <2>1. Symbols[f.scope][f.at] \in [name : Names, kind : Kinds, template : Templates \cup {None}]
    BY <1>2, SymbolsTyped
  <2> QED BY <1>0, <2>1 DEF Entry
<1>4. /\ g \in ListFrames /\ g.op = f.op /\ g.pc = "described" /\ g.scope = f.scope /\ g.at = f.at
      /\ g.start = f.start /\ g.last = f.last /\ g.more = f.more /\ g.fallback = f.fallback
  BY ONLY <1>2 DEF ListFrames
<1>5. Awaited(g) = t
  BY <1>2, <1>3, <1>4 DEF Awaited
<1>6. CASE t \in DOMAIN KnownTypesByID /\ ret' = [ret EXCEPT ![c] = Desc(KnownTypesByID[t])] /\ Goto(c, g)
  <2> DEFINE d == KnownTypesByID[t]
             q == Desc(d)
  <2>1. d \in Descriptors /\ d.id = t /\ t \in DOMAIN KnownTypesByID'
    BY <1>0, <1>6 DEF KnownOK
  <2>2. Untouched' => d = Whole(t, 0)
    BY <1>1, <1>6 DEF TypesWhole, GrownNow, Grown, Untouched
  <2>3. q \in Returns /\ q.desc = d
    BY <2>1, ReturnsTyped, DescTyped
  <2>4. Goto(c, g) /\ ret' = [ret EXCEPT ![c] = q]
    BY <1>6
  <2>5. q = Desc(q.desc)
    BY <2>3
  <2>6. Untouched' => q = Desc(Whole(t, 0))
    BY <2>2
  <2> HIDE DEF g, f, d, q, t
  <2>7. ListOK(g, T, Listing')
    BY ONLY <1>0, <1>2, <1>4, <1>5 DEF ListOK
  <2>8. FrameNow(g)
    BY ONLY <1>2, <1>4, <2>7 DEF FrameNow, FrameOK, T
  <2>9. GivenNow(g, q)
    BY ONLY <1>4, <1>5, <2>1, <2>3, <2>5, <2>6 DEF GivenNow, Given
  <2>10. SamePlace(g, f) /\ g \in AnyFrame
    BY <1>2, <1>4, ListTyped DEF SamePlace
  <2> QED BY <1>1, <1>2, <2>3, <2>4, <2>8, <2>9, <2>10, WentOK DEF f
<1>7. CASE Call(c, g, MembersFrame(t)) /\ UNCHANGED ret
  <2> DEFINE h == MembersFrame(t)
  <2>1. h \in MembersFrames /\ MembersOK(h, Untouched') /\ h.op = "members" /\ h.template = t /\ h.pc = "attr"
    BY <1>3, MembersFrameOK
  <2>2. Call(c, g, h) /\ UNCHANGED ret
    BY <1>7
  <2> HIDE DEF g, f, h, t
  <2>3. ListOK(g, T, Listing')
    BY ONLY <1>0, <1>2, <1>4, <1>5 DEF ListOK
  <2>4. FrameNow(g) /\ FrameNow(h) /\ GivenNow(h, ret[c]) /\ CalledNow(h, g)
    BY ONLY <1>2, <1>4, <1>5, <2>1, <2>3 DEF FrameNow, FrameOK, GivenNow, Given, CalledNow, Called, T
  <2>5. SamePlace(g, f) /\ g \in AnyFrame /\ h \in AnyFrame
    BY <1>2, <1>4, <2>1, ListTyped DEF SamePlace, AnyFrame
  <2> QED BY <1>1, <1>2, <2>2, <2>4, <2>5, CalledOK DEF f
<1> QED BY <1>6, <1>7 DEF Structured

LEMMA DescribedOK ==
  ASSUME KnownOK, CallersOK, NEW c \in Callers, Described(c)
  PROVE  CallersOK'
<1>0. /\ UNCHANGED <<KnownTypesByID, supported, version, refused, faults>> /\ At(c, "described")
      /\ Goto(c, Seen(Top(c))) /\ ret' = [ret EXCEPT ![c] = Nothing]
      /\ \E u : Known(Entry(c).name, Entry(c).template, u)
  BY DEF Described
<1>1. DOMAIN KnownTags' = DOMAIN KnownTags \cup {Entry(c).name}
  BY <1>0, KnownGrows
<1>2. GrownNow
  BY <1>0, <1>1, Steady
<1>3. stack[c] # <<>> /\ Top(c) \in AnyFrame /\ Top(c).pc = "described" /\ FrameNow(Top(c))
  BY <1>0, <1>2, AtTop
<1>4. Top(c).op # "members"
  BY <1>3, FrameOf
<1>5. Top(c).at <= Top(c).last
  BY <1>3, <1>4 DEF FrameNow, FrameOK, ListOK
<1> QED BY <1>0, <1>1, <1>2, <1>3, <1>4, <1>5, SeenOK, ReturnsTyped DEF Entry

LEMMA PageDoneOK ==
  ASSUME KnownOK, CallersOK, NEW c \in Callers, PageDone(c)
  PROVE  CallersOK'
<1> DEFINE f == Top(c)
           T == DOMAIN KnownTags'
<1>0. /\ UNCHANGED <<KnownTypesByID, KnownTags, supported, version, refused, faults>>
      /\ At(c, "entries") /\ PageEnds(c)
  BY DEF PageDone, known
<1>1. GrownNow
  BY <1>0, Steady
<1>2. /\ stack[c] # <<>> /\ f \in AnyFrame /\ f.pc = "entries" /\ FrameNow(f) /\ ret[c] \in Returns
      /\ f.op # "all" => CalledNow(f, stack[c][2])
  BY <1>0, <1>1, AtTop
<1>3. f \in ListFrames /\ f.op \in {"all", "sub"}
  BY <1>2, FrameOf
<1>4. ListOK(f, T, Listing')
  BY <1>2, <1>3 DEF FrameNow, FrameOK
<1>5. /\ f.scope \in Scopes /\ f.start \in Nat \ {0} /\ f.at \in Nat \ {0} /\ f.last \in Nat
      /\ f.op = "sub" => f.scope \in Programs
      /\ f.op = "all" => f.scope = Controller
      /\ Len(Symbols[f.scope]) \in Nat /\ f.last < f.at
  <2>1. /\ f.scope \in Scopes /\ f.start \in Nat \ {0} /\ f.at \in Nat \ {0} /\ f.last \in Nat
        /\ f.op = "sub" => f.scope \in Programs
        /\ f.op = "all" => f.scope = Controller
    BY <1>3, ListTyped
  <2>2. f.last < f.at
    BY <1>0, <2>1 DEF PageEnds
  <2> QED BY <2>1, <2>2, SymbolsTyped
<1>6. CASE Continues(f)
  <2> DEFINE g == IF f.op = "all" THEN AllFrame(f.start) ELSE SubFrame(f.scope, f.start)
  <2>1. Goto(c, g) /\ UNCHANGED ret
    BY <1>6 DEF PageDone, nextListInstanceStart
  <2>2. /\ f.start <= Len(Symbols[f.scope]) + 1
        /\ Listing' => Has(T, f.scope, f.start - 1) /\ (f.op = "all" => \A p \in Programs : HasAll(T, p))
    BY ONLY <1>2, <1>4 DEF ListOK
  <2>3. /\ g \in ListFrames /\ ListOK(g, T, Listing') /\ g.op = f.op
        /\ g.pc \in {"programs", "request"} /\ (g.op = "sub" => g.scope = f.scope)
    <3>1. CASE f.op = "all"
      <4>1. g = AllFrame(f.start) /\ f.scope = Controller
        BY <1>5, <3>1
      <4> QED BY ONLY <1>5, <2>2, <3>1, <4>1, AllFrameOK
    <3>2. CASE f.op = "sub"
      <4>1. g = SubFrame(f.scope, f.start) /\ f.scope \in Programs
        BY <1>5, <3>2
      <4>2. g.pc = "request" /\ g.op = "sub" /\ g.scope = f.scope
        BY <4>1 DEF SubFrame
      <4>3. g \in ListFrames /\ ListOK(g, T, Listing')
        BY ONLY <1>5, <2>2, <4>1, SubFrameOK
      <4> QED BY <3>2, <4>2, <4>3
    <3> QED BY <1>3, <3>1, <3>2
  <2> HIDE DEF g, f
  <2>4. FrameNow(g) /\ GivenNow(g, ret[c])
    BY ONLY <1>3, <2>3 DEF FrameNow, FrameOK, GivenNow, Given, T
  <2>5. SamePlace(g, f) /\ g \in AnyFrame
    BY <1>3, <2>3, ListTyped DEF SamePlace
  <2> QED BY <1>1, <1>2, <2>1, <2>4, <2>5, WentOK, RetKept DEF f
<1>7. CASE ~Continues(f)
  <2>1. Return(c, Ok)
    BY <1>7 DEF PageDone
  <2>2. ASSUME Listing' PROVE HasAll(T, f.scope) /\ (f.op = "all" => \A p \in Programs : HasAll(T, p))
    <3>1. /\ Has(T, f.scope, f.at - 1) /\ f.last = Len(Symbols[f.scope])
          /\ f.op = "all" => \A p \in Programs : HasAll(T, p)
      BY ONLY <1>2, <1>4, <1>7, <2>2 DEF ListOK, Continues
    <3> SUFFICES ASSUME NEW i \in Visible(f.scope), i <= Len(Symbols[f.scope])
                 PROVE  Symbols[f.scope][i].name \in T
      BY <3>1 DEF HasAll, Has
    <3>2. i \in Nat
      BY <1>5, SymbolsTyped
    <3>3. i <= f.at - 1
      BY ONLY <1>5, <3>1, <3>2, i <= Len(Symbols[f.scope])
    <3> QED BY <3>1, <3>3 DEF Has
  <2>3. ASSUME f.op = "all" PROVE ReturnedNow(Ok)
    BY <1>5, <2>2, <2>3 DEF ReturnedNow, Returned, Scopes
  <2>4. ASSUME f.op # "all" PROVE GivenNow(stack[c][2], Ok)
    <3>1. CalledNow(f, stack[c][2]) /\ f.op = "sub"
      BY <1>2, <1>3, <2>4
    <3> DEFINE h == stack[c][2]
    <3>2. /\ h.pc \in {"subs", "found"}
          /\ Listing' /\ h.pc = "subs" => \A p \in Programs \ (h.programs \cup {f.scope}) : HasAll(T, p)
      BY ONLY <3>1 DEF CalledNow, Called
    <3> HIDE DEF h, f
    <3>3. Listing' /\ h.pc = "subs" => \A p \in Programs \ h.programs : HasAll(T, p)
      BY ONLY <2>2, <3>2
    <3>4. GivenNow(h, Ok)
      BY ONLY <3>2, <3>3 DEF GivenNow, Given, T
    <3> QED BY <3>4 DEF h
  <2> QED BY <1>1, <1>2, <2>1, <2>3, <2>4, ReturnsTyped, ReturnedOK
<1> QED BY <1>6, <1>7

-----------------------------------------------------------------------------
(* Calls of ListMembers.                                                    *)

LEMMA MembersTyped ==
  ASSUME NEW f \in MembersFrames
  PROVE  /\ f \in AnyFrame /\ f.op = "members" /\ f.template \in Templates /\ f.got \in Nat
         /\ f.rounds \in 0 .. MaxRounds - 1 /\ f.next \in Nat \ {0} /\ f.desc \in Descriptors
         /\ Len(Members[f.template]) \in Nat
         /\ \A i \in 1..Len(Members[f.template]) : Members[f.template][i] \in Templates \cup {None}
<1>1. /\ f \in AnyFrame /\ f.op = "members" /\ f.template \in Templates /\ f.got \in Nat
      /\ f.rounds \in 0 .. MaxRounds - 1 /\ f.next \in Nat \ {0} /\ f.desc \in Descriptors
  BY DEF AnyFrame, MembersFrames
<1>2. Members[f.template] \in Seq(Templates \cup {None})
  BY <1>1, DiscoveryAssumption
<1> QED BY <1>1, <1>2

(* The parts a description may have. *)
SomeParts == SUBSET [template : Templates, version : 0..MaxDownloads]

LEMMA DescWith ==
  ASSUME NEW d \in Descriptors, NEW S \in SomeParts
  PROVE  /\ [d EXCEPT !.parts = S] \in Descriptors /\ [d EXCEPT !.parts = S].id = d.id
         /\ [d EXCEPT !.parts = S].named = d.named /\ [d EXCEPT !.parts = S].parts = S
BY DEF Descriptors, SomeParts

LEMMA DescHas ==
  ASSUME NEW d \in Descriptors
  PROVE  d.id \in Templates /\ d.named \in Nat /\ d.parts \in SomeParts
BY DEF Descriptors, SomeParts

LEMMA PartTyped ==
  ASSUME NEW t \in Templates, NEW v \in 0..MaxDownloads
  PROVE  {Part(t, v)} \in SomeParts
BY DEF Part, SomeParts

(* The frame of a call that goes on. *)
LEMMA MembersGo ==
  ASSUME CallersOK, GrownNow, NEW c \in Callers, stack[c] # <<>>, NEW f \in MembersFrames, f = Top(c),
         NEW g \in MembersFrames, g.template = f.template, MembersOK(g, Untouched'), g.pc # "nested",
         Goto(c, g), NEW q \in Returns, ret' = [ret EXCEPT ![c] = q]
  PROVE  CallersOK'
<1>1. f.op = "members" /\ g.op = "members" /\ g \in AnyFrame
  BY MembersTyped
<1>2. g.pc \notin {"subs", "described"}
  BY DEF MembersFrames
<1>3. FrameNow(g) /\ GivenNow(g, q) /\ SamePlace(g, f)
  BY <1>1, <1>2 DEF FrameNow, FrameOK, GivenNow, Given, SamePlace
<1> QED BY <1>1, <1>3, WentOK

LEMMA AtMembers ==
  ASSUME CallersOK, GrownNow, NEW c \in Callers, NEW p \in {"attr", "read", "parse", "fields", "nested"}, At(c, p)
  PROVE  /\ stack[c] # <<>> /\ Top(c).pc = p /\ Top(c) \in MembersFrames /\ Top(c).op = "members"
         /\ MembersOK(Top(c), Untouched') /\ GivenNow(Top(c), ret[c]) /\ ret[c] \in Returns
         /\ CalledNow(Top(c), stack[c][2])
<1>1. /\ stack[c] # <<>> /\ Top(c).pc = p /\ Top(c) \in AnyFrame /\ ret[c] \in Returns
      /\ FrameNow(Top(c)) /\ GivenNow(Top(c), ret[c])
      /\ Top(c).op # "all" => CalledNow(Top(c), stack[c][2])
  BY AtTop
<1>2. Top(c) \in MembersFrames /\ Top(c).op = "members"
  BY <1>1, FrameOf
<1> QED BY <1>1, <1>2 DEF FrameNow, FrameOK

LEMMA MembersFailsOK ==
  ASSUME KnownOK, CallersOK, NEW c \in Callers, MembersFails(c)
  PROVE  CallersOK'
<1>0. /\ At(c, "attr") \/ At(c, "read")
      /\ Fault /\ Return(c, Error) /\ UNCHANGED <<KnownTypesByID, KnownTags, supported, version, refused>>
  BY DEF MembersFails, known
<1>1. GrownNow /\ ~Untouched'
  BY <1>0, Steady
<1>2. stack[c] # <<>>
  BY <1>0, <1>1, AtTop
<1> QED BY <1>0, <1>1, <1>2, ErrorOK

(* A frame with an answer more. *)
WithAnswer(f, got, rounds, p) == [Answered(f) EXCEPT !.got = got, !.rounds = rounds, !.pc = p]

LEMMA AnsweredHas ==
  ASSUME KnownOK, NEW f \in MembersFrames, NEW got \in Nat, NEW rounds \in 0 .. MaxRounds - 1,
         NEW p \in {"read", "parse"}, NEW g, g = WithAnswer(f, got, rounds, p)
  PROVE  /\ g \in MembersFrames /\ g.template = f.template /\ g.got = got /\ g.pc = p /\ g.next = f.next
         /\ g.desc.id = f.desc.id /\ g.desc.named = f.desc.named
         /\ g.desc.parts = f.desc.parts \cup {Part(f.template, version)}
<1> DEFINE S == f.desc.parts \cup {Part(f.template, version)}
           d == [f.desc EXCEPT !.parts = S]
<1>1. f.template \in Templates /\ f.desc \in Descriptors
  BY MembersTyped
<1>2. S \in SomeParts
  <2>1. version \in 0..MaxDownloads
    BY DEF KnownOK
  <2>2. f.desc.parts \in SomeParts /\ {Part(f.template, version)} \in SomeParts
    BY <1>1, <2>1, DescHas, PartTyped
  <2> QED BY ONLY <2>2 DEF SomeParts
<1>3. d \in Descriptors /\ d.id = f.desc.id /\ d.named = f.desc.named /\ d.parts = S
  BY <1>1, <1>2, DescWith
<1>4. Answered(f) = [f EXCEPT !.desc = d]
  BY DEF Answered
<1>5. g = [[f EXCEPT !.desc = d] EXCEPT !.got = got, !.rounds = rounds, !.pc = p]
  BY <1>4 DEF WithAnswer
<1> HIDE DEF d, S
<1>6. /\ g \in MembersFrames /\ g.template = f.template /\ g.got = got /\ g.pc = p /\ g.next = f.next
      /\ g.desc = d
  BY ONLY <1>3, <1>5, f \in MembersFrames, got \in Nat, rounds \in 0 .. MaxRounds - 1, p \in {"read", "parse"}
     DEF MembersFrames
<1> QED BY <1>3, <1>6 DEF S

LEMMA AnsweredOK ==
  ASSUME KnownOK, CallersOK, GrownNow, UNCHANGED version, NEW c \in Callers, stack[c] # <<>>, NEW f \in MembersFrames, f = Top(c),
         MembersOK(f, Untouched'), f.pc \in {"attr", "read"},
         NEW got \in Nat, got <= Units(f.template), NEW rounds \in 0 .. MaxRounds - 1, NEW p \in {"read", "parse"},
         Untouched' /\ p = "parse" => got = Units(f.template),
         Goto(c, WithAnswer(f, got, rounds, p)), UNCHANGED ret
  PROVE  CallersOK'
<1> DEFINE g == WithAnswer(f, got, rounds, p)
<1>0. Goto(c, g) /\ g = WithAnswer(f, got, rounds, p)
  OBVIOUS
<1> HIDE DEF g
<1>1. /\ g \in MembersFrames /\ g.template = f.template /\ g.got = got /\ g.pc = p /\ g.next = f.next
      /\ g.desc.id = f.desc.id /\ g.desc.named = f.desc.named
      /\ g.desc.parts = f.desc.parts \cup {Part(f.template, version)}
  BY ONLY <1>0, KnownOK, f \in MembersFrames, got \in Nat, rounds \in 0 .. MaxRounds - 1, p \in {"read", "parse"},
          AnsweredHas
<1>2. /\ f.next = 1 /\ f.next <= Len(Members[f.template]) + 1 /\ f.desc.id = f.template
  BY DEF MembersOK
<1>3. ASSUME Untouched' PROVE g.desc.parts = PartsTo(f.template, g.next - 1) /\ f.desc.named = f.next - 1
  <2>1. f.desc.parts = {} \/ f.desc.parts = PartsTo(f.template, f.next - 1)
    BY <1>3 DEF MembersOK
  <2>2. PartsTo(f.template, f.next - 1) = {Part(f.template, 0)}
    BY <1>2, PartsNone
  <2>3. version = 0
    BY <1>3 DEF Untouched
  <2>4. f.desc.named = f.next - 1
    BY <1>3 DEF MembersOK
  <2> QED BY ONLY <1>1, <2>1, <2>2, <2>3, <2>4
<1>4. MembersOK(g, Untouched')
  BY <1>1, <1>2, <1>3 DEF MembersOK
<1>5. g.pc # "nested"
  BY <1>1
<1> QED BY <1>0, <1>1, <1>4, <1>5, MembersGo, RetKept

LEMMA TemplateAttrOK ==
  ASSUME KnownOK, CallersOK, NEW c \in Callers, TemplateAttr(c)
  PROVE  CallersOK'
<1> DEFINE f == Top(c)
<1>0. /\ UNCHANGED <<KnownTypesByID, KnownTags, supported, version, refused, faults, ret>>
      /\ At(c, "attr") /\ Goto(c, [Answered(f) EXCEPT !.pc = "read"])
  BY DEF TemplateAttr, known
<1>1. GrownNow
  BY <1>0, Steady
<1>2. stack[c] # <<>> /\ f.pc = "attr" /\ f \in MembersFrames /\ MembersOK(f, Untouched')
  BY <1>0, <1>1, AtMembers
<1>3. f.got \in Nat /\ f.rounds \in 0 .. MaxRounds - 1 /\ f.got <= Units(f.template)
  BY <1>2, MembersTyped DEF MembersOK
<1>4. [Answered(f) EXCEPT !.pc = "read"] = WithAnswer(f, f.got, f.rounds, "read")
  BY ONLY <1>2 DEF Answered, MembersFrames, WithAnswer
<1>5. Goto(c, WithAnswer(f, f.got, f.rounds, "read"))
  BY ONLY <1>0, <1>4
<1> QED BY <1>0, <1>1, <1>2, <1>3, <1>5, AnsweredOK

LEMMA ChunkOK ==
  ASSUME KnownOK, CallersOK, NEW c \in Callers, Chunk(c) \/ LastChunk(c)
  PROVE  CallersOK'
<1> DEFINE f == Top(c)
<1>0. /\ UNCHANGED <<KnownTypesByID, KnownTags, supported, version, refused>> /\ At(c, "read")
      /\ UNCHANGED faults \/ Fault
  BY DEF Chunk, LastChunk, known
<1>1. GrownNow /\ (Fault => ~Untouched')
  BY <1>0, Steady
<1>2. stack[c] # <<>> /\ f.pc = "read" /\ f \in MembersFrames /\ MembersOK(f, Untouched')
  BY <1>0, <1>1, AtMembers
<1>3. /\ f.got \in Nat /\ f.rounds \in 0 .. MaxRounds - 1 /\ f.got <= Units(f.template) /\ Units(f.template) \in Nat
  <2>1. Len(Members[f.template]) \in Nat
    BY <1>2, MembersTyped
  <2>2. Units(f.template) \in Nat
    BY ONLY <2>1 DEF Units
  <2> QED BY <1>2, <2>2, MembersTyped DEF MembersOK
<1>4. Remaining(c) = Units(f.template) - f.got
  BY DEF Remaining
<1>5. CASE Return(c, Error) /\ Fault
  BY <1>1, <1>2, <1>5, ErrorOK
<1>6. ASSUME NEW k \in 1 .. Remaining(c), f.rounds + 1 # MaxRounds, UNCHANGED ret,
             Goto(c, [Answered(f) EXCEPT !.got = Offset(f, k), !.rounds = @ + 1,
                                         !.pc = IF k = Remaining(c) THEN "parse" ELSE "read"])
      PROVE  CallersOK'
  <2> DEFINE p == IF k = Remaining(c) THEN "parse" ELSE "read"
  <2>0. MaxRounds \in Nat
    BY DiscoveryAssumption
  <2>1. /\ f.got + k \in Nat /\ f.got + k <= Units(f.template) /\ f.rounds + 1 \in 0 .. MaxRounds - 1
        /\ k = Remaining(c) => f.got + k = Units(f.template)
    BY ONLY <1>3, <1>4, <1>6, <2>0
  <2>2. p \in {"read", "parse"} /\ (p = "parse" => f.got + k = Units(f.template))
    BY ONLY <2>1
  <2>3. Answered(f).rounds = f.rounds
    BY ONLY <1>2 DEF Answered, MembersFrames
  <2>4. Goto(c, WithAnswer(f, f.got + k, f.rounds + 1, p))
    BY <1>6, <2>3 DEF Offset, WithAnswer
  <2> HIDE DEF p
  <2> QED BY <1>0, <1>1, <1>2, <1>6, <2>1, <2>2, <2>4, AnsweredOK
<1>7. ASSUME NEW k \in 0 .. Remaining(c), k < Remaining(c) => Fault, UNCHANGED ret,
             Goto(c, [Answered(f) EXCEPT !.got = Offset(f, k), !.pc = "parse"])
      PROVE  CallersOK'
  <2>1. /\ f.got + k \in Nat /\ f.got + k <= Units(f.template)
        /\ k < Remaining(c) \/ f.got + k = Units(f.template)
    BY ONLY <1>3, <1>4, k \in 0 .. Remaining(c)
  <2>2. Untouched' => f.got + k = Units(f.template)
    BY <1>1, <1>7, <2>1
  <2>3. [Answered(f) EXCEPT !.got = Offset(f, k), !.pc = "parse"] = WithAnswer(f, f.got + k, f.rounds, "parse")
    BY ONLY <1>2 DEF Answered, MembersFrames, Offset, WithAnswer
  <2>4. Goto(c, WithAnswer(f, f.got + k, f.rounds, "parse"))
    BY ONLY <1>7, <2>3
  <2> QED BY <1>0, <1>1, <1>2, <1>3, <1>7, <2>1, <2>2, <2>4, AnsweredOK
<1> QED BY <1>5, <1>6, <1>7 DEF Chunk, LastChunk

LEMMA ParseOK ==
  ASSUME KnownOK, CallersOK, NEW c \in Callers, Parse(c)
  PROVE  CallersOK'
<1> DEFINE f == Top(c)
<1>0. UNCHANGED <<KnownTypesByID, KnownTags, supported, version, refused, faults>> /\ At(c, "parse")
  BY DEF Parse, known
<1>1. GrownNow
  BY <1>0, Steady
<1>2. stack[c] # <<>> /\ f.pc = "parse" /\ f \in MembersFrames /\ MembersOK(f, Untouched') /\ f.op = "members"
  BY <1>0, <1>1, AtMembers
<1>3. f.got \in Nat /\ Len(Members[f.template]) \in Nat
  BY <1>2, MembersTyped
<1>4. CASE f.got < Len(Members[f.template]) + 1 /\ Return(c, Error)
  <2>1. f.got # Units(f.template)
    BY ONLY <1>3, <1>4 DEF Units
  <2>2. ~Untouched'
    BY <1>2, <2>1 DEF MembersOK
  <2> QED BY <1>1, <1>2, <1>4, <2>2, ErrorOK
<1>5. CASE Goto(c, [f EXCEPT !.pc = "fields"]) /\ UNCHANGED ret
  <2> DEFINE g == [f EXCEPT !.pc = "fields"]
  <2>1. /\ g \in MembersFrames /\ g.pc = "fields" /\ g.template = f.template /\ g.got = f.got /\ g.next = f.next
        /\ g.desc = f.desc
    BY ONLY <1>2 DEF MembersFrames
  <2>2. Goto(c, g)
    BY <1>5
  <2> HIDE DEF f, g
  <2>3. MembersOK(g, Untouched')
    BY ONLY <1>2, <2>1 DEF MembersOK
  <2> QED BY <1>1, <1>2, <1>5, <2>1, <2>2, <2>3, MembersGo, RetKept DEF f
<1> QED BY <1>4, <1>5 DEF Parse

(* The member at hand. *)
LEMMA AtMemberHas ==
  ASSUME CallersOK, GrownNow, NEW c \in Callers, AtMember(c), NEW f, f = Top(c)
  PROVE  /\ stack[c] # <<>> /\ f.pc = "fields" /\ f \in MembersFrames /\ f.op = "members"
         /\ MembersOK(f, Untouched') /\ f.next \in 1..Len(Members[f.template]) /\ f.got \in Nat
         /\ Len(Members[f.template]) \in Nat /\ ret[c] \in Returns
         /\ Member(c) = Members[f.template][f.next] /\ f.template \in Templates
<1>1. At(c, "fields") /\ f.next <= Len(Members[f.template])
  BY DEF AtMember
<1>2. /\ stack[c] # <<>> /\ f.pc = "fields" /\ f \in MembersFrames /\ f.op = "members"
      /\ MembersOK(f, Untouched') /\ ret[c] \in Returns
  BY <1>1, AtMembers
<1>3. f.next \in Nat \ {0} /\ Len(Members[f.template]) \in Nat /\ f.got \in Nat /\ f.template \in Templates
  BY <1>2, MembersTyped
<1>4. f.next \in 1..Len(Members[f.template])
  BY ONLY <1>1, <1>3
<1> QED BY <1>2, <1>3, <1>4 DEF Member

(* A name is missing only where less was read than there is. *)
LEMMA FieldMissingOK ==
  ASSUME KnownOK, CallersOK, NEW c \in Callers, FieldMissing(c)
  PROVE  CallersOK'
<1> DEFINE f == Top(c)
           g == [f EXCEPT !.next = @ + 1]
<1>0. /\ UNCHANGED <<KnownTypesByID, KnownTags, supported, version, refused, faults, ret>>
      /\ AtMember(c) /\ ~MemberNamed(c) /\ Goto(c, g)
  BY DEF FieldMissing, known
<1>1. GrownNow
  BY <1>0, Steady
<1>2. /\ stack[c] # <<>> /\ f.pc = "fields" /\ f \in MembersFrames
      /\ MembersOK(f, Untouched') /\ f.next \in 1..Len(Members[f.template]) /\ f.got \in Nat
      /\ Len(Members[f.template]) \in Nat
  BY <1>0, <1>1, AtMemberHas
<1>3. f.got # Units(f.template)
  BY <1>0, <1>2 DEF MemberNamed, Units
<1>4. ~Untouched'
  BY <1>2, <1>3 DEF MembersOK
<1>5. f.next + 1 \in Nat \ {0} /\ f.next + 1 <= Len(Members[f.template]) + 1
  BY ONLY <1>2
<1>6. /\ g \in MembersFrames /\ g.pc = "fields" /\ g.template = f.template /\ g.got = f.got /\ g.next = f.next + 1
      /\ g.desc = f.desc
  BY ONLY <1>2, <1>5 DEF MembersFrames
<1>7. Goto(c, g)
  BY <1>0
<1> HIDE DEF f, g
<1>8. MembersOK(g, Untouched')
  BY ONLY <1>2, <1>4, <1>5, <1>6 DEF MembersOK
<1> QED BY <1>0, <1>1, <1>2, <1>6, <1>7, <1>8, MembersGo, RetKept DEF f

LEMMA FilledHas ==
  ASSUME NEW f \in MembersFrames, NEW S \in SomeParts, NEW g, g = Filled(f, S)
  PROVE  /\ g \in MembersFrames /\ g.template = f.template /\ g.got = f.got /\ g.pc = "fields" /\ g.next = f.next + 1
         /\ g.desc.id = f.desc.id /\ g.desc.named = f.desc.named + 1 /\ g.desc.parts = f.desc.parts \cup S
<1> DEFINE P == f.desc.parts \cup S
           n == f.desc.named + 1
           d == [f.desc EXCEPT !.named = n, !.parts = P]
<1>1. f.desc \in Descriptors /\ f.next + 1 \in Nat \ {0}
  BY MembersTyped
<1>2. P \in SomeParts /\ n \in Nat
  <2>1. f.desc.parts \in SomeParts /\ f.desc.named \in Nat
    BY <1>1, DescHas
  <2>2. P \in SomeParts
    BY ONLY <2>1, S \in SomeParts DEF SomeParts
  <2> QED BY ONLY <2>1, <2>2
<1>3. g = [f EXCEPT !.next = f.next + 1, !.pc = "fields", !.desc = d]
  BY ONLY <1>1, g = Filled(f, S), f \in MembersFrames DEF Filled, MembersFrames, Descriptors
<1> HIDE DEF n, P
<1>4. d \in Descriptors /\ d.id = f.desc.id /\ d.named = n /\ d.parts = P
  BY ONLY <1>1, <1>2 DEF Descriptors, SomeParts
<1> HIDE DEF d
<1>5. /\ g \in MembersFrames /\ g.template = f.template /\ g.got = f.got /\ g.pc = "fields" /\ g.next = f.next + 1
      /\ g.desc = d
  BY ONLY <1>1, <1>3, <1>4, f \in MembersFrames DEF MembersFrames
<1> QED BY <1>4, <1>5 DEF n, P

(* A member is named, and described as a whole unless something failed. *)
LEMMA FilledOK ==
  ASSUME CallersOK, GrownNow, NEW c \in Callers, stack[c] # <<>>, NEW f \in MembersFrames, f = Top(c),
         MembersOK(f, Untouched'), f.pc \in {"fields", "nested"}, f.next \in 1..Len(Members[f.template]),
         NEW S \in SomeParts,
         Untouched' => S = (IF Members[f.template][f.next] = None THEN {}
                            ELSE Whole(Members[f.template][f.next], 0).parts),
         Goto(c, Filled(f, S)), NEW q \in Returns, ret' = [ret EXCEPT ![c] = q]
  PROVE  CallersOK'
<1> DEFINE g == Filled(f, S)
<1>0. Goto(c, g) /\ g = Filled(f, S)
  OBVIOUS
<1> HIDE DEF g
<1>1. /\ g \in MembersFrames /\ g.template = f.template /\ g.got = f.got /\ g.pc = "fields" /\ g.next = f.next + 1
      /\ g.desc.id = f.desc.id /\ g.desc.named = f.desc.named + 1 /\ g.desc.parts = f.desc.parts \cup S
  BY ONLY <1>0, f \in MembersFrames, S \in SomeParts, FilledHas
<1>2. f.template \in Templates /\ Len(Members[f.template]) \in Nat
  BY MembersTyped
<1>3. /\ f.next + 1 <= Len(Members[f.template]) + 1 /\ (f.next - 1) + 1 = (f.next + 1) - 1
      /\ (f.next + 1) - 1 = f.next
  BY ONLY <1>2, f.next \in 1..Len(Members[f.template])
<1>4. ASSUME Untouched' PROVE g.desc.parts = PartsTo(f.template, g.next - 1)
  <2>1. f.desc.parts = PartsTo(f.template, f.next - 1)
    BY <1>4 DEF MembersOK
  <2>2. PartsTo(f.template, f.next) = PartsTo(f.template, f.next - 1) \cup S
    BY <1>2, <1>4, PartsNext
  <2> QED BY ONLY <1>1, <1>3, <2>1, <2>2
<1>5. /\ f.got <= Units(f.template) /\ f.desc.id = f.template
      /\ Untouched' => f.desc.named = f.next - 1 /\ f.got = Units(f.template)
  BY DEF MembersOK
<1>6. MembersOK(g, Untouched')
  BY ONLY <1>1, <1>3, <1>4, <1>5 DEF MembersOK
<1>7. g.pc # "nested"
  BY <1>1
<1> QED BY <1>0, <1>1, <1>6, <1>7, MembersGo

LEMMA FieldOK ==
  ASSUME KnownOK, TypesWhole, CallersOK, NEW c \in Callers, Field(c)
  PROVE  CallersOK'
<1> DEFINE f == Top(c)
           m == Member(c)
<1>0. /\ UNCHANGED <<KnownTypesByID, KnownTags, supported, version, refused, faults, ret>> /\ AtMember(c)
  BY DEF Field, known
<1>1. GrownNow
  BY <1>0, Steady
<1>2. /\ stack[c] # <<>> /\ f.pc = "fields" /\ f \in MembersFrames /\ f.op = "members"
      /\ MembersOK(f, Untouched') /\ f.next \in 1..Len(Members[f.template]) /\ ret[c] \in Returns
      /\ m = Members[f.template][f.next]
  BY <1>0, <1>1, AtMemberHas
<1>3. ret' = [ret EXCEPT ![c] = ret[c]]
  BY <1>0, RetKept
<1>4. CASE m = None /\ Goto(c, Filled(f, {}))
  <2>1. {} \in SomeParts
    BY DEF SomeParts
  <2> QED BY <1>1, <1>2, <1>3, <1>4, <2>1, FilledOK
<1>5. CASE m \in DOMAIN KnownTypesByID /\ Goto(c, Filled(f, KnownTypesByID[m].parts))
  <2> DEFINE S == KnownTypesByID[m].parts
  <2>1. S \in SomeParts /\ m # None
    BY <1>5, DescHas, DiscoveryAssumption DEF KnownOK
  <2>2. Untouched' => S = Whole(m, 0).parts
    BY <1>1, <1>5 DEF TypesWhole, GrownNow, Grown, Untouched
  <2>3. Goto(c, Filled(f, S))
    BY <1>5
  <2> HIDE DEF S
  <2> QED BY <1>1, <1>2, <1>3, <2>1, <2>2, <2>3, FilledOK
<1>6. CASE m \in Templates /\ Call(c, [f EXCEPT !.pc = "nested"], MembersFrame(m))
  <2> DEFINE g == [f EXCEPT !.pc = "nested"]
             h == MembersFrame(m)
  <2>1. /\ g \in MembersFrames /\ g.pc = "nested" /\ g.template = f.template /\ g.got = f.got /\ g.next = f.next
        /\ g.desc = f.desc /\ g.op = "members"
    BY ONLY <1>2 DEF MembersFrames
  <2>2. h \in MembersFrames /\ MembersOK(h, Untouched') /\ h.op = "members" /\ h.template = m /\ h.pc = "attr"
    BY <1>6, MembersFrameOK
  <2>3. Call(c, g, h)
    BY <1>6
  <2>4. Awaited(g) = m /\ m # None
    BY <1>2, <1>6, <2>1, DiscoveryAssumption DEF Awaited
  <2>5. f.next <= Len(Members[f.template])
    BY <1>2, MembersTyped
  <2> HIDE DEF f, g, h, m
  <2>6. MembersOK(g, Untouched')
    BY ONLY <1>2, <2>1, <2>4, <2>5 DEF MembersOK
  <2>7. FrameNow(g) /\ FrameNow(h) /\ GivenNow(h, ret[c]) /\ CalledNow(h, g)
    BY ONLY <2>1, <2>2, <2>4, <2>6 DEF FrameNow, FrameOK, GivenNow, Given, CalledNow, Called
  <2>8. SamePlace(g, f) /\ g \in AnyFrame /\ h \in AnyFrame
    BY <1>2, <2>1, <2>2, MembersTyped DEF SamePlace
  <2> QED BY <1>0, <1>1, <1>2, <2>3, <2>7, <2>8, CalledOK DEF f
<1> QED BY <1>4, <1>5, <1>6 DEF Field

LEMMA FieldDescribedOK ==
  ASSUME KnownOK, CallersOK, NEW c \in Callers, FieldDescribed(c)
  PROVE  CallersOK'
<1> DEFINE f == Top(c)
           r == ret[c]
           S == IF r = Error THEN {} ELSE r.desc.parts
           m == Members[f.template][f.next]
<1>0. /\ UNCHANGED <<KnownTypesByID, KnownTags, supported, version, refused, faults>> /\ At(c, "nested")
      /\ Goto(c, Filled(f, S)) /\ ret' = [ret EXCEPT ![c] = Nothing]
  BY DEF FieldDescribed, known
<1>1. GrownNow
  BY <1>0, Steady
<1>2. /\ stack[c] # <<>> /\ f.pc = "nested" /\ f \in MembersFrames /\ f.op = "members"
      /\ MembersOK(f, Untouched') /\ GivenNow(f, r)
  BY <1>0, <1>1, AtMembers
<1>3. f.next \in 1..Len(Members[f.template]) /\ m # None
  <2>1. f.next <= Len(Members[f.template]) /\ m # None
    BY <1>2 DEF MembersOK, Awaited
  <2>2. f.next \in Nat \ {0} /\ Len(Members[f.template]) \in Nat
    BY <1>2, MembersTyped
  <2> QED BY ONLY <2>1, <2>2
<1>4. Awaited(f) = m
  BY <1>2 DEF Awaited
<1>5. r = Error \/ r.desc \in Descriptors
  BY <1>2 DEF GivenNow, Given
<1>6. Untouched' => r = Desc(Whole(m, 0))
  BY <1>2, <1>4 DEF GivenNow, Given
<1>7. S \in SomeParts
  <2>1. {} \in SomeParts
    BY DEF SomeParts
  <2> QED BY <1>5, <2>1, DescHas
<1>8. Untouched' => S = Whole(m, 0).parts
  <2> SUFFICES ASSUME Untouched' PROVE S = Whole(m, 0).parts
    OBVIOUS
  <2>1. r = Desc(Whole(m, 0))
    BY <1>6
  <2>2. r # Error
    BY ONLY <2>1 DEF Desc, Error
  <2>3. r.desc = Whole(m, 0)
    BY <2>1, DescTyped
  <2> QED BY <2>2, <2>3
<1>9. Goto(c, Filled(f, S)) /\ ret' = [ret EXCEPT ![c] = Nothing] /\ Nothing \in Returns
  BY <1>0, ReturnsTyped
<1> HIDE DEF S, r
<1> QED BY <1>1, <1>2, <1>3, <1>7, <1>8, <1>9, FilledOK

LEMMA MembersDoneOK ==
  ASSUME KnownOK, CallersOK, NEW c \in Callers, MembersDone(c)
  PROVE  /\ CallersOK' /\ GrownNow
         /\ Top(c).desc \in Descriptors /\ Top(c).desc.id = Top(c).template /\ Top(c).template \in Templates
         /\ Untouched' => Top(c).desc = Whole(Top(c).template, 0)
<1> DEFINE f == Top(c)
           t == f.template
           d == f.desc
           h == stack[c][2]
<1>0. /\ UNCHANGED <<KnownTags, supported, version, refused, faults>> /\ At(c, "fields")
      /\ f.next > Len(Members[t]) /\ Return(c, Desc(d))
      /\ KnownTypesByID' = Put(KnownTypesByID, t, d)
  BY DEF MembersDone
<1>1. DOMAIN KnownTypesByID' = DOMAIN KnownTypesByID \cup {t}
  BY <1>0 DEF Put
<1>2. GrownNow
  BY <1>0, <1>1 DEF GrownNow, Grown, Listing, Untouched
<1>3. /\ stack[c] # <<>> /\ f.pc = "fields" /\ f \in MembersFrames /\ f.op = "members"
      /\ MembersOK(f, Untouched') /\ CalledNow(f, h)
  BY <1>0, <1>2, AtMembers
<1>4. t \in Templates /\ d \in Descriptors /\ d.id = t
  BY <1>3, MembersTyped DEF MembersOK
<1>5. f.next - 1 = Len(Members[t])
  <2>1. f.next \in Nat /\ Len(Members[t]) \in Nat
    BY <1>3, MembersTyped
  <2>2. f.next <= Len(Members[t]) + 1
    BY <1>3 DEF MembersOK
  <2> QED BY ONLY <1>0, <2>1, <2>2
<1>6. ASSUME Untouched' PROVE d = Whole(t, 0)
  <2>1. d.named = Len(Members[t]) /\ d.parts = PartsTo(t, Len(Members[t]))
    BY <1>3, <1>5, <1>6 DEF MembersOK
  <2>2. d.parts = Whole(t, 0).parts
    BY <1>4, <2>1, PartsAll
  <2>3. d = [id |-> d.id, named |-> d.named, parts |-> d.parts]
    BY ONLY <1>4 DEF Descriptors
  <2> QED BY <1>4, <2>1, <2>2, <2>3 DEF Whole
<1>7. h.pc \in {"described", "nested"} /\ t = Awaited(h)
  BY <1>3 DEF CalledNow, Called
<1>8. t \in DOMAIN KnownTypesByID'
  BY <1>1
<1>9. Desc(d) \in Returns
  BY <1>4, ReturnsTyped
<1>10. Return(c, Desc(d))
  BY <1>0
<1> HIDE DEF f, t, d, h
<1>11. GivenNow(h, Desc(d))
  BY ONLY <1>4, <1>6, <1>7, <1>8, DescTyped DEF GivenNow, Given
<1>12. CallersOK'
  BY <1>2, <1>3, <1>9, <1>10, <1>11, ReturnedOK DEF f, h
<1> QED BY <1>2, <1>4, <1>6, <1>12 DEF f, t, d

-----------------------------------------------------------------------------
(* Steps of no caller's call, and the first one of ListAllTags.             *)

LEMMA OthersOK ==
  ASSUME CallersOK, GrownNow, UNCHANGED <<stack, ret>>
  PROVE  CallersOK'
<1>1. stack' \in [Callers -> Seq(AnyFrame)] /\ ret' \in [Callers -> Returns]
  BY DEF CallersOK
<1>2. ASSUME NEW d \in Callers PROVE CallerNow(stack'[d], ret'[d])
  BY Before
<1> QED BY ONLY <1>1, <1>2 DEF CallersOK, CallerNow

LEMMA DownloadOK ==
  ASSUME KnownOK, CallersOK, Download
  PROVE  CallersOK' /\ ~Untouched'
<1>1. version \in Nat /\ version' = version + 1
  BY DEF KnownOK, Download
<1>2. ~Untouched'
  BY <1>1 DEF Untouched
<1>3. GrownNow
  BY <1>2 DEF Download, known, GrownNow, Grown, Listing
<1> QED BY <1>2, <1>3, OthersOK DEF Download

LEMMA ListAllTagsOK ==
  ASSUME KnownOK, CallersOK, NEW c \in Callers, ListAllTags(c)
  PROVE  CallersOK'
<1> DEFINE T == DOMAIN KnownTags'
           f == AllFrame(1)
           s == <<f>>
<1>0. /\ UNCHANGED <<KnownTypesByID, KnownTags, supported, version, refused, faults>>
      /\ stack' = [stack EXCEPT ![c] = s] /\ ret' = [ret EXCEPT ![c] = Nothing]
  BY DEF ListAllTags, known
<1>1. GrownNow
  BY <1>0, Steady
<1>2. f \in ListFrames /\ ListOK(f, T, Listing') /\ f.pc \in {"programs", "request"} /\ f.op = "all"
  <2>1. Has(T, Controller, 0) /\ 1 <= Len(Symbols[Controller]) + 1
    BY HasNone DEF Scopes
  <2>2. Has(T, Controller, 1 - 1) /\ 1 \in Nat \ {0}
    BY ONLY <2>1
  <2> QED BY ONLY <2>1, <2>2, AllFrameOK
<1>3. f \in AnyFrame
  BY <1>2, ListTyped
<1>4. FrameNow(f) /\ GivenNow(f, Nothing)
  BY ONLY <1>2 DEF FrameNow, FrameOK, GivenNow, Given, T
<1>5. s \in Seq(AnyFrame) /\ Len(s) = 1 /\ s[1] = f
  BY <1>3
<1> HIDE DEF f, s
<1>6. CallerNow(s, Nothing)
  <2>1. \A i \in 1..Len(s) : i = 1
    BY ONLY <1>5
  <2>2. 1..(Len(s) - 1) = {} /\ Len(s) # 0
    BY ONLY <1>5
  <2>3. Nothing \in Returns
    BY ReturnsTyped
  <2>4. Deep(s)
    BY <1>5 DEF Deep
  <2> QED BY ONLY <1>2, <1>4, <1>5, <2>1, <2>2, <2>3, <2>4 DEF CallerNow, CallerOK, FrameNow, GivenNow
<1> QED BY <1>0, <1>1, <1>5, <1>6, StepOK, ReturnsTyped

-----------------------------------------------------------------------------
(* What is known.                                                           *)

Counters ==
  /\ UNCHANGED supported
  /\ UNCHANGED version \/ (version < MaxDownloads /\ version' = version + 1)
  /\ UNCHANGED faults \/ Fault
  /\ (UNCHANGED refused) \/ refused' = TRUE

LEMMA CountersOK ==
  ASSUME KnownOK, Counters
  PROVE  /\ supported' \in BOOLEAN /\ version' \in 0..MaxDownloads /\ faults' \in 0..MaxFaults /\ refused' \in BOOLEAN
         /\ Untouched' => Untouched
<1>1. MaxDownloads \in Nat /\ MaxFaults \in Nat
  BY DiscoveryAssumption
<1>2. supported \in BOOLEAN /\ version \in 0..MaxDownloads /\ faults \in 0..MaxFaults /\ refused \in BOOLEAN
  BY DEF KnownOK
<1>3. version' \in 0..MaxDownloads /\ (version' = 0 => version = 0)
  BY <1>1, <1>2 DEF Counters
<1>4. faults' \in 0..MaxFaults /\ (faults' = 0 => faults = 0)
  BY <1>1, <1>2 DEF Counters, Fault
<1>5. supported' \in BOOLEAN /\ refused' \in BOOLEAN
  BY <1>2 DEF Counters
<1> QED BY <1>3, <1>4, <1>5 DEF Untouched

LEMMA KnownKept ==
  ASSUME KnownOK, TypesWhole, Counters, KnownPrograms' \subseteq Programs,
         UNCHANGED <<KnownTags, KnownTypes, KnownTypesByID>>
  PROVE  KnownOK' /\ TypesWhole'
<1>1. KnownOK'
  BY CountersOK DEF KnownOK
<1>2. TypesWhole'
  BY CountersOK DEF TypesWhole, Untouched
<1> QED BY <1>1, <1>2

(* A tag is added. *)
LEMMA TagKnown ==
  ASSUME KnownOK, TypesWhole, Counters, UNCHANGED <<KnownPrograms, KnownTypes, KnownTypesByID>>,
         NEW n \in Names \cup {<<"Program", p>> : p \in Programs}, NEW t, NEW u, Known(n, t, u),
         Untouched' /\ t # None => u = Whole(t, 0)
  PROVE  KnownOK' /\ TypesWhole'
<1>1. /\ DOMAIN KnownTags' = DOMAIN KnownTags \cup {n}
      /\ KnownTags'[n] = [template |-> t, udt |-> u]
      /\ \A m \in DOMAIN KnownTags \ {n} : KnownTags'[m] = KnownTags[m]
  BY KnownGrows
<1>2. KnownOK'
  BY <1>1, CountersOK DEF KnownOK
<1>3. ASSUME Untouched'
      PROVE  /\ \A x \in DOMAIN KnownTypesByID' : KnownTypesByID'[x] = Whole(x, 0)
             /\ \A x \in DOMAIN KnownTypes' : KnownTypes'[x] = Whole(x, 0)
             /\ \A m \in DOMAIN KnownTags' :
                  KnownTags'[m].template # None => KnownTags'[m].udt = Whole(KnownTags'[m].template, 0)
  <2>1. Untouched
    BY <1>3, CountersOK
  <2>2. /\ \A x \in DOMAIN KnownTypesByID : KnownTypesByID[x] = Whole(x, 0)
        /\ \A x \in DOMAIN KnownTypes : KnownTypes[x] = Whole(x, 0)
        /\ \A m \in DOMAIN KnownTags :
             KnownTags[m].template # None => KnownTags[m].udt = Whole(KnownTags[m].template, 0)
    BY ONLY <2>1, TypesWhole DEF TypesWhole, Untouched
  <2>3. KnownTags'[n].template # None => KnownTags'[n].udt = Whole(KnownTags'[n].template, 0)
    BY <1>1, <1>3
  <2>4. ASSUME NEW m \in DOMAIN KnownTags'
        PROVE  KnownTags'[m].template # None => KnownTags'[m].udt = Whole(KnownTags'[m].template, 0)
    <3>1. CASE m = n
      BY ONLY <2>3, <3>1
    <3>2. CASE m # n
      <4>1. m \in DOMAIN KnownTags /\ KnownTags'[m] = KnownTags[m]
        BY ONLY <1>1, <2>4, <3>2
      <4> QED BY ONLY <2>2, <4>1
    <3> QED BY <3>1, <3>2
  <2> QED BY <2>2, <2>4
<1>4. TypesWhole'
  BY ONLY <1>3 DEF TypesWhole, Untouched
<1> QED BY <1>2, <1>4

LEMMA EntryTyped ==
  ASSUME NEW c, Top(c).scope \in Scopes, Top(c).at \in 1..Len(Symbols[Top(c).scope])
  PROVE  /\ Entry(c).name \in Names /\ Entry(c).template \in Templates \cup {None}
         /\ Entry(c).kind = "program" => Entry(c).name \in Programs
<1> DEFINE f == Top(c)
<1>1. Symbols[f.scope][f.at] \in [name : Names, kind : Kinds, template : Templates \cup {None}]
  BY SymbolsTyped
<1>2. f.at \in DOMAIN Symbols[f.scope]
  BY DiscoveryAssumption
<1>3. Symbols[f.scope][f.at].kind = "program" => Symbols[f.scope][f.at].name \in Programs
  BY <1>2, DiscoveryAssumption
<1> QED BY <1>1, <1>3 DEF Entry

LEMMA PlainKnown ==
  ASSUME KnownOK, TypesWhole, CallersOK, NEW c \in Callers, Plain(c)
  PROVE  KnownOK' /\ TypesWhole'
<1>0. /\ Counters /\ UNCHANGED <<KnownPrograms, KnownTypes, KnownTypesByID>>
      /\ AtEntry(c, "tag") /\ Known(Entry(c).name, None, None)
  BY DEF Plain, Counters
<1>1. DOMAIN KnownTags \subseteq DOMAIN KnownTags'
  BY <1>0, KnownGrows
<1>2. GrownNow
  BY <1>1, Steady DEF Plain
<1>3. Top(c).scope \in Scopes /\ Top(c).at \in 1..Len(Symbols[Top(c).scope])
  BY <1>0, <1>2, AtEntryHas
<1>4. Entry(c).name \in Names
  BY <1>3, EntryTyped
<1> QED BY <1>0, <1>4, TagKnown

LEMMA FoundProgramKnown ==
  ASSUME KnownOK, TypesWhole, CallersOK, NEW c \in Callers, FoundProgram(c)
  PROVE  KnownOK' /\ TypesWhole'
<1>0. /\ Counters /\ UNCHANGED <<KnownTags, KnownTypes, KnownTypesByID>>
      /\ AtEntry(c, "program") /\ KnownPrograms' = KnownPrograms \cup {Entry(c).name}
  BY DEF FoundProgram, Counters
<1>1. GrownNow
  BY Steady DEF FoundProgram
<1>2. Top(c).scope \in Scopes /\ Top(c).at \in 1..Len(Symbols[Top(c).scope]) /\ Entry(c).kind = "program"
  BY <1>0, <1>1, AtEntryHas
<1>3. KnownPrograms' \subseteq Programs
  BY <1>0, <1>2, EntryTyped DEF KnownOK
<1> QED BY <1>0, <1>3, KnownKept

(* The instance of a call that was interrupted. *)
LEMMA HeldEntry ==
  ASSUME CallersOK, GrownNow, NEW c \in Callers, NEW p \in {"found", "described"}, At(c, p)
  PROVE  /\ Top(c).op # "members" /\ Top(c).scope \in Scopes /\ Top(c).at \in 1..Len(Symbols[Top(c).scope])
         /\ p = "found" => Entry(c).kind = "program"
         /\ p = "described" => Entry(c).template = Awaited(Top(c)) /\ Entry(c).template # None
<1> DEFINE f == Top(c)
<1>1. f \in AnyFrame /\ f.pc = p /\ FrameNow(f)
  BY AtTop
<1>2. f \in ListFrames /\ f.op # "members"
  BY <1>1, FrameOf
<1>3. ListOK(f, DOMAIN KnownTags', Listing')
  BY <1>1, <1>2 DEF FrameNow, FrameOK
<1>4. f.scope \in Scopes /\ f.at \in Nat \ {0} /\ f.last \in Nat
  BY <1>2, ListTyped
<1>5. Len(Symbols[f.scope]) \in Nat
  BY <1>4, SymbolsTyped
<1>6. f.at <= f.last /\ f.last <= Len(Symbols[f.scope])
  BY <1>1, <1>3 DEF ListOK
<1>7. f.at \in 1..Len(Symbols[f.scope])
  BY ONLY <1>4, <1>5, <1>6
<1>8. p = "found" => Symbols[f.scope][f.at].kind = "program"
  BY <1>1, <1>3 DEF ListOK
<1>9. p = "described" => Awaited(f) = Symbols[f.scope][f.at].template /\ Awaited(f) # None
  BY <1>1, <1>2, <1>3 DEF ListOK, Awaited
<1> QED BY <1>2, <1>4, <1>7, <1>8, <1>9 DEF Entry

LEMMA FoundProgramListedKnown ==
  ASSUME KnownOK, TypesWhole, CallersOK, NEW c \in Callers, FoundProgramListed(c)
  PROVE  KnownOK' /\ TypesWhole'
<1>0. Counters /\ UNCHANGED <<KnownPrograms, KnownTypes, KnownTypesByID>> /\ At(c, "found")
  BY DEF FoundProgramListed, Counters
<1>1. CASE UNCHANGED KnownTags
  BY <1>0, <1>1, KnownKept DEF KnownOK
<1>2. CASE Known(<<"Program", Entry(c).name>>, None, None)
  <2>1. DOMAIN KnownTags \subseteq DOMAIN KnownTags'
    BY <1>2, KnownGrows
  <2>2. GrownNow
    BY <2>1, Steady DEF FoundProgramListed
  <2>3. /\ Top(c).scope \in Scopes /\ Top(c).at \in 1..Len(Symbols[Top(c).scope]) /\ Entry(c).kind = "program"
    BY <1>0, <2>2, HeldEntry
  <2>4. <<"Program", Entry(c).name>> \in Names \cup {<<"Program", p>> : p \in Programs}
    BY <2>3, EntryTyped
  <2> QED BY <1>0, <1>2, <2>4, TagKnown
<1> QED BY <1>1, <1>2 DEF FoundProgramListed

LEMMA DescribedKnown ==
  ASSUME KnownOK, TypesWhole, CallersOK, NEW c \in Callers, Described(c)
  PROVE  KnownOK' /\ TypesWhole'
<1> DEFINE r == ret[c]
           t == Entry(c).template
           n == Entry(c).name
<1>0. /\ Counters /\ UNCHANGED <<KnownPrograms, KnownTypesByID, supported, version, refused, faults>>
      /\ At(c, "described")
      /\ \E u : Known(n, t, u)
  BY DEF Described, Counters
<1>1. DOMAIN KnownTags \subseteq DOMAIN KnownTags'
  BY <1>0, KnownGrows
<1>2. GrownNow
  BY <1>0, <1>1, Steady
<1>3. /\ Top(c).scope \in Scopes /\ Top(c).at \in 1..Len(Symbols[Top(c).scope])
      /\ t = Awaited(Top(c)) /\ t # None
  BY <1>0, <1>2, HeldEntry
<1>4. n \in Names \cup {<<"Program", p>> : p \in Programs}
  BY <1>3, EntryTyped
<1>5. Top(c).pc = "described" /\ GivenNow(Top(c), r)
  BY <1>0, <1>2, AtTop
<1>6. /\ r = Error \/ (r = Desc(r.desc) /\ r.desc \in Descriptors /\ r.desc.id = t /\ t \in DOMAIN KnownTypesByID)
      /\ Untouched' => r = Desc(Whole(t, 0))
  BY <1>0, <1>3, <1>5 DEF GivenNow, Given
<1>7. CASE r = Error
  <2>1. Known(n, t, None) /\ UNCHANGED KnownTypes
    BY <1>7 DEF Described
  <2>2. ~Untouched'
    <3>1. Error # Desc(Whole(t, 0))
      BY ONLY TRUE DEF Error, Desc
    <3> QED BY <1>6, <1>7, <3>1
  <2> QED BY <1>0, <1>4, <2>1, <2>2, TagKnown
<1>8. CASE r # Error
  <2> DEFINE d == r.desc
  <2>1. Known(n, t, d) /\ KnownTypes' = Put(KnownTypes, d.id, d)
    BY <1>8 DEF Described
  <2>2. d \in Descriptors /\ d.id = t /\ t \in DOMAIN KnownTypesByID
    BY <1>6, <1>8
  <2>3. Untouched' => d = Whole(t, 0)
    BY <1>6, DescTyped
  <2>4. /\ DOMAIN KnownTypes' = DOMAIN KnownTypes \cup {t} /\ KnownTypes'[t] = d
        /\ \A x \in DOMAIN KnownTypes \ {t} : KnownTypes'[x] = KnownTypes[x]
    BY <2>1, <2>2 DEF Put
  <2> HIDE DEF d, n, t, r
  <2>5. /\ DOMAIN KnownTags' = DOMAIN KnownTags \cup {n}
        /\ KnownTags'[n] = [template |-> t, udt |-> d]
        /\ \A m \in DOMAIN KnownTags \ {n} : KnownTags'[m] = KnownTags[m]
    BY <2>1, KnownGrows
  <2>6. KnownOK'
    BY <1>0, <1>4, <2>2, <2>4, <2>5, CountersOK DEF KnownOK
  <2>7. ASSUME Untouched'
        PROVE  /\ \A x \in DOMAIN KnownTypesByID' : KnownTypesByID'[x] = Whole(x, 0)
               /\ \A x \in DOMAIN KnownTypes' : KnownTypes'[x] = Whole(x, 0)
               /\ \A m \in DOMAIN KnownTags' :
                    KnownTags'[m].template # None => KnownTags'[m].udt = Whole(KnownTags'[m].template, 0)
    <3>1. Untouched
      BY <1>0, <2>7, CountersOK
    <3>2. /\ \A x \in DOMAIN KnownTypesByID : KnownTypesByID[x] = Whole(x, 0)
          /\ \A x \in DOMAIN KnownTypes : KnownTypes[x] = Whole(x, 0)
          /\ \A m \in DOMAIN KnownTags :
               KnownTags[m].template # None => KnownTags[m].udt = Whole(KnownTags[m].template, 0)
      BY ONLY <3>1, TypesWhole DEF TypesWhole, Untouched
    <3>3. \A x \in DOMAIN KnownTypesByID' : KnownTypesByID'[x] = Whole(x, 0)
      BY ONLY <1>0, <3>2
    <3>4. ASSUME NEW x \in DOMAIN KnownTypes' PROVE KnownTypes'[x] = Whole(x, 0)
      BY ONLY <2>3, <2>4, <2>7, <3>2, <3>4
    <3>5. KnownTags'[n].template = t /\ KnownTags'[n].udt = Whole(t, 0)
      BY <2>3, <2>5, <2>7
    <3>6. ASSUME NEW m \in DOMAIN KnownTags'
          PROVE  KnownTags'[m].template # None => KnownTags'[m].udt = Whole(KnownTags'[m].template, 0)
      <4>1. CASE m = n
        BY ONLY <3>5, <4>1
      <4>2. CASE m # n
        <5>1. m \in DOMAIN KnownTags /\ KnownTags'[m] = KnownTags[m]
          BY ONLY <2>5, <3>6, <4>2
        <5> QED BY ONLY <3>2, <5>1
      <4> QED BY <4>1, <4>2
    <3> QED BY <3>3, <3>4, <3>6
  <2>8. TypesWhole'
    BY ONLY <2>7 DEF TypesWhole, Untouched
  <2> QED BY <2>6, <2>8
<1> QED BY <1>7, <1>8

LEMMA MembersDoneKnown ==
  ASSUME KnownOK, TypesWhole, CallersOK, NEW c \in Callers, MembersDone(c)
  PROVE  KnownOK' /\ TypesWhole'
<1> DEFINE t == Top(c).template
           d == Top(c).desc
<1>0. /\ Counters /\ UNCHANGED <<KnownPrograms, KnownTags, KnownTypes>>
      /\ KnownTypesByID' = Put(KnownTypesByID, t, d)
  BY DEF MembersDone, Counters
<1>1. d \in Descriptors /\ d.id = t /\ t \in Templates /\ (Untouched' => d = Whole(t, 0))
  BY MembersDoneOK
<1> HIDE DEF d, t
<1>2. /\ DOMAIN KnownTypesByID' = DOMAIN KnownTypesByID \cup {t} /\ KnownTypesByID'[t] = d
      /\ \A x \in DOMAIN KnownTypesByID \ {t} : KnownTypesByID'[x] = KnownTypesByID[x]
  BY <1>0 DEF Put
<1>3. KnownOK'
  <2>1. ASSUME NEW x \in DOMAIN KnownTypesByID'
        PROVE  KnownTypesByID'[x] \in Descriptors /\ KnownTypesByID'[x].id = x
    BY <1>1, <1>2, <2>1 DEF KnownOK
  <2>2. DOMAIN KnownTypesByID' \subseteq Templates /\ DOMAIN KnownTypes' \subseteq DOMAIN KnownTypesByID'
    BY <1>0, <1>1, <1>2 DEF KnownOK
  <2> QED BY <1>0, <2>1, <2>2, CountersOK DEF KnownOK
<1>4. TypesWhole'
  <2>1. ASSUME Untouched'
        PROVE  /\ \A x \in DOMAIN KnownTypesByID' : KnownTypesByID'[x] = Whole(x, 0)
               /\ \A x \in DOMAIN KnownTypes' : KnownTypes'[x] = Whole(x, 0)
               /\ \A m \in DOMAIN KnownTags' :
                    KnownTags'[m].template # None => KnownTags'[m].udt = Whole(KnownTags'[m].template, 0)
    <3>1. Untouched
      BY <1>0, <2>1, CountersOK
    <3>2. /\ \A x \in DOMAIN KnownTypesByID : KnownTypesByID[x] = Whole(x, 0)
          /\ \A x \in DOMAIN KnownTypes : KnownTypes[x] = Whole(x, 0)
          /\ \A m \in DOMAIN KnownTags :
               KnownTags[m].template # None => KnownTags[m].udt = Whole(KnownTags[m].template, 0)
      BY ONLY <3>1, TypesWhole DEF TypesWhole, Untouched
    <3>3. ASSUME NEW x \in DOMAIN KnownTypesByID' PROVE KnownTypesByID'[x] = Whole(x, 0)
      BY ONLY <1>1, <1>2, <2>1, <3>2, <3>3
    <3> QED BY ONLY <1>0, <3>2, <3>3
  <2> QED BY ONLY <2>1 DEF TypesWhole, Untouched
<1> QED BY <1>3, <1>4

-----------------------------------------------------------------------------
(* Every step.                                                              *)

LEMMA StepKeeps ==
  ASSUME IInv, NEW c \in Callers, Step(c)
  PROVE  IInv'
<1> USE DEF IInv
<1>1. CallersOK'
  <2>1. CASE ListAllPrograms(c) \/ ListAllProgramsFallsBack(c)
    BY <2>1, ListAllProgramsOK
  <2>2. CASE ListAllProgramsFails(c) \/ PageFails(c)
    BY <2>2, ListFailsOK
  <2>3. CASE ListPrograms(c)
    BY <2>3, ListProgramsOK
  <2>4. CASE Page(c) \/ PageRefused(c)
    BY <2>4, PageOK
  <2>5. CASE PageDone(c)
    BY <2>5, PageDoneOK
  <2>6. CASE Skip(c)
    BY <2>6, SkipOK
  <2>7. CASE FoundProgram(c)
    BY <2>7, FoundProgramOK
  <2>8. CASE FoundProgramListed(c)
    BY <2>8, FoundProgramListedOK
  <2>9. CASE Plain(c)
    BY <2>9, PlainOK
  <2>10. CASE Structured(c)
    BY <2>10, StructuredOK
  <2>11. CASE Described(c)
    BY <2>11, DescribedOK
  <2>12. CASE TemplateAttr(c)
    BY <2>12, TemplateAttrOK
  <2>13. CASE MembersFails(c)
    BY <2>13, MembersFailsOK
  <2>14. CASE Chunk(c) \/ LastChunk(c)
    BY <2>14, ChunkOK
  <2>15. CASE Parse(c)
    BY <2>15, ParseOK
  <2>16. CASE FieldMissing(c)
    BY <2>16, FieldMissingOK
  <2>17. CASE Field(c)
    BY <2>17, FieldOK
  <2>18. CASE FieldDescribed(c)
    BY <2>18, FieldDescribedOK
  <2>19. CASE MembersDone(c)
    BY <2>19, MembersDoneOK
  <2> QED BY ONLY Step(c), <2>1, <2>2, <2>3, <2>4, <2>5, <2>6, <2>7, <2>8, <2>9, <2>10, <2>11, <2>12, <2>13,
                  <2>14, <2>15, <2>16, <2>17, <2>18, <2>19 DEF Step
<1>2. KnownOK' /\ TypesWhole'
  <2>1. CASE ListAllPrograms(c) \/ ListAllProgramsFallsBack(c)
    <3>1. Counters /\ UNCHANGED <<KnownTags, KnownTypes, KnownTypesByID>> /\ KnownPrograms' \subseteq Programs
      BY <2>1 DEF ListAllPrograms, ListAllProgramsFallsBack, Counters
    <3> QED BY <3>1, KnownKept
  <2>2. CASE UNCHANGED known /\ Counters
    BY <2>2, KnownKept DEF known, KnownOK
  <2>3. CASE FoundProgram(c)
    BY <2>3, FoundProgramKnown
  <2>4. CASE FoundProgramListed(c)
    BY <2>4, FoundProgramListedKnown
  <2>5. CASE Plain(c)
    BY <2>5, PlainKnown
  <2>6. CASE Described(c)
    BY <2>6, DescribedKnown
  <2>7. CASE MembersDone(c)
    BY <2>7, MembersDoneKnown
  <2>8. ASSUME \/ ListAllProgramsFails(c) \/ ListPrograms(c) \/ Page(c) \/ PageRefused(c) \/ PageFails(c)
               \/ PageDone(c) \/ Skip(c) \/ Structured(c)
        PROVE  UNCHANGED known /\ Counters
    BY <2>8 DEF ListAllProgramsFails, ListPrograms, Page, PageRefused, PageFails, PageDone, Skip, Structured, Counters
  <2>9. ASSUME \/ TemplateAttr(c) \/ MembersFails(c) \/ Chunk(c) \/ LastChunk(c) \/ Parse(c) \/ FieldMissing(c)
               \/ Field(c) \/ FieldDescribed(c)
        PROVE  UNCHANGED known /\ Counters
    BY <2>9 DEF TemplateAttr, MembersFails, Chunk, LastChunk, Parse, FieldMissing, Field, FieldDescribed, Counters
  <2> QED BY ONLY Step(c), <2>1, <2>2, <2>3, <2>4, <2>5, <2>6, <2>7, <2>8, <2>9 DEF Step
<1> QED BY <1>1, <1>2

LEMMA NextKeeps == IInv /\ [Next]_vars => IInv'
<1> SUFFICES ASSUME IInv, [Next]_vars PROVE IInv'
  OBVIOUS
<1>0. KnownOK /\ TypesWhole /\ CallersOK
  BY DEF IInv
<1>1. CASE Download
  <2>1. CallersOK'
    BY <1>0, <1>1, DownloadOK
  <2>2. UNCHANGED known /\ Counters
    BY <1>1 DEF Download, Counters
  <2>3. KnownOK' /\ TypesWhole'
    BY <1>0, <2>2, KnownKept DEF known, KnownOK
  <2> QED BY <2>1, <2>3 DEF IInv
<1>2. ASSUME NEW c \in Callers, ListAllTags(c) PROVE IInv'
  <2>1. CallersOK'
    BY <1>0, <1>2, ListAllTagsOK
  <2>2. UNCHANGED known /\ Counters
    BY <1>2 DEF ListAllTags, Counters
  <2>3. KnownOK' /\ TypesWhole'
    BY <1>0, <2>2, KnownKept DEF known, KnownOK
  <2> QED BY <2>1, <2>3 DEF IInv
<1>3. ASSUME NEW c \in Callers, Step(c) PROVE IInv'
  BY <1>3, StepKeeps
<1>4. CASE UNCHANGED vars
  <2>1. UNCHANGED <<known, stack, ret, supported, version, faults, refused>>
    BY <1>4 DEF vars
  <2>2. Counters /\ GrownNow
    BY <2>1 DEF Counters, GrownNow, Grown, Listing, Untouched, known
  <2>3. KnownOK' /\ TypesWhole'
    BY <1>0, <2>1, <2>2, KnownKept DEF known, KnownOK
  <2>4. CallersOK'
    BY <1>0, <2>1, <2>2, OthersOK
  <2> QED BY <2>3, <2>4 DEF IInv
<1> QED BY <1>1, <1>2, <1>3, <1>4 DEF Next

LEMMA InitOK == Init => IInv
<1> SUFFICES ASSUME Init PROVE IInv
  OBVIOUS
<1>1. KnownOK
  <2>1. MaxDownloads \in Nat /\ MaxFaults \in Nat
    BY DiscoveryAssumption
  <2>2. /\ KnownPrograms = {} /\ DOMAIN KnownTags = {} /\ DOMAIN KnownTypes = {} /\ DOMAIN KnownTypesByID = {}
        /\ supported \in BOOLEAN /\ version = 0 /\ faults = 0 /\ refused = FALSE
    BY DEF Init
  <2>3. 0 \in 0..MaxDownloads /\ 0 \in 0..MaxFaults
    BY ONLY <2>1
  <2> QED BY ONLY <2>2, <2>3 DEF KnownOK
<1>2. TypesWhole
  BY DEF Init, TypesWhole
<1>3. /\ stack = [c \in Callers |-> <<>>] /\ ret = [c \in Callers |-> Nothing]
  BY DEF Init
<1>4. Nothing \in Returns /\ Nothing # Ok
  BY ReturnsTyped
<1>5. <<>> \in Seq(AnyFrame) /\ Len(<<>>) = 0
  OBVIOUS
<1>6. ASSUME NEW T, NEW K, NEW l, NEW w PROVE CallerOK(<<>>, Nothing, T, K, l, w)
  BY <1>4, <1>5 DEF CallerOK, Returned, Deep
<1>7. CallersOK
  BY <1>3, <1>4, <1>5, <1>6 DEF CallersOK
<1> QED BY <1>1, <1>2, <1>7 DEF IInv

LEMMA Invariant == Spec => []IInv
<1> QED BY InitOK, NextKeeps, PTL DEF Spec

(* Calls of ListMembers nest no deeper than templates do. *)
LEMMA DepthBounded ==
  ASSUME NEW s, NEW r, NEW T, NEW K, NEW l, NEW w, CallerOK(s, r, T, K, l, w)
  PROVE  /\ Len(s) <= 2 + Cardinality(Templates)
         /\ \A i \in 1..Len(s) :
              s[i].op = "members" => i < Len(s) /\ s[i + 1].pc \in {"described", "nested"}
<1> DEFINE L == Len(s)
<1>0. s \in Seq(AnyFrame) /\ L \in Nat /\ Deep(s)
  BY DEF CallerOK
<1>1. \A i \in 1..(L - 1) : Called(s[i], s[i + 1], T, l)
  BY DEF CallerOK
<1>2. IsFiniteSet(Templates) /\ Cardinality(Templates) \in Nat
  BY DiscoveryAssumption, FS_CardinalityType
<1>3. ASSUME NEW i \in 1..L, s[i].op = "members" PROVE i < L /\ s[i + 1].pc \in {"described", "nested"}
  <2>1. i # L
    BY <1>3 DEF CallerOK
  <2>2. i \in 1..(L - 1) /\ i < L
    BY ONLY <1>0, <1>3, <2>1
  <2>3. Called(s[i], s[i + 1], T, l)
    BY ONLY <1>1, <2>2
  <2> QED BY ONLY <1>3, <2>2, <2>3 DEF Called
<1>4. ASSUME NEW i \in 1..(L - 2) PROVE s[i].op = "members" /\ s[i].template \in Templates
  <2>1. i \in 1..(L - 1) /\ i + 1 \in 1..(L - 1)
    BY ONLY <1>0, <1>4
  <2>2. Called(s[i], s[i + 1], T, l) /\ Called(s[i + 1], s[(i + 1) + 1], T, l)
    BY ONLY <1>1, <2>1
  <2>3. s[i].op = "members"
    BY ONLY <2>2 DEF Called
  <2>4. s[i] \in AnyFrame
    BY ONLY <1>0, <2>1
  <2> QED BY <2>3, <2>4, FramesHave DEF MembersFrames
<1>5. L <= 2 + Cardinality(Templates)
  <2>1. CASE L <= 2
    BY ONLY <1>0, <1>2, <2>1
  <2>2. CASE L > 2
    <3> DEFINE I == 1..(L - 2)
               F == [i \in I |-> s[i].template]
    <3>1. IsFiniteSet(I) /\ Cardinality(I) = L - 2
      <4>1. L - 2 \in Int /\ 1 \in Int /\ L - 2 > 0
        BY ONLY <1>0, <2>2
      <4>2. IsFiniteSet(I) /\ Cardinality(I) = IF 1 > L - 2 THEN 0 ELSE (L - 2) - 1 + 1
        BY ONLY <4>1, FS_Interval
      <4> QED BY ONLY <4>1, <4>2
    <3>2. ASSUME NEW i \in I, NEW j \in I, i < j PROVE s[i].template # s[j].template
      <4>1. j \in 1..L /\ i \in 1..(j - 1)
        BY ONLY <1>0, <3>2
      <4>2. s[i].template \in Nested(s[j].template)
        BY ONLY <1>0, <1>4, <4>1, i \in I, j \in I DEF Deep
      <4>3. s[j].template \notin Nested(s[j].template)
        BY <1>4, NestingAssumption
      <4> QED BY ONLY <4>2, <4>3
    <3>3. ASSUME NEW i \in I, NEW j \in I, i # j PROVE s[i].template # s[j].template
      <4>1. i < j \/ j < i
        BY ONLY <1>0, <3>3
      <4> QED BY ONLY <3>2, <3>3, <4>1
    <3>4. F \in Injection(I, Templates)
      <4>1. F \in [I -> Templates]
        BY <1>4
      <4>2. \A i, j \in I : F[i] = F[j] => i = j
        BY ONLY <3>3
      <4> QED BY <4>1, <4>2 DEF Injection, IsInjective
    <3>5. Cardinality(I) <= Cardinality(Templates)
      BY ONLY <1>2, <3>4, FS_Injection
    <3> QED BY ONLY <1>0, <1>2, <3>1, <3>5
  <2> QED BY ONLY <1>0, <2>1, <2>2
<1> QED BY <1>3, <1>5

(* The state is well formed, and calls of ListMembers nest no deeper than   *)
(* templates do and read no more of one than there is (ListMembers).        *)
THEOREM DiscoveryTypes == Spec => []TypeOK
<1>1. IInv => TypeOK
  <2> SUFFICES ASSUME IInv PROVE TypeOK
    OBVIOUS
  <2>1. /\ KnownPrograms \subseteq Programs
        /\ DOMAIN KnownTypesByID \subseteq Templates
        /\ \A t \in DOMAIN KnownTypesByID : KnownTypesByID[t] \in Descriptors
        /\ DOMAIN KnownTypes \subseteq DOMAIN KnownTypesByID
        /\ DOMAIN KnownTags \subseteq Names \cup {<<"Program", p>> : p \in Programs}
        /\ supported \in BOOLEAN /\ version \in 0..MaxDownloads /\ faults \in 0..MaxFaults /\ refused \in BOOLEAN
    BY DEF IInv, KnownOK
  <2>2. /\ ret \in [Callers -> [status : {"none", "ok", "error"}, desc : Descriptors \cup {None}]]
        /\ stack \in [Callers -> Seq(ListFrames \cup MembersFrames)]
    BY DEF IInv, CallersOK, Returns, AnyFrame
  <2>3. ASSUME NEW c \in Callers
        PROVE  /\ Len(stack[c]) <= 2 + Cardinality(Templates)
               /\ \A i \in DOMAIN stack[c] :
                    stack[c][i].op = "members" =>
                      /\ stack[c][i].got <= Units(stack[c][i].template)
                      /\ stack[c][i].next <= Len(Members[stack[c][i].template]) + 1
                      /\ i < Len(stack[c]) /\ stack[c][i + 1].pc \in {"described", "nested"}
    <3> DEFINE s == stack[c]
    <3>1. CallerOK(s, ret[c], DOMAIN KnownTags, DOMAIN KnownTypesByID, Listing, Untouched)
      BY DEF IInv, CallersOK
    <3> HIDE DEF s
    <3>2. /\ Len(s) <= 2 + Cardinality(Templates)
          /\ \A i \in 1..Len(s) :
               s[i].op = "members" => i < Len(s) /\ s[i + 1].pc \in {"described", "nested"}
      BY ONLY <3>1, DepthBounded
    <3>3. s \in Seq(AnyFrame) /\ \A i \in 1..Len(s) : FrameOK(s[i], DOMAIN KnownTags, Listing, Untouched)
      BY ONLY <3>1 DEF CallerOK
    <3>4. DOMAIN s = 1..Len(s)
      BY ONLY <3>3
    <3>5. ASSUME NEW i \in 1..Len(s), s[i].op = "members"
          PROVE  s[i].got <= Units(s[i].template) /\ s[i].next <= Len(Members[s[i].template]) + 1
      BY ONLY <3>3, <3>5 DEF FrameOK, MembersOK
    <3>6. /\ Len(s) <= 2 + Cardinality(Templates)
          /\ \A i \in DOMAIN s :
               s[i].op = "members" =>
                 /\ s[i].got <= Units(s[i].template)
                 /\ s[i].next <= Len(Members[s[i].template]) + 1
                 /\ i < Len(s) /\ s[i + 1].pc \in {"described", "nested"}
      BY ONLY <3>2, <3>4, <3>5
    <3> QED BY ONLY <3>6 DEF s
  <2> QED BY ONLY <2>1, <2>2, <2>3 DEF TypeOK
<1> QED BY <1>1, Invariant, PTL

(* Whatever is skipped, however the pages overlap and whoever lists at the  *)
(* same time: a ListAllTags that returns nil has found every tag of every   *)
(* scope, if programs can be listed and no page was refused (ListAllTags).  *)
THEOREM ListingComplete == Spec => []Complete
<1>1. IInv => Complete
  <2> SUFFICES ASSUME IInv, NEW c \in Callers, Listed(c), supported, ~refused,
                      NEW s \in Scopes, NEW i \in Visible(s)
               PROVE  Symbols[s][i].name \in DOMAIN KnownTags
    BY DEF Complete
  <2>1. CallerOK(stack[c], ret[c], DOMAIN KnownTags, DOMAIN KnownTypesByID, Listing, Untouched)
    BY DEF IInv, CallersOK
  <2>2. Returned(ret[c], DOMAIN KnownTags, Listing)
    BY <2>1 DEF CallerOK, Listed
  <2>3. HasAll(DOMAIN KnownTags, s)
    BY <2>2 DEF Returned, Listed, Listing
  <2>4. i <= Len(Symbols[s])
    BY SymbolsTyped
  <2> QED BY <2>3, <2>4 DEF HasAll, Has
<1> QED BY <1>1, Invariant, PTL

(* However the definitions of templates are cut into chunks, whichever was  *)
(* known already and whoever lists at the same time: while no exchange      *)
(* failed and the controller stayed the same, descriptions are whole, and   *)
(* a tag has that of its own template (ListMembers).                        *)
THEOREM DescriptionsWhole == Spec => []TypesWhole
<1>1. IInv => TypesWhole
  BY DEF IInv
<1> QED BY <1>1, Invariant, PTL

=============================================================================
