----------------------------- MODULE MCEncoding -----------------------------
(* Encoding, instantiated for TLC: every struct of up to three fields of    *)
(* the kinds below, exchanges at the edges of the numbers a path can hold,  *)
(* and paths, routes and identities likewise.                               *)
EXTENDS Encoding

(* Fields: of every size and alignment, bools that fill a byte and begin    *)
(* the next, a timer, a PID, a nested struct, tags nopack and byteIndex.    *)
Timer == Predefined({29, 30, 31}, 8, FALSE)
PID == Predefined({0, 4, 30}, 12, TRUE)
Inner == Struct(<<Field(Bool), Field(Scalar(2)), Field(Bool)>>)

MCFields ==
  {Field(Bool), Field(Scalar(1)), Field(Scalar(2)), Field(Scalar(4)), Field(Scalar(8)),
   Field(Str), Field(Array(Bool, 9)), Field(Array(Scalar(2), 3)), Field(Inner),
   Field(Array(Inner, 2)), Field(Timer), Field(PID), NoPack(Bool), At(Scalar(2), 8)}

MCShapes == UNION {[1..n -> MCFields] : n \in 1..3}

Name(n) == [k \in 1..n |-> 97]      \* a name of n characters
Other(n) == [k \in 1..n |-> 98]
Tag(parts) == [parts |-> parts, bit |-> NoBit]
BitOf(parts, bit) == [parts |-> parts, bit |-> bit]

MCWritePaths ==
  {Tag(<<Part(Name(n), <<>>)>>) : n \in {1, 2, 145}}
    \cup {Tag(<<Part(Name(2), idx)>>) : idx \in {<<1>>, <<255>>, <<256>>, <<65535>>, <<40, 41>>}}
    \cup {Tag(<<Part(Name(1), <<3>>), Part(Other(3), <<>>)>>)}

W(path, go, vals) == [path |-> path, go |-> go, vals |-> vals]
R(path, go, count) == [path |-> path, go |-> go, count |-> count]

MCVals(go) == CASE go = "int16" -> {<<40>>, <<1, 65535>>}
                [] go = "uint32" -> {<<256>>, <<10496, 41, 145>>}
                [] go = "byte" -> {<<145, 40>>}

(* Two tags written, and read in either order, all or one of the values; of *)
(* the arrays the server has one or both.                                   *)
MCPairs ==
  {[has |-> SubSeq(<<W(t[1], "int16", <<7, 8>>), W(t[2], "uint32", <<7, 8>>)>>, n, 2),
    writes |-> <<W(t[1], "int16", v), W(t[2], "uint32", u)>>,
    reads |-> IF swap THEN <<R(t[2], "uint32", Len(u)), R(t[1], "int16", 1)>>
                      ELSE <<R(t[1], "int16", Len(v)), R(t[2], "uint32", 1)>>] :
     t \in {both \in MCWritePaths \X MCWritePaths : both[1] # both[2]},
     v \in MCVals("int16"), u \in MCVals("uint32"), swap \in BOOLEAN, n \in {1, 2}}

(* An array, a value in its place, and an array again, which has no type.   *)
MCRetyped ==
  LET t == Tag(<<Part(Name(2), <<>>)>>) IN
  {[has |-> <<W(t, "int16", <<7, 8>>)>>, reads |-> <<R(t, "int16", 1)>>,
    writes |-> SubSeq(<<W(t, "int16", <<1, 2>>), W(t, "int16", <<3>>), W(t, "int16", <<4, 5>>)>>, 1, n)] :
     n \in 0..3}

(* A number written, and a bit of it read; a bool array's element, which    *)
(* may be a member.                                                         *)
MCBits ==
  {[has |-> <<>>, writes |-> <<W(Tag(<<Part(Name(2), <<>>)>>), go, <<40961>>)>>,
    reads |-> <<R(BitOf(<<Part(Name(2), <<>>)>>, bit), "bool", 1)>>] :
     go \in {"uint16", "uint32"}, bit \in {0, 1, 13, 15, 30}}
  \cup
  {[has |-> <<>>, writes |-> <<W(Tag(of \o <<Part(Name(2), <<e>>)>>), "uint32", <<40961>>)>>,
    reads |-> <<R(Tag(of \o <<Part(Name(2), <<32 * e + bit>>)>>), "bool", 1)>>] :
     of \in {<<>>, <<Part(Other(1), <<>>)>>}, e \in {0, 1, 2047}, bit \in {0, 1, 13, 30}}
  \cup
  {[has |-> <<>>, writes |-> <<W(Tag(<<Part(Name(2), <<>>)>>), "bool", <<b>>)>>,
    reads |-> <<R(Tag(<<Part(Name(2), <<>>)>>), "bool", 1)>>] : b \in 0..1}

(* One of the tags was not written, or has fewer values than are read. *)
MCMissing ==
  {[has |-> <<W(t[1], "int16", <<40, 41>>)>>, writes |-> <<>>,
    reads |-> <<R(t[1], "int16", n), R(t[2], "int16", 1)>>] :
     t \in {<<Tag(<<Part(Name(1), <<>>)>>), Tag(<<Part(Name(1), <<40>>)>>)>>,
            <<Tag(<<Part(Name(2), <<1>>)>>), Tag(<<Part(Name(2), <<1>>)>>)>>},
     n \in {1, 2, 3}}

(* A string is written; a tag of the server's own is read. *)
MCOthers ==
  LET one == Tag(<<Part(Name(2), <<>>)>>)
      two == Tag(<<Part(Name(2), <<>>), Part(Other(1), <<256>>)>>)
  IN  {[has |-> <<W(two, "int8", <<200>>)>>, writes |-> <<W(one, "string", <<Name(n)>>)>>,
        reads |-> <<R(one, "string", 1), R(two, "int8", 1)>>] : n \in {0, 5, 82}}

MCExchanges == MCPairs \cup MCRetyped \cup MCBits \cup MCMissing \cup MCOthers

(* Forty elements, an index past 65535, a string, two of it, a bit of a     *)
(* SINT; a bool below an element, a bit of an element, an array that is new *)
(* to the server, two values of one.                                        *)
MixedExchanges ==
  LET one == Tag(<<Part(Name(2), <<>>)>>)
      exchange(w, r) == [has |-> <<>>, writes |-> <<w>>, reads |-> <<r>>]
  IN  {[has |-> <<W(one, "byte", [k \in 1..40 |-> k])>>, writes |-> <<>>, reads |-> <<R(one, "byte", 40)>>],
       exchange(W(Tag(<<Part(Name(2), <<65536>>)>>), "int16", <<1>>),
                R(Tag(<<Part(Name(2), <<65536>>)>>), "int16", 1)),
       [has |-> <<W(one, "string", <<Name(5)>>)>>, writes |-> <<>>, reads |-> <<R(one, "string", 1)>>],
       [has |-> <<W(one, "string", <<Name(5)>>)>>, writes |-> <<>>, reads |-> <<R(one, "string", 2)>>],
       exchange(W(one, "int8", <<1>>), R(BitOf(one.parts, 0), "bool", 1)),
       exchange(W(Tag(<<Part(Name(1), <<40>>), Part(Name(2), <<>>)>>), "uint16", <<1>>),
                R(Tag(<<Part(Name(1), <<40>>), Part(Name(2), <<>>)>>), "bool", 1)),
       exchange(W(Tag(<<Part(Name(2), <<3>>)>>), "uint32", <<32>>),
                R(BitOf(<<Part(Name(2), <<3>>)>>, 5), "bool", 1)),
       exchange(W(one, "int16", <<1, 2>>), R(one, "int16", 2)),
       exchange(W(one, "int16", <<1>>), R(one, "int16", 2))}

Numbers == {0, 255, 256, 65535}

(* Names that end in a dot and a character, and in brackets around one. *)
Dotted(c) == <<97, Dot, c>>
Bracketed(c) == <<97, 91, c, 93>>

Num(n) == [kind |-> "number", n |-> n]
Addr(n) == [kind |-> "address", chars |-> Name(n)]

MCCalls ==
  {[do |-> d, n |-> n] : d \in {"class", "instance", "attribute", "element"}, n \in Numbers}
    \cup {[do |-> "instance", n |-> 65536]}
    \cup {[do |-> "symbolic", name |-> name] : name \in {Name(1), Name(2), Dotted(98), Bracketed(44)}}
    \cup {[do |-> "parse", route |-> <<Num(256)>>]}

MCBuilds == UNION {[1..n -> MCCalls] : n \in 1..2}

MixedBuilds ==
  {<<[do |-> "element", n |-> n]>> : n \in {65535, 65536}}
    \cup {<<[do |-> "symbolic", name |-> name]>> : name \in {Dotted(53), Bracketed(51)}}

MCHops == {<<Num(p), l>> : p \in {1, 15}, l \in {Num(0), Num(255), Addr(3), Addr(20)}}
MCRoutes == MCHops \cup {g \o h : g \in MCHops, h \in MCHops} \cup {<<Num(1), Num(256)>>}

MixedRoutes == {<<Num(p), l>> : p \in {15, 16}, l \in {Num(0), Addr(3)}} \cup {<<Addr(3)>>}

MCIdentities ==
  {[port |-> p, addr |-> a, vendor |-> 1, device |-> 14, product |-> 300, revision |-> 8222,
    status |-> s, serial |-> 16777218, name |-> Name(n), typed |-> t] :
     p \in {44818, 1}, a \in {<<10, 0, 0, 1>>, NotIPv4}, s \in {0, 65535}, n \in {0, 1, 255, 256},
     t \in {Attributes, Attributes \ {4}}}

=============================================================================
