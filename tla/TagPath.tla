------------------------------- MODULE TagPath ------------------------------
(***************************************************************************)
(* Paths on the wire: what the client makes of a tag's path, of a route and *)
(* of the segments of a PathBuilder, what the server reads of a tag's path, *)
(* and what a device reads of the others.                                   *)
(*                                                                         *)
(* A byte is a number.  A name is the sequence of its characters; a tag's   *)
(* path is a sequence of parts, each a name and the indexes behind it, and  *)
(* a bit number at its end or NoBit.                                        *)
(***************************************************************************)
EXTENDS Integers, Sequences, SequencesExt

NoBit == -1
Part(name, idx) == [name |-> name, idx |-> idx]

(* Numbers of up to four bytes, lowest byte first. *)
PlaceValue == <<1, 256, 65536, 16777216>>
LE(n, k) == [i \in 1..k |-> (n \div PlaceValue[i]) % 256]
FromLE(b) ==
  LET byte(i) == IF i <= Len(b) THEN b[i] * PlaceValue[i] ELSE 0
  IN  byte(1) + byte(2) + byte(3) + byte(4)

-----------------------------------------------------------------------------
(* Logical segments: a code that says how wide the number is.               *)

Narrow == 256
Wide == 65536

Logical(code8, code16, code32, n) ==
  IF n < Narrow THEN <<code8, n>>
  ELSE IF n < Wide THEN <<code16, 0>> \o LE(n, 2)
  ELSE <<code32, 0>> \o LE(n, 4)

(* Mutant: a number of 256 is taken for one of a byte. *)
ClassUpTo256(n) == IF n <= Narrow THEN <<32, n % 256>> ELSE <<33, 0>> \o LE(n, 2)

CIPClass(n) == Logical(32, 33, 33, n)
CIPInstance(n) == Logical(36, 37, 38, n)
CIPAttribute(n) == Logical(48, 49, 49, n)

(* The code of 16 bits is used for 32 as well. *)
CIPElement(n) == Logical(40, 41, 41, n)

(* The Read methods: the number, and the bytes behind it. *)
Failed == [ok |-> FALSE, n |-> 0, rest |-> <<>>]

ReadNumber(b, skip, k) ==
  IF Len(b) < skip + k THEN Failed
  ELSE [ok |-> TRUE, n |-> FromLE(SubSeq(b, skip + 1, skip + k)),
        rest |-> SubSeq(b, skip + k + 1, Len(b))]

ReadLogical(code8, code16, code32, b) ==
  CASE b = <<>> -> Failed
    [] b # <<>> /\ b[1] = code8 -> ReadNumber(b, 1, 1)
    [] b # <<>> /\ b[1] = code16 /\ code16 # code8 -> ReadNumber(b, 2, 2)
    [] b # <<>> /\ b[1] = code32 /\ code32 # code16 -> ReadNumber(b, 2, 4)
    [] OTHER -> Failed

CIPClassRead(b) == ReadLogical(32, 33, 33, b)
CIPInstanceRead(b) == ReadLogical(36, 37, 38, b)
CIPAttributeRead(b) == ReadLogical(48, 49, 49, b)

(* What a device makes of an element segment. *)
ElementRead(b) == ReadLogical(40, 41, 42, b)

-----------------------------------------------------------------------------
(* The path of a tag.                                                       *)

Symbolic == 145      \* segmentTypeExtendedSymbolic

Dot == 46
Comma == 44
Digit == 48..57
Blank == {9, 10, 12, 13, 32}

(* The places of a last dot with digits behind it, and of a last bracket    *)
(* with digits, commas and blanks in it: one or none.                       *)
bit_access_regex(name) ==
  {i \in 1..(Len(name) - 1) : name[i] = Dot /\ \A j \in (i + 1)..Len(name) : name[j] \in Digit}
array_access_regex(name) ==
  {i \in 1..(Len(name) - 1) :
     /\ name[i] = 91 /\ name[Len(name)] = 93
     /\ \A j \in (i + 1)..(Len(name) - 1) : name[j] \in Digit \cup {Comma} \cup Blank}

(* s without the places where t is, looked for from the left. *)
Without(s, t) ==
  LET from[i \in 1..(Len(s) + 1)] ==
        IF i > Len(s) THEN <<>>
        ELSE IF SubSeq(s, i, i + Len(t) - 1) = t THEN from[i + Len(t)]
        ELSE <<s[i]>> \o from[i + 1]
  IN  IF t = <<>> THEN s ELSE from[1]

(* Digits that are a number of an int, 9223372036854775807 the largest. *)
MaxInt == <<57, 50, 50, 51, 51, 55, 50, 48, 51, 54, 56, 53, 52, 55, 55, 53, 56, 48, 55>>
Atoi(t) ==
  LET zeros == {i \in 0..Len(t) : \A j \in 1..i : t[j] = 48}
      first == CHOOSE i \in zeros : \A j \in zeros : j <= i
      n == SubSeq(t, first + 1, Len(t))
  IN  /\ t # <<>> /\ \A i \in DOMAIN t : t[i] \in Digit
      /\ \/ Len(n) < Len(MaxInt)
         \/ Len(n) = Len(MaxInt) /\ \A i \in DOMAIN n :
              n[i] <= MaxInt[i] \/ \E j \in 1..(i - 1) : n[j] < MaxInt[j]

(* Is what is between commas a number each time? *)
AtoiEach(t) ==
  LET ends == {0, Len(t) + 1} \cup {i \in DOMAIN t : t[i] = Comma} IN
  \A i, j \in ends : (i < j /\ \A k \in (i + 1)..(j - 1) : k \notin ends) =>
    Atoi(SubSeq(t, i + 1, j - 1))

(* The name without the digits of a bit, or without what is in brackets: the*)
(* dot stays and so do the brackets.  Or an error, if it is no number.      *)
parse_tag_name(name) ==
  LET bit == bit_access_regex(name)
      array == array_access_regex(name)
      digits == SubSeq(name, (CHOOSE i \in bit : TRUE) + 1, Len(name))
      indexes == SubSeq(name, (CHOOSE i \in array : TRUE) + 1, Len(name) - 1)
  IN  IF bit # {} THEN [ok |-> Atoi(digits), base |-> Without(name, digits)]
      ELSE IF array # {} THEN [ok |-> AtoiEach(indexes), base |-> Without(name, indexes)]
      ELSE [ok |-> TRUE, base |-> name]

marshalIOIPart(name) ==
  LET base == parse_tag_name(name).base IN
  <<Symbolic, Len(base) % 256>> \o base \o (IF Len(base) % 2 = 1 THEN <<0>> ELSE <<>>)

(* The index of an element. *)
IndexPart(i) == Logical(40, 41, 42, i)

Digits(n) == <<48 + n \div 10, 48 + (n % 10)>>     \* of a number of two digits

(* Of a BOOL array the index counts bits of 32-bit elements. *)
appendIOIPart(ioi, part, datatype) ==
  LET n == Len(part.idx)
      bits == datatype = "bool" /\ n > 0
      idx == IF bits THEN [part.idx EXCEPT ![n] = @ \div 32] ELSE part.idx
  IN  [buffer |-> ioi.buffer \o marshalIOIPart(part.name)
                  \o FlattenSeq([k \in DOMAIN idx |-> IndexPart(idx[k])]),
       bit |-> IF bits THEN part.idx[n] % 32 ELSE ioi.bit]

(* A last part that is a number up to 31 asks for a bit; a larger one is    *)
(* taken for a name.                                                        *)
newSymbolicIOI(path, datatype) ==
  LET ioi == FoldLeft(LAMBDA a, p : appendIOIPart(a, p, datatype),
                      [buffer |-> <<>>, bit |-> NoBit], path.parts)
  IN  CASE path.bit = NoBit -> ioi
        [] path.bit \in 0..31 -> [ioi EXCEPT !.bit = path.bit]
        [] OTHER -> [ioi EXCEPT !.buffer = @ \o marshalIOIPart(Digits(path.bit))]

(* getTagFromPath reads parts and indexes for as long as the next byte is a *)
(* segment it knows, whatever the length of the path was said to be.  An    *)
(* index that no name precedes, which no client sends, is out of its reach. *)
DecodedIndex(tag, r) ==
  [tag EXCEPT ![Len(tag)].idx = Append(@, r.n)]

getIndex(b) == IF b[1] = 40 THEN ReadNumber(b, 1, 1) ELSE ReadNumber(b, 2, 2)

getAsciiTagPart(b) ==
  LET n == IF Len(b) > 1 THEN b[2] ELSE 0
      used == 2 + n + (n % 2)
  IN  IF Len(b) < 2 \/ Len(b) < used THEN [ok |-> FALSE, name |-> <<>>, rest |-> <<>>]
      ELSE [ok |-> TRUE, name |-> SubSeq(b, 3, 2 + n), rest |-> SubSeq(b, used + 1, Len(b))]

(* One part or index more, if the next byte is a segment of either. *)
getTagFromPathAt(st) ==
  LET b == st.rest
      index == getIndex(b)
      part == getAsciiTagPart(b)
  IN  CASE ~st.ok \/ b = <<>> -> st
        [] st.ok /\ b # <<>> /\ b[1] \in {40, 41} ->
             IF ~index.ok \/ st.tag = <<>> THEN [st EXCEPT !.ok = FALSE]
             ELSE [st EXCEPT !.tag = DecodedIndex(@, index), !.rest = index.rest]
        [] st.ok /\ b # <<>> /\ b[1] = Symbolic ->
             IF ~part.ok THEN [st EXCEPT !.ok = FALSE]
             ELSE [st EXCEPT !.tag = Append(@, Part(part.name, <<>>)), !.rest = part.rest]
        [] OTHER -> st

(* A part or an index has two bytes or more. *)
getTagFromPath(b) ==
  LET n == (Len(b) + 1) \div 2
      st[k \in 0..n] == IF k = 0 THEN [ok |-> TRUE, tag |-> <<>>, rest |-> b]
                        ELSE getTagFromPathAt(st[k - 1])
  IN  st[n]

-----------------------------------------------------------------------------
(* A route: numbers, and addresses, which are sequences of characters.      *)

IsAddress(part) == part.kind = "address"

(* An address extends the byte before it: its bit 4 is set.  There must be  *)
(* one, else the call panics.                                               *)
AddRoutePart(st, part) ==
  CASE st.end # "ok" -> st
    [] st.end = "ok" /\ IsAddress(part) /\ st.bytes = <<>> -> [st EXCEPT !.end = "panic"]
    [] st.end = "ok" /\ IsAddress(part) /\ st.bytes # <<>> ->
         LET last == Last(st.bytes)
             port == IF (last \div 16) % 2 = 1 THEN last ELSE last + 16
         IN  [st EXCEPT !.bytes = Front(@) \o <<port, Len(part.chars) % 256>> \o part.chars]
    [] st.end = "ok" /\ ~IsAddress(part) ->
         IF 0 <= part.n /\ part.n < 256 THEN [st EXCEPT !.bytes = Append(@, part.n)]
         ELSE [st EXCEPT !.end = "error"]

ParsePath(route) ==
  LET st[k \in 0..Len(route)] == IF k = 0 THEN [end |-> "ok", bytes |-> <<>>]
                                 ELSE AddRoutePart(st[k - 1], route[k])
  IN  st[Len(route)]

(* What a device makes of it: hops of a port and a link, which is a byte,   *)
(* or of a port whose bit 4 is set, an address.                             *)
NextHop(st) ==
  LET b == st.rest IN
  IF Len(b) < 2 THEN st
  ELSE IF (b[1] \div 16) % 2 = 1
       THEN [read |-> st.read \o <<[kind |-> "number", n |-> b[1] - 16],
                                   [kind |-> "address", chars |-> SubSeq(b, 3, 2 + b[2])]>>,
             rest |-> SubSeq(b, 3 + b[2], Len(b))]
       ELSE [read |-> st.read \o <<[kind |-> "number", n |-> b[1]], [kind |-> "number", n |-> b[2]]>>,
             rest |-> SubSeq(b, 3, Len(b))]

RouteRead(b) ==
  LET st[k \in 0..Len(b)] == IF k = 0 THEN [read |-> <<>>, rest |-> b] ELSE NextHop(st[k - 1])
  IN  st[Len(b)].read

-----------------------------------------------------------------------------
(* A PathBuilder: each call appends its segment, or sets Err (end is        *)
(* "error"), and none appends once Err is set.                              *)

Segment(call) ==
  CASE call.do = "class" -> CIPClass(call.n)
    [] call.do = "instance" -> CIPInstance(call.n)
    [] call.do = "attribute" -> CIPAttribute(call.n)
    [] call.do = "element" -> CIPElement(call.n)
    [] call.do = "symbolic" -> marshalIOIPart(call.name)
    [] call.do \in {"port", "address", "slot"} -> <<call.n>>
    [] call.do = "custom" -> call.bytes
    [] call.do = "parse" -> ParsePath(call.route).bytes

Outcome(call) ==
  IF call.do = "parse" THEN ParsePath(call.route).end
  ELSE IF call.do = "symbolic" /\ ~parse_tag_name(call.name).ok THEN "error" ELSE "ok"

Build(st, call) ==
  IF st.end # "ok" THEN st
  ELSE IF Outcome(call) # "ok" THEN [st EXCEPT !.end = Outcome(call)]
  ELSE [st EXCEPT !.bytes = @ \o Segment(call)]

PathBuilder(calls) ==
  LET st[k \in 0..Len(calls)] == IF k = 0 THEN [end |-> "ok", bytes |-> <<>>]
                                 ELSE Build(st[k - 1], calls[k])
  IN  st[Len(calls)]

(* What a device reads of a logical path, up to what it does not know. *)
NextSegment(st) ==
  LET b == st.rest
      with(call, rest) == [read |-> Append(st.read, call), rest |-> rest]
      unknown == with([do |-> "unknown"], <<>>)
      number(do, r) == IF r.ok THEN with([do |-> do, n |-> r.n], r.rest) ELSE unknown
      name == getAsciiTagPart(b)
  IN  CASE b = <<>> -> st
        [] b # <<>> /\ b[1] \in {32, 33} -> number("class", CIPClassRead(b))
        [] b # <<>> /\ b[1] \in {36, 37, 38} -> number("instance", CIPInstanceRead(b))
        [] b # <<>> /\ b[1] \in {48, 49} -> number("attribute", CIPAttributeRead(b))
        [] b # <<>> /\ b[1] \in {40, 41, 42} -> number("element", ElementRead(b))
        [] b # <<>> /\ b[1] = Symbolic ->
             IF name.ok THEN with([do |-> "symbolic", name |-> name.name], name.rest) ELSE unknown
        [] OTHER -> unknown

SegmentsRead(b) ==
  LET st[k \in 0..Len(b)] == IF k = 0 THEN [read |-> <<>>, rest |-> b] ELSE NextSegment(st[k - 1])
  IN  st[Len(b)].read

=============================================================================
