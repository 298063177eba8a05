------------------------------- MODULE Packing ------------------------------
(***************************************************************************)
(* How a Go struct becomes the bytes of a UDT and back: Pack, Unpack and    *)
(* TypeEncode, with the control words of the predefined types (TIMER,       *)
(* COUNTER, CONTROL, PID), and the layout they are to agree with.           *)
(*                                                                         *)
(* A type is a record with a kind.  A value is 0 or 1 for a bool, any other *)
(* number for what is copied as it is, a sequence for an array or a struct. *)
(* A byte is packed bits, or the at-th byte of a value.                     *)
(***************************************************************************)
EXTENDS Integers, Sequences, FiniteSets, SequencesExt

Bool == [kind |-> "bool"]
Scalar(n) == [kind |-> "scalar", size |-> n]
Str == [kind |-> "string"]
Array(type, n) == [kind |-> "array", of |-> type, len |-> n]
Struct(fields) == [kind |-> "struct", fields |-> fields]

(* TIMER, COUNTER, CONTROL and PID: a word of flags before rest bytes.  A   *)
(* PID also keeps the word itself, in CTL.                                  *)
Predefined(flags, rest, keeps) ==
  [kind |-> "word", flags |-> flags, rest |-> rest, keeps |-> keeps]

(* A field of a struct: its type, and its tags pack:"nopack" and byteIndex  *)
(* (NoIndex when it has none).                                              *)
NoIndex == -1
Field(type) == [type |-> type, nopack |-> FALSE, index |-> NoIndex]
NoPack(type) == [type |-> type, nopack |-> TRUE, index |-> NoIndex]
At(type, i) == [type |-> type, nopack |-> FALSE, index |-> i]

StringSize == 86     \* the length and 82 characters, as Pack and Unpack have it
Garbage == -1        \* what is read from bytes that are not the value's

BitByte(bits) == [of |-> 0, at |-> 0, bits |-> bits]
Zeros(n) == [k \in 1..n |-> BitByte({})]
BytesOf(v, n) == [k \in 1..n |-> [of |-> v, at |-> k, bits |-> {}]]
RoundUp(n, a) == a * ((n + a - 1) \div a)
PaddedTo(b, n) == IF Len(b) < n THEN b \o Zeros(n - Len(b)) ELSE b
Flat(ss) == FoldLeft(LAMBDA a, s : a \o s, <<>>, ss)

RECURSIVE Align(_)
Align(type) ==
  CASE type.kind = "string" -> 4
    [] type.kind = "array" -> Align(type.of)
    [] type.kind = "bool" -> 1
    [] type.kind = "scalar" -> type.size
    [] type.kind = "word" -> 4
    [] type.kind = "struct" ->
         LET of == {Align(type.fields[i].type) : i \in DOMAIN type.fields}
         IN  CHOOSE a \in of \cup {4} : \A o \in of \cup {4} : o <= a

-----------------------------------------------------------------------------
(* Pack.                                                                    *)

(* A control word, lowest byte first. *)
Word(bits) ==
  [k \in 1..4 |-> BitByte({b - 8 * (k - 1) : b \in {c \in bits : c \div 8 = k - 1}})]

(* The bits of the word: those of the flags; of a PID, CTL if it is not 0. *)
controlWord(type, v) == IF type.keeps /\ v.ctl # {} THEN v.ctl ELSE v.flags

(* binary.Write, of what holds no struct and no string. *)
RECURSIVE binaryWrite(_, _)
binaryWrite(type, v) ==
  CASE type.kind = "bool" -> <<BitByte(IF v = 1 THEN {0} ELSE {})>>
    [] type.kind = "scalar" -> BytesOf(v, type.size)
    [] type.kind = "array" -> Flat([i \in 1..type.len |-> binaryWrite(type.of, v[i])])

(* A bit more in bitpack; a full byte is written. *)
PackBit(st, v) ==
  LET pack == IF v = 1 THEN st.bitpack \cup {st.bitpos} ELSE st.bitpack IN
  IF st.bitpos = 7
  THEN [st EXCEPT !.out = Append(@, BitByte(pack)), !.bitpos = 0, !.bitpack = {}]
  ELSE [st EXCEPT !.bitpos = @ + 1, !.bitpack = pack]

(* Mutant: the packed bits are not written before the next field. *)
FlushNothing(st) == st

Flush(st) ==
  IF st.bitpos > 0
  THEN [st EXCEPT !.out = Append(@, BitByte(st.bitpack)), !.bitpos = 0, !.bitpack = {}]
  ELSE st

RECURSIVE PackStruct(_, _)

PackValue(type, v) ==
  CASE type.kind = "struct" -> PackStruct(type.fields, v)
    [] type.kind = "word" -> Word(controlWord(type, v)) \o BytesOf(v.rest, type.rest)
    [] type.kind = "string" -> BytesOf(v, StringSize)
    [] OTHER -> binaryWrite(type, v)

(* One field.  Padding to a larger alignment comes before any bits that are *)
(* still to be written; a string, an array of strings or of structs is      *)
(* written at once and drops the position in the byte, as does any other    *)
(* array; the rest flush the byte, are aligned and written.                 *)
PackField(st, f, v) ==
  LET type == f.type
      a == Align(type)
      Is(k) == type.kind = k
      ArrayOf(k) == Is("array") /\ type.of.kind = k
      aligned(b) == IF f.index # NoIndex THEN b ELSE PaddedTo(b, RoundUp(Len(b), a))
      st1 == [st EXCEPT !.lastA = a,
                        !.out = IF f.index # NoIndex THEN PaddedTo(@, f.index)
                                ELSE IF a > st.lastA THEN aligned(@) ELSE @]
      st2 == IF Is("array") /\ ~f.nopack THEN [st1 EXCEPT !.bitpos = 0] ELSE st1
      st3 == Flush(st2)
      put == aligned(st3.out) \o PackValue(type, v)
  IN
  CASE ~f.nopack /\ Is("bool") -> PackBit(st1, v)
    [] ~f.nopack /\ ArrayOf("bool") -> FoldLeft(PackBit, st1, v)
    [] ~f.nopack /\ Is("string") ->
         [st1 EXCEPT !.out = @ \o PackValue(type, v), !.bitpos = 0]
    [] ~f.nopack /\ Is("array") /\ type.of.kind \in {"struct", "word", "string"} ->
         [st1 EXCEPT !.out = @ \o Flat([i \in 1..type.len |-> PackValue(type.of, v[i])]),
                     !.bitpos = 0]
    [] OTHER -> [st3 EXCEPT !.out = IF type.kind \in {"struct", "word"} THEN aligned(put) ELSE put]

PackStart == [out |-> <<>>, bitpos |-> 0, bitpack |-> {}, lastA |-> 1]

PackStruct(fields, v) ==
  LET st == FoldLeft(LAMBDA s, i : PackField(s, fields[i], v[i]), PackStart,
                     [i \in DOMAIN fields |-> i])
  IN  Flush(st).out

Pack(fields, v) == PackStruct(fields, v)

-----------------------------------------------------------------------------
(* Unpack, from the bytes of in after the first n.  ok: nothing was missing.*)

Here(in, n, k) == SubSeq(in, n + 1, n + k)
HasBytes(in, n, k) == n + k <= Len(in)

(* A value is read back when the bytes are its own, from first to last. *)
ReadValue(in, n, k) ==
  LET b == Here(in, n, k) IN IF b = BytesOf(b[1].of, k) THEN b[1].of ELSE Garbage

ReadBit(byte, pos) == IF byte.of # 0 THEN Garbage ELSE IF pos \in byte.bits THEN 1 ELSE 0

setControlWord(type, word) == [flags |-> word \cap type.flags,
                               ctl |-> IF type.keeps THEN word ELSE {}]

(* Padding is skipped, also past the end unless nothing is left. *)
SkipTo(st, in, n) ==
  IF st.n >= n THEN st ELSE [st EXCEPT !.n = n, !.ok = @ /\ st.n < Len(in)]

SizeOf(type) ==
  CASE type.kind = "bool" -> 1
    [] type.kind = "scalar" -> type.size
    [] type.kind = "string" -> StringSize
    [] type.kind = "array" ->
         type.len * (IF type.of.kind = "bool" THEN 1 ELSE type.of.size)
    [] type.kind = "word" -> 4 + type.rest

RECURSIVE binaryRead(_, _, _)
binaryRead(type, in, n) ==
  CASE type.kind = "bool" ->
         (IF in[n + 1].of # 0 THEN Garbage ELSE IF in[n + 1].bits # {} THEN 1 ELSE 0)
    [] type.kind \in {"scalar", "string"} -> ReadValue(in, n, SizeOf(type))
    [] type.kind = "array" ->
         [i \in 1..type.len |-> binaryRead(type.of, in, n + (i - 1) * SizeOf(type.of))]
    [] type.kind = "word" ->
         LET word == UNION {{8 * (k - 1) + b : b \in in[n + k].bits} : k \in 1..4}
             w == setControlWord(type, word)
         IN  [flags |-> w.flags, ctl |-> w.ctl, rest |-> ReadValue(in, n + 4, type.rest)]

RECURSIVE UnpackStruct(_, _, _)

(* One value, and where it ends; [ok |-> FALSE] when bytes are missing. *)
UnpackValue(type, in, n) ==
  IF type.kind = "struct" THEN UnpackStruct(type.fields, in, n)
  ELSE IF HasBytes(in, n, SizeOf(type))
       THEN [ok |-> TRUE, n |-> n + SizeOf(type), vals |-> binaryRead(type, in, n)]
       ELSE [ok |-> FALSE, n |-> n, vals |-> Garbage]

(* The next bit: of a new byte, or of the one last read. *)
UnpackBit(st, in) ==
  LET fresh == st.bitpos = 0
      byte == IF ~fresh THEN st.byte
              ELSE IF HasBytes(in, st.n, 1) THEN in[st.n + 1] ELSE BitByte({})
  IN  [st EXCEPT !.byte = byte,
                 !.n = IF fresh THEN @ + 1 ELSE @,
                 !.ok = @ /\ (fresh => HasBytes(in, st.n, 1)),
                 !.bitpos = (@ + 1) % 8,
                 !.bits = Append(@, ReadBit(byte, st.bitpos))]

(* The elements of an array or a slice, one after the other; a slice's are  *)
(* padded to their alignment.                                               *)
UnpackElements(type, len, in, n, slice) ==
  FoldLeft(LAMBDA st, i :
             IF ~st.ok THEN st
             ELSE LET e == UnpackValue(type, in, st.n) IN
                  [ok |-> e.ok, vals |-> Append(st.vals, e.vals),
                   n |-> IF slice /\ e.ok THEN st.n + RoundUp(e.n - st.n, Align(type)) ELSE e.n],
           [ok |-> TRUE, n |-> n, vals |-> <<>>], [i \in 1..len |-> i])

(* A field that is not packed: aligned from the struct's start, read, and   *)
(* after a struct aligned again.                                            *)
UnpackAligned(st, f, in, base) ==
  LET a == Align(f.type)
      to(s) == IF f.index # NoIndex THEN s ELSE SkipTo(s, in, base + RoundUp(s.n - base, a))
      st1 == to(st)
      e == UnpackValue(f.type, in, st1.n)
      st2 == [st1 EXCEPT !.n = e.n, !.ok = @ /\ e.ok, !.vals = Append(@, e.vals), !.bitpos = 0]
  IN  IF st2.ok /\ f.type.kind \in {"struct", "word"} THEN to(st2) ELSE st2

UnpackField(st, f, in, base) ==
  LET type == f.type
      a == Align(type)
      Is(k) == type.kind = k
      st1 == [(IF f.index # NoIndex THEN SkipTo(st, in, base + f.index)
               ELSE IF a > st.lastA THEN SkipTo(st, in, base + RoundUp(st.n - base, a)) ELSE st)
              EXCEPT !.lastA = a, !.bits = <<>>]
      took(e) == [st1 EXCEPT !.n = e.n, !.ok = @ /\ e.ok, !.bitpos = 0, !.vals = Append(@, e.vals)]
  IN
  CASE ~st.ok -> st
    [] st.ok /\ ~f.nopack /\ Is("bool") ->
         LET s == UnpackBit(st1, in) IN [s EXCEPT !.vals = Append(@, s.bits[1])]
    [] st.ok /\ ~f.nopack /\ Is("array") /\ type.of.kind = "bool" ->
         LET s == FoldLeft(LAMBDA x, i : UnpackBit(x, in), st1, [i \in 1..type.len |-> i])
         IN  [s EXCEPT !.vals = Append(@, s.bits)]
    [] st.ok /\ ~f.nopack /\ Is("string") -> took(UnpackValue(type, in, st1.n))
    [] st.ok /\ ~f.nopack /\ Is("array") /\ type.of.kind \in {"struct", "word", "string"} ->
         took(UnpackElements(type.of, type.len, in, st1.n, FALSE))
    [] OTHER -> UnpackAligned(st1, f, in, base)

UnpackStruct(fields, in, n) ==
  LET st == FoldLeft(LAMBDA s, i : UnpackField(s, fields[i], in, n),
                     [n |-> n, ok |-> TRUE, bitpos |-> 0, byte |-> BitByte({}), lastA |-> 1,
                      bits |-> <<>>, vals |-> <<>>],
                     [i \in DOMAIN fields |-> i])
  IN  [ok |-> st.ok, n |-> st.n, vals |-> st.vals]

Unpack(fields, in) == UnpackStruct(fields, in, 0)

UnpackSlice(fields, len, in) == UnpackElements(Struct(fields), len, in, 0, TRUE)

-----------------------------------------------------------------------------
(* TypeEncode: the names and counts of the members, whose checksum is the   *)
(* type of the value on the wire.  A bool array and a string have no name.  *)

goTypeToLogixTypeName(type) ==
  IF type.kind = "scalar" THEN [name |-> "scalar", size |-> type.size]
                          ELSE [name |-> "", size |-> 0]

(* What the encoding of a predefined type says: a DINT and the rest. *)
TypeAbbr(type) == <<[name |-> "scalar", size |-> 4], [name |-> "rest", size |-> type.rest]>>

RECURSIVE TypeEncode(_)
TypeEncode(fields) ==
  LET OneOf(type) == CASE type.kind = "struct" -> TypeEncode(type.fields)
                       [] type.kind = "word" -> TypeAbbr(type)
                       [] OTHER -> <<goTypeToLogixTypeName(type)>>
      Add(st, f) ==
        CASE f.type.kind = "array" ->
               [st EXCEPT !.names = @ \o Flat([i \in 1..f.type.len |-> OneOf(f.type.of)])]
          [] f.type.kind = "bool" ->
               [st EXCEPT !.names = IF st.bitpos = 0 THEN Append(@, goTypeToLogixTypeName(Scalar(1)))
                                    ELSE @,
                          !.bitpos = (@ + 1) % 8]
          [] OTHER -> [names |-> st.names \o OneOf(f.type), bitpos |-> 0]
  IN  FoldLeft(Add, [names |-> <<>>, bitpos |-> 0], fields).names

-----------------------------------------------------------------------------
(* The layout the two are to agree with: members in order, bools in the     *)
(* bits of shared bytes, everything else at a multiple of its alignment, a  *)
(* struct and a string padded to theirs.                                    *)

RECURSIVE Layout(_, _)

Image(type, v) ==
  LET padded(b) == PaddedTo(b, RoundUp(Len(b), Align(type)))
      One(t, x) == CASE t.kind = "struct" -> Layout(t.fields, x).out
                     [] t.kind = "word" -> Word(x.flags) \o BytesOf(x.rest, t.rest)
                     [] t.kind = "string" -> BytesOf(x, StringSize)
                     [] OTHER -> binaryWrite(t, x)
  IN  IF type.kind = "array"
      THEN Flat([i \in 1..type.len |->
                   LET b == One(type.of, v[i]) IN PaddedTo(b, RoundUp(Len(b), Align(type)))])
      ELSE padded(One(type, v))

Packs(f) == /\ ~f.nopack /\ f.index = NoIndex
            /\ f.type.kind = "bool" \/ (f.type.kind = "array" /\ f.type.of.kind = "bool")

Layout(fields, v) ==
  LET bit(st, x) ==
        LET at == IF st.bit = 0 THEN Append(st.out, BitByte({})) ELSE st.out
            b == IF x = 1 THEN {st.bit} ELSE {}
        IN  [out |-> [at EXCEPT ![Len(at)].bits = @ \cup b], bit |-> (st.bit + 1) % 8]
      add(st, i) ==
        LET f == fields[i]
            start == IF f.index # NoIndex THEN f.index ELSE RoundUp(Len(st.out), Align(f.type))
        IN  CASE Packs(f) /\ f.type.kind = "bool" -> bit(st, v[i])
              [] Packs(f) /\ f.type.kind = "array" -> FoldLeft(bit, st, v[i])
              [] OTHER -> [out |-> PaddedTo(st.out, start) \o Image(f.type, v[i]), bit |-> 0]
  IN  FoldLeft(add, [out |-> <<>>, bit |-> 0], [i \in DOMAIN fields |-> i])

RECURSIVE ZeroOf(_)
ZeroOf(type) ==
  CASE type.kind = "array" -> [i \in 1..type.len |-> ZeroOf(type.of)]
    [] type.kind = "struct" -> [i \in DOMAIN type.fields |-> ZeroOf(type.fields[i].type)]
    [] type.kind = "word" -> [flags |-> {}, ctl |-> {}, rest |-> 0]
    [] OTHER -> 0

(* The structs for which Pack keeps to the layout.  Bits still to be        *)
(* written must meet no string, no array, no byteIndex, and no field that   *)
(* is aligned past them; what is written at once must already be aligned;   *)
(* nothing but a field aligned to 4 may follow a string; and an array may   *)
(* hold no strings and no structs that need padding between them.           *)
RECURSIVE Plain(_)
Plain(fields) ==
  \A i \in DOMAIN fields :
    LET f == fields[i]
        a == Align(f.type)
        elem == IF f.type.kind = "array" THEN f.type.of ELSE f.type
        atOnce == elem.kind = "string" \/ (f.type.kind = "array" /\ elem.kind \in {"struct", "word"})
        before == Layout(SubSeq(fields, 1, i - 1), ZeroOf(Struct(SubSeq(fields, 1, i - 1))))
        end == Len(before.out)
        last == fields[i - 1].type
    IN
    /\ before.bit > 0 =>
         \/ Packs(f)
         \/ /\ f.index = NoIndex /\ ~atOnce
            /\ f.type.kind # "array" \/ f.nopack
            /\ (end - 1) % a = 0
    /\ (i > 1 /\ atOnce /\ end % a # 0) => a > Align(last)
    /\ (i > 1 /\ last.kind = "string") => ~atOnce /\ a >= 4
    /\ f.index # NoIndex => f.index >= end
    /\ elem.kind = "struct" =>
         /\ Plain(elem.fields)
         /\ f.type.kind = "array" =>
              Len(Pack(elem.fields, ZeroOf(elem))) % Align(elem) = 0
    /\ f.type.kind = "array" => elem.kind # "string"

=============================================================================
