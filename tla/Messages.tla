------------------------------ MODULE Messages ------------------------------
(***************************************************************************)
(* Requests and replies as bytes: what the client sends to write a tag, to  *)
(* read several in one message and to ask who is there, what the server     *)
(* makes of it, what it answers and what the client makes of the answer.    *)
(*                                                                         *)
(* A byte is a number, a value the unsigned number that its bytes are, a    *)
(* string the sequence of its characters.  A write has the path of a tag,   *)
(* the Go type of the values and the values; a read, the Go type that is    *)
(* wanted and how many.                                                     *)
(***************************************************************************)
EXTENDS TagPath

Zero(n) == [k \in 1..n |-> 0]
Drop(b, n) == SubSeq(b, n + 1, Len(b))
PadTo(b, n) == IF Len(b) >= n THEN SubSeq(b, 1, n) ELSE b \o Zero(n - Len(b))

-----------------------------------------------------------------------------
(* Items: a count, and for each item its id, its length and its data.       *)

ConnectionAddress == 161
ConnectedData == 177

ItemBytes(item) == LE(item.id, 2) \o LE(Len(item.data) % 65536, 2) \o item.data

(* After an interface handle and a timeout, which are 0. *)
serializeItems(items) ==
  Zero(6) \o LE(Len(items), 2) \o FlattenSeq([k \in DOMAIN items |-> ItemBytes(items[k])])

NoItems == [ok |-> FALSE, items |-> <<>>]

ReadItem(st) ==
  LET len == IF Len(st.rest) < 4 THEN 0 ELSE FromLE(SubSeq(st.rest, 3, 4)) IN
  IF ~st.ok \/ Len(st.rest) < 4 + len THEN [st EXCEPT !.ok = FALSE]
  ELSE [st EXCEPT !.items = Append(@, [id |-> FromLE(SubSeq(st.rest, 1, 2)),
                                       data |-> SubSeq(st.rest, 5, 4 + len)]),
                  !.rest = Drop(@, 4 + len)]

readItems(b) ==
  LET count == FromLE(SubSeq(b, 1, 2))
      st[k \in 0..count] == IF k = 0 THEN [ok |-> TRUE, items |-> <<>>, rest |-> Drop(b, 2)]
                            ELSE ReadItem(st[k - 1])
  IN  IF Len(b) < 2 THEN NoItems ELSE [ok |-> st[count].ok, items |-> st[count].items]

-----------------------------------------------------------------------------
(* Values.                                                                  *)

(* GoVarToCIPType: the type that stands for a Go type on the wire. *)
GoVarToCIPType(go) ==
  CASE go = "bool" -> 193 [] go = "int8" -> 194 [] go = "int16" -> 195 [] go = "int32" -> 196
    [] go = "uint16" -> 199 [] go = "uint32" -> 200 [] go = "byte" -> 209 [] go = "string" -> 255
    [] OTHER -> 0

(* CIPType.Size.  Of a string it is not the bytes that are read of it. *)
Size(t) ==
  CASE t \in {193, 194, 198, 209} -> 1
    [] t \in {195, 199, 210} -> 2
    [] t \in {196, 200, 202, 211} -> 4
    [] t = 255 -> 90
    [] t = 160 -> 88
    [] OTHER -> 0

NoValue == [ok |-> FALSE, val |-> <<>>, rest |-> <<>>]

(* readValue: a number, or the 86 bytes a string is taken to be. *)
readValue(t, b) ==
  LET n == IF t = 255 THEN 86 ELSE Size(t) IN
  IF t \in {0, 160} \/ n = 0 \/ Len(b) < n THEN NoValue
  ELSE [ok |-> TRUE, rest |-> Drop(b, n),
        val |-> IF t = 255 THEN SubSeq(b, 1, n)
                ELSE IF t = 193 THEN (IF b[1] # 0 THEN 1 ELSE 0)
                ELSE FromLE(SubSeq(b, 1, n))]

(* n of them, one after the other. *)
readValues(t, n, b) ==
  LET one(st) == LET r == readValue(t, st.rest)
                 IN  [ok |-> st.ok /\ r.ok, vals |-> Append(st.vals, r.val), rest |-> r.rest]
      st[k \in 0..n] == IF k = 0 THEN [ok |-> TRUE, vals |-> <<>>, rest |-> b] ELSE one(st[k - 1])
  IN  st[n]

(* CIPItem.Serialize, of numbers, of strings and of the bytes of one. *)
Serialize(go, vals) ==
  FlattenSeq([k \in DOMAIN vals |->
          IF go = "string" THEN LE(Len(vals[k]), 4) \o PadTo(vals[k], 84)
          ELSE IF go = "bytes" THEN vals[k]
          ELSE LE(vals[k], Size(GoVarToCIPType(go)))])

(* Bit bitpos of a value; of a SINT none, and past a value's end it is 0. *)
getBit(t, val, bitpos) ==
  CASE t = 194 -> [ok |-> bitpos > 7, bit |-> 0]
    [] t \in {0, 160} -> [ok |-> FALSE, bit |-> 0]
    [] OTHER -> [ok |-> TRUE,
                 bit |-> IF bitpos < 8 * Size(t) THEN (val \div 2^bitpos) % 2 ELSE 0]

-----------------------------------------------------------------------------
(* A write of one tag: write_single, and cipConnectedWrite of the server.   *)

Read == 76
Write == 77
Words(ioi) == (Len(ioi) \div 2) % 256

write_single(u, seq) ==
  LET ioi == newSymbolicIOI(u.path, u.go).buffer IN
  serializeItems(<<
    [id |-> ConnectionAddress, data |-> Zero(4)],
    [id |-> ConnectedData,
     data |-> LE(seq, 2) \o <<Write, Words(ioi)>> \o ioi
              \o LE(GoVarToCIPType(u.go), 2) \o LE(Len(u.vals), 2) \o Serialize(u.go, u.vals)]>>)

StringCRC == 4046       \* 0x0FCE

(* Of structs, only strings are taken, and of each 4 and 82 bytes; lengths  *)
(* here stay below 65536.                                                   *)
ReadStrings(n, b) ==
  LET len(at) == FromLE(SubSeq(b, at + 1, at + 2))
      one(at) == SubSeq(b, at + 5, at + 4 + (IF len(at) > 82 THEN 82 ELSE len(at)))
  IN  [ok |-> Len(b) >= 86 * n, vals |-> [k \in 1..n |-> one(86 * (k - 1))]]

parseWriteValues(b) ==
  LET info == IF Len(b) < 2 THEN 0 ELSE b[2]
      body == Drop(b, 2 + info)
  IN  IF Len(b) < 4 + info THEN [ok |-> FALSE, type |-> 0, vals |-> <<>>]
      ELSE LET n == FromLE(SubSeq(body, 1, 2))
               crc == IF info >= 2 THEN FromLE(SubSeq(b, 3, 4)) ELSE 0
               r == IF b[1] # 160 THEN readValues(b[1], n, Drop(body, 2))
                    ELSE IF crc = StringCRC THEN ReadStrings(n, Drop(body, 2))
                    ELSE [ok |-> FALSE, vals |-> <<>>]
           IN  [ok |-> r.ok, type |-> b[1], vals |-> r.vals]

(* The tag and the values that the server is asked to write. *)
cipConnectedWrite(b) ==
  LET in == readItems(Drop(b, 6))
      tag == getTagFromPath(Drop(in.items[2].data, 4))
      w == parseWriteValues(tag.rest)
  IN  IF in.ok /\ tag.ok THEN [ok |-> w.ok, tag |-> tag.tag, type |-> w.type, vals |-> w.vals]
      ELSE [ok |-> FALSE]

-----------------------------------------------------------------------------
(* Several reads in one message: readList, and connectedMulti of the server.*)

(* Where each part of a message begins, the first after the table. *)
JumpTable(parts) ==
  [k \in DOMAIN parts |-> 2 + 2 * Len(parts) + Len(FlattenSeq(SubSeq(parts, 1, k - 1)))]

(* Mutant: a part's place is counted from the end of the table. *)
JumpFromTable(parts) == [k \in DOMAIN parts |-> Len(FlattenSeq(SubSeq(parts, 1, k - 1)))]

jump_table(parts) == JumpTable(parts)

TableBytes(table) == FlattenSeq([k \in DOMAIN table |-> LE(table[k], 2)])

readListRequest(uses, seq) ==
  LET part(u) == LET ioi == newSymbolicIOI(u.path, u.go).buffer
                 IN  <<Read, Words(ioi)>> \o ioi \o LE(u.count, 2)
      parts == [k \in DOMAIN uses |-> part(uses[k])]
  IN  serializeItems(<<
        [id |-> ConnectionAddress, data |-> Zero(4)],
        [id |-> ConnectedData,
         data |-> LE(seq, 2) \o <<10, 2, 32, 2, 36, 1>> \o LE(Len(uses), 2)
                  \o TableBytes(jump_table(parts)) \o FlattenSeq(parts)]>>)

(* The services of the message, and the tag and the count of each; then     *)
(* the values that Stored gives for them.                                   *)
MultiReads(data) ==
  LET n == FromLE(SubSeq(data, 9, 10))
      at(i) == FromLE(SubSeq(data, 9 + 2 * i, 10 + 2 * i)) + 8
      one(i) == LET tag == getTagFromPath(Drop(data, at(i) + 2))
                IN  IF tag.ok /\ Len(tag.rest) >= 2
                    THEN [ok |-> TRUE, tag |-> tag.tag, count |-> FromLE(SubSeq(tag.rest, 1, 2))]
                    ELSE [ok |-> FALSE]
  IN  [i \in 1..n |-> one(i)]

(* cipStringPacker: the type of a string, its length, 82 characters, 2 more.*)
cipStringPacker(s) ==
  <<160, 2>> \o LE(StringCRC, 2) \o LE(IF Len(s) > 82 THEN 82 ELSE Len(s), 4)
  \o PadTo(SubSeq(s, 1, IF Len(s) > 82 THEN 82 ELSE Len(s)), 84)

(* Of a tag that holds one value the provider gives that one, whatever the  *)
(* count; of one that holds several, an error if they are fewer than are    *)
(* asked for, and an array of strings or of no type cannot be serialized.   *)
CanRead(ask, tag) ==
  /\ ask.ok /\ tag.ok
  /\ \/ Len(tag.vals) = 1
     \/ ask.count <= Len(tag.vals) /\ tag.go \notin {"string", "any"}

ReadReply(ask, tag) ==
  <<Read + 128, 0, 0, 0>>
  \o (IF tag.go = "string" THEN cipStringPacker(tag.vals[1])
      ELSE <<GoVarToCIPType(tag.go), 0>>
           \o Serialize(tag.go, IF Len(tag.vals) = 1 THEN tag.vals ELSE SubSeq(tag.vals, 1, ask.count)))

MultiReply(seq, parts) ==
  serializeItems(<<
    [id |-> ConnectionAddress, data |-> Zero(4)],
    [id |-> ConnectedData,
     data |-> seq \o <<10 + 128, 0, 0, 0>> \o LE(Len(parts), 2) \o TableBytes(JumpTable(parts)) \o FlattenSeq(parts)]>>)

(* One reply failing, the whole message is left unanswered. *)
ReplyTo(seq, asks, tags) ==
  IF \A i \in DOMAIN asks : CanRead(asks[i], tags[i])
  THEN [ok |-> TRUE, bytes |-> MultiReply(seq, [i \in DOMAIN asks |-> ReadReply(asks[i], tags[i])])]
  ELSE [ok |-> FALSE]

AnswerReads(seq, asks, Stored(_)) ==
  ReplyTo(seq, asks, [i \in DOMAIN asks |-> IF asks[i].ok THEN Stored(asks[i].tag) ELSE [ok |-> FALSE]])

connectedMulti(b, Stored(_)) ==
  LET in == readItems(Drop(b, 6)) IN
  IF in.ok THEN AnswerReads(SubSeq(in.items[2].data, 1, 2), MultiReads(in.items[2].data), Stored)
  ELSE [ok |-> FALSE]

(* Several strings: of each a length, which may not be more than 82, and 82 *)
(* bytes.                                                                   *)
readListStrings(n, b) ==
  LET at(k) == 86 * (k - 1)
      len(k) == FromLE(SubSeq(b, at(k) + 1, at(k) + 2))
  IN  IF Len(b) >= 86 * n /\ \A k \in 1..n : len(k) <= 82 /\ b[at(k) + 3] = 0 /\ b[at(k) + 4] = 0
      THEN [ok |-> TRUE, vals |-> [k \in 1..n |-> SubSeq(b, at(k) + 5, at(k) + 4 + len(k))]]
      ELSE [ok |-> FALSE]

(* What readList makes of the part at an offset, which it adds to the       *)
(* length of the headers.  A status other than 0 gives an error in the      *)
(* value's place.  A bool is a bit of a number if the path says so; of a    *)
(* string the length is read where the type's checksum is; a struct is      *)
(* unpacked into the Go value that is wanted, which panics as none of these *)
(* is a struct.                                                             *)
Nil == -1
StatusError == -2

readListPart(item, offset, u) ==
  LET b == Drop(item, offset + 10)
      type == b[5]
      body == Drop(b, 6)
      bit == newSymbolicIOI(u.path, u.go).bit
      number == readValue(type, body)
      len == FromLE(SubSeq(body, 1, 2)) + 65536 * FromLE(SubSeq(body, 3, 4))
  IN  IF Len(b) < 4 \/ b[1] < 128 THEN [ok |-> FALSE]
      ELSE IF b[3] # 0 THEN [ok |-> TRUE, vals |-> <<StatusError>>]
      ELSE IF Len(b) < 6 THEN [ok |-> FALSE]
      ELSE CASE u.count = 1 /\ u.go = "bool" /\ type # 193 /\ bit # NoBit ->
                  IF ~number.ok THEN [ok |-> FALSE]
                  ELSE LET g == getBit(type, number.val, bit)
                       IN  [ok |-> TRUE, vals |-> <<IF g.ok THEN g.bit ELSE Nil>>]
             [] u.count = 1 /\ u.go = "string" ->
                  IF Len(body) < 4 + len THEN [ok |-> FALSE]
                  ELSE [ok |-> TRUE, vals |-> <<SubSeq(body, 5, 4 + len)>>]
             [] u.count # 1 /\ u.go = "string" -> readListStrings(u.count, body)
             [] OTHER -> readValues(type, u.count, body)

readListReply(b, uses) ==
  LET in == readItems(Drop(b, 6))
      item == ItemBytes(in.items[2])
      n == FromLE(SubSeq(item, 11, 12))
      offset(k) == FromLE(SubSeq(item, 11 + 2 * k, 12 + 2 * k))
      one(k) == readListPart(item, offset(k), uses[k])
  IN  IF in.ok /\ n = Len(uses) /\ \A k \in 1..n : one(k).ok
      THEN [ok |-> TRUE, vals |-> [k \in 1..n |-> one(k).vals]]
      ELSE [ok |-> FALSE]

-----------------------------------------------------------------------------
(* Who is there: ListIdentity.                                              *)

BE(n, k) == Reverse(LE(n, k))

(* An address that is none of IPv4 is sent as zeros. *)
NotIPv4 == <<>>
To4(addr) == IF addr = NotIPv4 THEN Zero(4) ELSE addr

(* The attributes of the identity object, all of which must be there and of *)
(* their types, and the address the request came to.                        *)
Attributes == 1..7

buildListIdentityItemBody(id) ==
  LET name == SubSeq(id.name, 1, IF Len(id.name) > 255 THEN 255 ELSE Len(id.name)) IN
  LE(1, 2) \o BE(2, 2) \o BE(id.port, 2) \o To4(id.addr) \o Zero(8)
  \o LE(id.vendor, 2) \o LE(id.device, 2) \o LE(id.product, 2) \o LE(id.revision, 2)
  \o LE(id.status, 2) \o LE(id.serial, 4) \o <<Len(name)>> \o name \o <<255>>

frameListIdentityResponse(body) == LE(1, 2) \o LE(12, 2) \o LE(Len(body), 2) \o body

(* Mutant: the port is read lowest byte first. *)
PortLE(b) == FromLE(SubSeq(b, 5, 6))

PortOf(b) == FromLE(Reverse(SubSeq(b, 5, 6)))

ParseFromBytes(b) ==
  LET field(at, n) == FromLE(SubSeq(b, at, at + n - 1)) IN
  IF Len(b) < 33 \/ Len(b) < 33 + b[33] + 1 THEN [ok |-> FALSE]
  ELSE [ok |-> TRUE, port |-> PortOf(b), addr |-> SubSeq(b, 7, 10),
        vendor |-> field(19, 2), device |-> field(21, 2), product |-> field(23, 2),
        revision |-> field(25, 2), status |-> field(27, 2), serial |-> field(29, 4),
        name |-> SubSeq(b, 34, 33 + b[33])]

ListIdentity(b) ==
  LET in == readItems(b) IN
  IF in.ok /\ in.items # <<>> THEN ParseFromBytes(in.items[1].data) ELSE [ok |-> FALSE]

=============================================================================
