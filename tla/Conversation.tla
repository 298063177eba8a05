---------------------------- MODULE Conversation ----------------------------
(***************************************************************************)
(* What messages and paths are for, as conversations: tags are written one  *)
(* by one and read in one message; a path is built and read by a device; a  *)
(* server says who it is.  Each ends with what one side has of what the     *)
(* other one meant.                                                         *)
(***************************************************************************)
EXTENDS Messages

CONSTANTS
  Exchanges,    \* [has, writes, reads]: what the server has, what is written and read
  Builds,       \* the sequences of a PathBuilder's calls
  Routes,       \* the routes: sequences of numbers and addresses
  Identities    \* what a server may be

Byte == {n \in Nat : n < 256}
Word16 == {n \in Nat : n < 65536}
Word32 == {n \in Nat : n \div 65536 < 65536}

(* A part of a route, and a call of a PathBuilder, of the widths their Go   *)
(* types have.                                                              *)
RoutePart == [kind : {"number"}, n : Int] \cup [kind : {"address"}, chars : Seq(Byte)]

BuilderCall ==
  [do : {"class", "attribute"}, n : Word16]
    \cup [do : {"instance", "element"}, n : Word32]
    \cup [do : {"symbolic"}, name : Seq(Byte)]
    \cup [do : {"port", "address", "slot"}, n : Byte]
    \cup [do : {"custom"}, bytes : Seq(Byte)]
    \cup [do : {"parse"}, route : Seq(RoutePart)]

(* What a server is, and the attributes of it that have their types. *)
Identity ==
  [port : Word16, addr : [1..4 -> Byte] \cup {NotIPv4}, vendor : Word16, device : Word16,
   product : Word16, revision : Word16, status : Word16, serial : Word32, name : Seq(Byte),
   typed : SUBSET Attributes]

(* Something is written, and of an array no values of another type than it  *)
(* has, which the provider would convert.                                   *)
OneType(e) ==
  LET all == e.has \o e.writes IN
  \A i, j \in DOMAIN all :
    /\ all[i].vals # <<>>
    /\ ( /\ all[i].path.parts = all[j].path.parts
         /\ Len(all[i].vals) > 1 /\ Len(all[j].vals) > 1 ) => all[i].go = all[j].go

ASSUME ConversationAssumption ==
  /\ \A e \in Exchanges : OneType(e)
  /\ Builds \subseteq Seq(BuilderCall)
  /\ Routes \subseteq Seq(RoutePart)
  /\ Identities \subseteq Identity

VARIABLES
  job,     \* the conversation
  stage,    \* where it is
  wire,    \* what was sent last
  held,    \* what the other side holds: a tag's bytes, or the tags' values
  got      \* what was understood

conversation == <<job, stage, wire, held, got>>

Done == 0
Refused == -1

Conversations ==
  [kind : {"exchange"}, of : Exchanges]
    \cup [kind : {"build"}, calls : Builds]
    \cup [kind : {"route"}, route : Routes]
    \cup [kind : {"identity"}, id : Identities]

(* The tags that the server has of its own. *)
InServer(j) ==
  IF j.kind = "exchange"
  THEN [k \in DOMAIN j.of.has |->
          [tag |-> j.of.has[k].path.parts, go |-> j.of.has[k].go, vals |-> j.of.has[k].vals]]
  ELSE <<>>

ConversationInit ==
  /\ job \in Conversations
  /\ stage = 1
  /\ wire = <<>>
  /\ held = InServer(job)
  /\ got = <<>>

-----------------------------------------------------------------------------
(* Tags are written one after the other, then read in one message.          *)

Writes == job.of.writes
Reads == job.of.reads

WriteTag ==
  /\ job.kind = "exchange" /\ stage \in 1..Len(Writes) /\ wire = <<>>
  /\ wire' = write_single(Writes[stage], stage)
  /\ UNCHANGED <<job, stage, held, got>>

(* The Go type that readValue gives for a type on the wire. *)
GoOf(t) ==
  CASE t = 193 -> "bool" [] t = 194 -> "int8" [] t = 195 -> "int16" [] t = 196 -> "int32"
    [] t = 199 -> "uint16" [] t = 200 -> "uint32" [] t = 209 -> "byte" [] t = 160 -> "string"
    [] OTHER -> "bytes"

(* What the provider holds of a tag: what was written last. *)
Stored(tag) ==
  LET of == {k \in DOMAIN held : held[k].tag = tag} IN
  IF of = {} THEN [ok |-> FALSE]
  ELSE LET k == Max(of) IN [ok |-> TRUE, go |-> held[k].go, vals |-> held[k].vals]

(* One value is handed to the provider with its type, several as []any: the *)
(* type they get is that of the array they replace, else they have none.    *)
TagWrite(w) ==
  LET old == Stored(w.tag) IN
  [tag |-> w.tag, vals |-> w.vals,
   go |-> IF Len(w.vals) = 1 THEN GoOf(w.type)
          ELSE IF old.ok /\ Len(old.vals) > 1 THEN old.go ELSE "any"]

(* The provider is one that keeps what it is given under the whole of its   *)
(* name.  What MapTagProvider does of an element is the module              *)
(* TagProvider's.                                                           *)
ServeWrite ==
  /\ job.kind = "exchange" /\ stage \in 1..Len(Writes) /\ wire # <<>>
  /\ wire' = <<>>
  /\ \E w \in {cipConnectedWrite(wire)} :
       IF w.ok
       THEN held' = Append(held, TagWrite(w)) /\ stage' = stage + 1
       ELSE held' = held /\ stage' = Refused
  /\ UNCHANGED <<job, got>>

ReadTags ==
  /\ job.kind = "exchange" /\ stage = Len(Writes) + 1
  /\ wire' = readListRequest(Reads, stage)
  /\ stage' = stage + 1
  /\ UNCHANGED <<job, held, got>>

ServeReads ==
  LET reply == connectedMulti(wire, Stored) IN
  /\ job.kind = "exchange" /\ stage = Len(Writes) + 2
  /\ IF reply.ok THEN wire' = reply.bytes /\ stage' = stage + 1
                 ELSE wire' = <<>> /\ stage' = Refused
  /\ UNCHANGED <<job, held, got>>

TakeReply ==
  LET r == readListReply(wire, Reads) IN
  /\ job.kind = "exchange" /\ stage = Len(Writes) + 3
  /\ wire' = <<>>
  /\ IF r.ok THEN got' = r.vals /\ stage' = Done ELSE got' = <<>> /\ stage' = Refused
  /\ UNCHANGED <<job, held>>

-----------------------------------------------------------------------------
(* A path or a route is built, and a device reads it; a server is asked who *)
(* it is.                                                                   *)

BuildPath ==
  /\ job.kind \in {"build", "route"} /\ stage = 1
  /\ LET p == IF job.kind = "build" THEN PathBuilder(job.calls) ELSE ParsePath(job.route)
     IN  wire' = p
  /\ stage' = 2
  /\ UNCHANGED <<job, held, got>>

(* Of a builder that failed there are the bytes before the call that did. *)
DeviceReads ==
  /\ job.kind \in {"build", "route"} /\ stage = 2
  /\ wire.end = "ok" \/ (job.kind = "build" /\ wire.end = "error")
  /\ got' = IF job.kind = "build" THEN SegmentsRead(wire.bytes) ELSE RouteRead(wire.bytes)
  /\ stage' = Done
  /\ UNCHANGED <<job, wire, held>>

AnswerIdentity ==
  /\ job.kind = "identity" /\ stage = 1
  /\ IF job.id.typed = Attributes
     THEN wire' = frameListIdentityResponse(buildListIdentityItemBody(job.id)) /\ stage' = 2
     ELSE wire' = <<>> /\ stage' = Refused
  /\ UNCHANGED <<job, held, got>>

TakeIdentity ==
  /\ job.kind = "identity" /\ stage = 2
  /\ got' = ListIdentity(wire)
  /\ stage' = Done
  /\ UNCHANGED <<job, wire, held>>

ConversationNext ==
  \/ WriteTag \/ ServeWrite \/ ReadTags \/ ServeReads \/ TakeReply
  \/ BuildPath \/ DeviceReads \/ AnswerIdentity \/ TakeIdentity

ConversationSpec == ConversationInit /\ [][ConversationNext]_conversation

-----------------------------------------------------------------------------
(* Properties.                                                              *)

(* The paths that reach the server whole: names of less than 256            *)
(* characters, indexes of less than 65536, a bit that is a bit.             *)
Sound(path) ==
  /\ path.bit \in NoBit..31
  /\ \A k \in DOMAIN path.parts :
       /\ Len(path.parts[k].name) \in 1..255
       /\ \A i \in DOMAIN path.parts[k].idx : path.parts[k].idx[i] < 65536

Indexed(path) == \E k \in DOMAIN path.parts : path.parts[k].idx # <<>>

(* A write sends whole values, and a bool's own: appendIOIPart takes every  *)
(* index of a bool's path for one that counts bits.                         *)
SoundWrite(w) ==
  /\ Sound(w.path) /\ w.path.bit = NoBit
  /\ w.go = "bool" => ~Indexed(w.path)

(* The element that a read is of, and the bit of it: of a bool array the    *)
(* last index counts bits.                                                  *)
Target(r) ==
  LET n == Len(r.path.parts)
      idx == r.path.parts[n].idx
      bits == r.go = "bool" /\ idx # <<>> /\ r.path.bit = NoBit
  IN  [tag |-> IF bits THEN [r.path.parts EXCEPT ![n].idx[Len(idx)] = @ \div 32] ELSE r.path.parts,
       bit |-> IF bits THEN idx[Len(idx)] % 32 ELSE r.path.bit]

(* What the server has and what is written, in order; of a path, the last,  *)
(* or 0 if there is none.                                                   *)
All == job.of.has \o Writes
Latest(parts) == Max({0} \cup {k \in DOMAIN All : All[k].path.parts = parts})

(* One value has a type; several have one if the server had an array there, *)
(* and only arrays have replaced it.                                        *)
HasType(k) ==
  \/ Len(All[k].vals) = 1
  \/ \E j \in 1..Len(job.of.has) :
       /\ j <= k /\ All[j].path.parts = All[k].path.parts
       /\ \A i \in j..k : All[i].path.parts = All[k].path.parts => Len(All[i].vals) > 1

(* The reads that reach the server and come back whole: the count has no    *)
(* low byte that looks like a segment of the path, and of one value it is   *)
(* 1; no string is one to the server as well; of a bool only the last part  *)
(* has indexes, and then no bit behind them, and no bit is of a SINT.       *)
SoundRead(r) ==
  LET n == Latest(Target(r).tag)
      last == Len(r.path.parts)
  IN  /\ Sound(r.path)
      /\ r.count >= 1 /\ r.count % 256 \notin {40, 41, 145}
      /\ (n > 0 /\ Len(All[n].vals) = 1) => r.count = 1
      /\ \A k \in DOMAIN job.of.has : job.of.has[k].go # "string"
      /\ r.go = "bool" =>
           /\ \A k \in DOMAIN All : All[k].go # "int8"
           /\ \A k \in DOMAIN r.path.parts :
                r.path.parts[k].idx # <<>> => k = last /\ r.path.bit = NoBit

(* What a read should give: of what is there, or was last written, as many  *)
(* values as it asks for, or a bit of the first.                            *)
Meant(r) ==
  LET t == Target(r)
      vals == IF Latest(t.tag) = 0 THEN <<>> ELSE All[Latest(t.tag)].vals
  IN  IF t.bit = NoBit THEN SubSeq(vals, 1, Min({r.count, Len(vals)})) ELSE <<(vals[1] \div 2^t.bit) % 2>>

(* The tag is not there, it has fewer values, or the server cannot say of   *)
(* what type they are.                                                      *)
Unreadable(r) ==
  LET n == Latest(Target(r).tag) IN
  n = 0 \/ Len(All[n].vals) < r.count \/ ~HasType(n)

(* What was written under a path is what is read of it, in one message with *)
(* other reads, each value in its own place, if the paths, counts and types *)
(* are sound.  A read of a tag that was not written, of more values than an *)
(* array has, or of an array that the server has no type for leaves the     *)
(* message unanswered, and nothing else does.                               *)
WrittenIsRead ==
  ( /\ job.kind = "exchange"
    /\ \A k \in DOMAIN Writes : SoundWrite(Writes[k])
    /\ \A k \in DOMAIN Reads : SoundRead(Reads[k]) ) =>
  /\ stage = Refused => \E k \in DOMAIN Reads : Unreadable(Reads[k])
  /\ stage = Done =>
       /\ \A k \in DOMAIN Reads : ~Unreadable(Reads[k])
       /\ got = [k \in DOMAIN Reads |-> Meant(Reads[k])]

(* A name that does not end like a bit or an element. *)
PlainName(name) == bit_access_regex(name) = {} /\ array_access_regex(name) = {}

(* The calls whose segment says what was called: of an element the code of  *)
(* 16 bits is used for more, of a name the length is one byte, and an       *)
(* ending that names a bit or an element is not kept.                       *)
ReadAsBuilt(call) ==
  \/ call.do \in {"class", "instance", "attribute"}
  \/ call.do = "element" /\ call.n < 65536
  \/ call.do = "symbolic" /\ Len(call.name) < 256 /\ PlainName(call.name)

(* The calls that set Err: a route that is none, a name that ends in        *)
(* brackets with something else than numbers in them.                       *)
NotBuilt(call) == Outcome(call) # "ok"

(* Ports, whose bit 4 is free to mark an address, each with a link. *)
Hops(route) ==
  /\ Len(route) % 2 = 0
  /\ \A k \in DOMAIN route :
       IF k % 2 = 1 THEN ~IsAddress(route[k]) /\ route[k].n < 16
                    ELSE IsAddress(route[k]) => Len(route[k].chars) < 256

(* What a device reads of a path is what it was built of, if it is built of *)
(* logical segments and plain names, or what was built before the first     *)
(* call that failed; of a route, its hops.                                  *)
PathsRead ==
  stage = Done =>
    /\ ( /\ job.kind = "build"
         /\ \A k \in DOMAIN job.calls : ReadAsBuilt(job.calls[k]) \/ NotBuilt(job.calls[k]) ) =>
         \/ wire.end = "ok" /\ got = job.calls
         \/ /\ wire.end = "error"
            /\ \E k \in DOMAIN job.calls :
                 /\ NotBuilt(job.calls[k]) /\ \A i \in 1..(k - 1) : ~NotBuilt(job.calls[i])
                 /\ got = SubSeq(job.calls, 1, k - 1)
    /\ (job.kind = "route" /\ Hops(job.route)) => got = job.route

(* A client knows a server by what it is, its name cut to 255 characters    *)
(* and an address other than IPv4's as zeros; and only a server that lacks  *)
(* an attribute, or has one of another type, does not answer.               *)
IdentityKept ==
  job.kind = "identity" =>
    /\ stage = Refused => job.id.typed # Attributes
    /\ stage = Done =>
         /\ got.ok
         /\ \A f \in DOMAIN job.id \ {"name", "addr", "typed"} : got[f] = job.id[f]
         /\ got.addr = To4(job.id.addr)
         /\ got.name = SubSeq(job.id.name, 1, Min({255, Len(job.id.name)}))

-----------------------------------------------------------------------------
(* What does not hold.                                                      *)

(* Whatever was written is what is read.  An array that is new to the       *)
(* server is not, nor a bool below an element, nor a bit of an element.     *)
AnyWriteRead ==
  job.kind = "exchange" =>
    /\ stage # Refused
    /\ stage = Done => got = [k \in DOMAIN Reads |-> Meant(Reads[k])]

(* A device reads any path as it was built: an element past 65535 has the   *)
(* code of a smaller one, a port past 15 that of an address, and a name     *)
(* that ends like a bit or an element is written without the number.        *)
AnyPathRead ==
  (stage = Done /\ job.kind \in {"build", "route"}) =>
    wire.end # "ok" \/ got = (IF job.kind = "build" THEN job.calls ELSE job.route)

(* ParsePath returns an error for what is no route: an address that no port *)
(* precedes makes it panic.                                                 *)
RouteReturns == (job.kind = "route" /\ stage = 2) => wire.end # "panic"

=============================================================================
