------------------------------ MODULE Encoding ------------------------------
(***************************************************************************)
(* What Pack and Unpack are for: a struct is read, changed and written      *)
(* back, or an array of it is read into a slice; beside the conversations   *)
(* of the module Conversation.                                              *)
(***************************************************************************)
EXTENDS Packing, Conversation

CONSTANTS
  Shapes,       \* the structs: sequences of fields
  Changes       \* the values a member may be changed to

vars == conversation

Jobs ==
  [kind : {"struct"}, fields : Shapes, ones : BOOLEAN]
    \cup [kind : {"slice"}, fields : Shapes, ones : BOOLEAN]

(* A value of a type: bools and flags all set or all clear. *)
RECURSIVE Sample(_, _, _)
Sample(type, k, ones) ==
  CASE type.kind = "bool" -> IF ones THEN 1 ELSE 0
    [] type.kind = "array" -> [i \in 1..type.len |-> Sample(type.of, 10 * k + i, ones)]
    [] type.kind = "struct" -> [i \in DOMAIN type.fields |-> Sample(type.fields[i].type, 10 * k + i, ones)]
    [] type.kind = "word" -> LET f == IF ones THEN type.flags ELSE {}
                             IN  [flags |-> f, ctl |-> IF type.keeps THEN f ELSE {}, rest |-> 10 * k + 1]
    [] OTHER -> 10 * k + 1

Held(fields, ones) == Sample(Struct(fields), 0, ones)

Two == 2       \* the elements of an array that is read into a slice
Slice(fields) == Array(Struct(fields), Two)

(* What the controller has. *)
InController(j) ==
  IF j.kind = "struct" THEN Layout(j.fields, Held(j.fields, j.ones)).out
  ELSE Image(Slice(j.fields), Sample(Slice(j.fields), 0, j.ones))

StructInit ==
  /\ job \in Jobs
  /\ stage = 1
  /\ wire = <<>>
  /\ held = InController(job)
  /\ got = <<>>

Init == StructInit \/ ConversationInit

-----------------------------------------------------------------------------
(* A struct is read, one member is changed, and it is written back.         *)

ReadStruct ==
  /\ job.kind = "struct" /\ stage = 1
  /\ LET u == Unpack(job.fields, held) IN
       got' = [ok |-> u.ok, vals |-> u.vals]
  /\ stage' = 2
  /\ UNCHANGED <<job, wire, held>>

(* An array of it is read into a slice. *)
ReadSlice ==
  /\ job.kind = "slice" /\ stage = 1
  /\ LET u == UnpackSlice(job.fields, Two, held) IN
       got' = [ok |-> u.ok, vals |-> u.vals]
  /\ stage' = Done
  /\ UNCHANGED <<job, wire, held>>

(* A new value of a member: another number, or a bool the other way; of a   *)
(* control word every flag the other way and another number, the copy of    *)
(* the word left as it is.                                                  *)
Changed(type, v, w) ==
  CASE type.kind = "bool" -> 1 - v
    [] type.kind = "array" -> [v EXCEPT ![1] = IF type.of.kind = "bool" THEN 1 - @
                                               ELSE IF type.of.kind = "scalar" THEN w ELSE @]
    [] type.kind = "word" -> [v EXCEPT !.flags = type.flags \ @, !.rest = w]
    [] type.kind \in {"scalar", "string"} -> w
    [] OTHER -> v

ChangeMember(w) ==
  /\ job.kind = "struct" /\ stage = 2 /\ got.ok
  /\ \E i \in DOMAIN job.fields :
       /\ got' = [got EXCEPT !.vals[i] = Changed(job.fields[i].type, @, w)]
       /\ wire' = <<i, w>>
  /\ stage' = 3
  /\ UNCHANGED <<job, held>>

(* write_udt: the type's members by name, and the packed bytes. *)
WriteStruct ==
  /\ job.kind = "struct" /\ stage = 3
  /\ held' = Pack(job.fields, got.vals)
  /\ wire' = Append(wire, TypeEncode(job.fields))
  /\ stage' = 4
  /\ UNCHANGED <<job, got>>

Next ==
  \/ ReadStruct \/ ReadSlice
  \/ \E w \in Changes : ChangeMember(w)
  \/ WriteStruct
  \/ ConversationNext

Spec == Init /\ [][Next]_vars

-----------------------------------------------------------------------------
(* Properties.                                                              *)

(* Without the padding at its end. *)
Trimmed(b) ==
  LET used == {k \in DOMAIN b : b[k] # BitByte({})} IN SubSeq(b, 1, IF used = {} THEN 0 ELSE Max(used))

(* The members that have a name in the type's encoding, and data in every   *)
(* byte.                                                                    *)
RECURSIVE AllNamed(_)
AllNamed(fields) ==
  \A i \in DOMAIN fields :
    LET f == fields[i]
        elem == IF f.type.kind = "array" THEN f.type.of ELSE f.type
    IN  \/ elem.kind = "scalar"
        \/ f.type.kind = "bool" /\ ~f.nopack /\ f.index = NoIndex
        \/ elem.kind = "struct" /\ AllNamed(elem.fields)

(* The bytes the controller should have after the write. *)
Rewritten ==
  LET v == Held(job.fields, job.ones) IN
  Layout(job.fields, [v EXCEPT ![wire[1]] = Changed(job.fields[wire[1]].type, @, wire[2])]).out

(* The flags of a PID are not written when its copy of the word is not 0. *)
FlagsHidden ==
  LET type == job.fields[wire[1]].type IN type.kind = "word" /\ type.keeps /\ job.ones

(* A struct that Plain allows is read as the controller has it, alone or in *)
(* a slice, and writing it back with one member changed changes that member *)
(* and nothing else; the type it is written as has as many bytes as were    *)
(* packed, without the padding.                                             *)
StructKept ==
  /\ (job.kind = "slice" /\ stage = Done /\ Plain(job.fields)) =>
       got.ok /\ got.vals = Sample(Slice(job.fields), 0, job.ones)
  /\ (job.kind = "struct" /\ Plain(job.fields)) =>
       /\ stage = 2 => got.ok /\ got.vals = Held(job.fields, job.ones)
       /\ (stage = 4 /\ ~FlagsHidden) => Trimmed(held) = Trimmed(Rewritten)
       /\ (stage = 4 /\ job.ones /\ AllNamed(job.fields)) =>
            MapThenSumSet(LAMBDA k : wire[3][k].size, DOMAIN wire[3])
              = LET b == Layout(job.fields, Held(job.fields, TRUE)).out
                IN  Cardinality({k \in DOMAIN b : b[k] # BitByte({})})

-----------------------------------------------------------------------------
(* What does not hold.                                                      *)

(* Every struct is read as the controller has it: the elements of an array  *)
(* of strings or of structs are read without the padding between them.      *)
AnyStructRead ==
  (job.kind = "struct" /\ stage = 2) => got.ok /\ got.vals = Held(job.fields, job.ones)

(* Writing back what was read changes the one member: the bits before a     *)
(* string are lost, and of a PID the flags.                                 *)
AnyStructWritten == (job.kind = "struct" /\ stage = 4) => Trimmed(held) = Trimmed(Rewritten)

=============================================================================
