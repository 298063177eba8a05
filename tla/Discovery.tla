----------------------------- MODULE Discovery ------------------------------
(***************************************************************************)
(* Tag discovery: ListAllTags walks the controller's symbols page by page, *)
(* lists every program's symbols the same way, and describes the templates *)
(* it meets, nested ones first.  KnownTags, KnownPrograms, KnownTypes and  *)
(* KnownTypesByID are maps of the client that every caller, the keepalive  *)
(* among them, shares without a lock.                                      *)
(*                                                                         *)
(* A caller's stack holds one frame per unfinished call.  A symbol is its  *)
(* name, its kind and its template; its instance is its position in its    *)
(* scope.  A template's definition is read in units: one for each member's *)
(* type, one for the name and one for each member's name.                  *)
(***************************************************************************)
EXTENDS Naturals, Sequences, FiniteSets, SequencesExt, TLC

CONSTANTS
  Callers,
  Controller,     \* the scope of the controller's own symbols
  Programs,
  Templates,
  Symbols,        \* the symbols of each scope
  Members,        \* the template of each member of a template, or None
  MinPage,        \* a page has as many symbols, or the last one
  MaxRounds,      \* bound: the 1024 rounds of collectMemberReadPayload
  MaxCalls,       \* bound: calls of ListAllTags
  MaxFaults,      \* bound: exchanges that fail, fall short or are too many
  MaxDownloads,   \* bound: changes of the controller's templates
  None

Scopes == Programs \cup {Controller}
Kinds == {"tag", "hidden", "program"}
Names == UNION {{Symbols[s][i].name : i \in DOMAIN Symbols[s]} : s \in Scopes}

(* Symbol "Program:p" is of kind "program" and has p's name. *)
ASSUME DiscoveryAssumption ==
  /\ Controller \notin Programs /\ None \notin Templates
  /\ \A s \in Scopes : Symbols[s] \in Seq([name : Names, kind : Kinds, template : Templates \cup {None}])
  /\ \A s \in Scopes : \A i \in DOMAIN Symbols[s] :
       Symbols[s][i].kind = "program" => s = Controller /\ Symbols[s][i].name \in Programs
  /\ IsFiniteSet(Templates)
  /\ \A t \in Templates : Members[t] \in Seq(Templates \cup {None})
  /\ MinPage \in Nat /\ MaxRounds \in Nat \ {0}
  /\ MaxCalls \in Nat /\ MaxFaults \in Nat /\ MaxDownloads \in Nat

(* The templates of the members of t, and those with theirs and so on: the  *)
(* least set that has the first, and of each of its templates the members'. *)
Inner(t) == Range(Members[t]) \ {None}
Nested(t) ==
  {x \in Templates :
     \A S \in SUBSET Templates : Inner(t) \subseteq S /\ (\A y \in S : Inner(y) \subseteq S) => x \in S}

(* Templates nest, without cycles. *)
ASSUME NestingAssumption == \A t \in Templates : t \notin Nested(t)

VARIABLES
  KnownPrograms, KnownTags, KnownTypes, KnownTypesByID,
  stack,       \* the calls a caller is in, the innermost one first
  ret,         \* what the call that returned last to a caller gave it
  supported,   \* does the controller list its programs?
  version,     \* of the controller's templates
  began,       \* the version when the caller's ListAllTags began
  calls, faults,
  refused      \* has a page been refused?

known == <<KnownPrograms, KnownTags, KnownTypes, KnownTypesByID>>
vars == <<known, stack, ret, supported, version, began, calls, faults, refused>>

-----------------------------------------------------------------------------
(* A description of a template: how many members were named, and which      *)
(* templates are described in it, in which version.                         *)

Units(t) == 2 * Len(Members[t]) + 1
Part(t, v) == [template |-> t, version |-> v]
Whole(t, v) ==
  [id |-> t, named |-> Len(Members[t]),
   parts |-> {Part(u, v) : u \in {t} \cup Nested(t)}]

Descriptors ==
  [id : Templates, named : Nat,
   parts : SUBSET [template : Templates, version : 0..MaxDownloads]]

(* start: the first instance asked for, and then the last one seen; at: the *)
(* instance at hand; last: the last one of the page.                        *)
AllFrame(start) ==
  [op |-> "all", scope |-> Controller, start |-> start, at |-> start, last |-> start - 1, more |-> FALSE,
   fallback |-> FALSE, programs |-> {}, pc |-> IF start = 1 THEN "programs" ELSE "request"]
SubFrame(p, start) ==
  [op |-> "sub", scope |-> p, start |-> start, at |-> start, last |-> start - 1, more |-> FALSE,
   fallback |-> FALSE, programs |-> {}, pc |-> "request"]
MembersFrame(t) ==
  [op |-> "members", template |-> t, got |-> 0, rounds |-> 0, next |-> 1,
   desc |-> [id |-> t, named |-> 0, parts |-> {}], pc |-> "attr"]

Top(c) == Head(stack[c])
At(c, pc) == stack[c] # <<>> /\ Top(c).pc = pc
Goto(c, frame) == stack' = [stack EXCEPT ![c] = <<frame>> \o Tail(@)]
Call(c, frame, callee) == stack' = [stack EXCEPT ![c] = <<callee, frame>> \o Tail(@)]
Return(c, value) ==
  /\ stack' = [stack EXCEPT ![c] = Tail(@)]
  /\ ret' = [ret EXCEPT ![c] = value]

Nothing == [status |-> "none", desc |-> None]
Ok == [status |-> "ok", desc |-> None]
Error == [status |-> "error", desc |-> None]
Desc(desc) == [status |-> "ok", desc |-> desc]

Fault == faults < MaxFaults /\ faults' = faults + 1

Init ==
  /\ KnownPrograms = {} /\ KnownTags = <<>> /\ KnownTypes = <<>> /\ KnownTypesByID = <<>>
  /\ stack = [c \in Callers |-> <<>>]
  /\ ret = [c \in Callers |-> Nothing]
  /\ supported \in BOOLEAN
  /\ version = 0 /\ began = [c \in Callers |-> 0]
  /\ calls = 0 /\ faults = 0 /\ refused = FALSE

(* The controller's project is changed under the client. *)
Download ==
  /\ version < MaxDownloads
  /\ version' = version + 1
  /\ UNCHANGED <<known, stack, ret, supported, began, calls, faults, refused>>

-----------------------------------------------------------------------------
(* ListAllTags(0). *)
ListAllTags(c) ==
  /\ stack[c] = <<>> /\ calls < MaxCalls
  /\ stack' = [stack EXCEPT ![c] = <<AllFrame(1)>>]
  /\ ret' = [ret EXCEPT ![c] = Nothing]
  /\ began' = [began EXCEPT ![c] = version]
  /\ calls' = calls + 1
  /\ UNCHANGED <<known, supported, version, faults, refused>>

ListAllPrograms(c) ==
  /\ At(c, "programs") /\ supported
  /\ KnownPrograms' = Programs
  /\ Goto(c, [Top(c) EXCEPT !.pc = "subs", !.programs = Programs])
  /\ UNCHANGED <<KnownTags, KnownTypes, KnownTypesByID, ret, supported, version, began, calls, faults, refused>>

(* A CIP status as the answer: programs are to be found among the symbols.  *)
ListAllProgramsFallsBack(c) ==
  /\ At(c, "programs") /\ ~supported
  /\ KnownPrograms' = {}
  /\ Goto(c, [Top(c) EXCEPT !.pc = "request", !.fallback = TRUE])
  /\ UNCHANGED <<KnownTags, KnownTypes, KnownTypesByID, ret, supported, version, began, calls, faults, refused>>

ListAllProgramsFails(c) ==
  /\ At(c, "programs")
  /\ Fault
  /\ Return(c, Error)
  /\ UNCHANGED <<known, supported, version, began, calls, refused>>

(* The loop over the programs, and what the last ListSubTags returned. *)
ListPrograms(c) ==
  /\ At(c, "subs")
  /\ \/ /\ ret[c] = Error
        /\ Return(c, Error)
     \/ /\ ret[c] # Error /\ Top(c).programs = {}
        /\ Goto(c, [Top(c) EXCEPT !.pc = "request"])
        /\ UNCHANGED ret
     \/ /\ ret[c] # Error
        /\ \E p \in Top(c).programs :
             Call(c, [Top(c) EXCEPT !.programs = @ \ {p}], SubFrame(p, 1))
        /\ UNCHANGED ret
  /\ UNCHANGED <<known, supported, version, began, calls, faults, refused>>

-----------------------------------------------------------------------------
(* A page, in ListAllTags and in ListSubTags.                               *)

(* The instances from the start on, as many as the answer holds. *)
Page(c) ==
  /\ At(c, "request")
  /\ LET start == Top(c).start
         end == Len(Symbols[Top(c).scope])
     IN \E last \in start - 1 .. end :
          /\ last - start + 1 >= MinPage \/ last = end
          /\ Goto(c, [Top(c) EXCEPT !.pc = "entries", !.at = start, !.last = last, !.more = last < end])
  /\ UNCHANGED <<known, ret, supported, version, began, calls, faults, refused>>

(* The status of an answer is only compared with that of a partial          *)
(* transfer: any other one, without symbols, is the end of the list.        *)
PageRefused(c) ==
  /\ At(c, "request")
  /\ Fault
  /\ refused' = TRUE
  /\ Goto(c, [Top(c) EXCEPT !.pc = "entries", !.at = Top(c).start, !.last = Top(c).start - 1, !.more = FALSE])
  /\ UNCHANGED <<known, ret, supported, version, began, calls>>

PageFails(c) ==
  /\ At(c, "request")
  /\ Fault
  /\ Return(c, Error)
  /\ UNCHANGED <<known, supported, version, began, calls, refused>>

Entry(c) == Symbols[Top(c).scope][Top(c).at]
PageEnds(c) == Top(c).at > Top(c).last

(* The frame once the instance at hand is dealt with, and is the last seen. *)
Seen(frame) == [frame EXCEPT !.at = @ + 1, !.start = frame.at, !.pc = "entries"]

(* Mutant: only instances that are kept count as seen. *)
PassedUnseen(frame) == [frame EXCEPT !.at = @ + 1]

(* The same for a symbol that is skipped. *)
Passed(frame) == Seen(frame)

AtEntry(c, kind) == At(c, "entries") /\ ~PageEnds(c) /\ Entry(c).kind = kind

(* isValidTag is false; or a program, and programs have been listed.        *)
Skip(c) ==
  /\ \/ AtEntry(c, "hidden")
     \/ AtEntry(c, "program") /\ ~Top(c).fallback
  /\ Goto(c, Passed(Top(c)))
  /\ UNCHANGED <<known, ret, supported, version, began, calls, faults, refused>>

(* A program found among the symbols is listed at once. *)
FoundProgram(c) ==
  /\ AtEntry(c, "program") /\ Top(c).fallback
  /\ KnownPrograms' = KnownPrograms \cup {Entry(c).name}
  /\ Call(c, [Top(c) EXCEPT !.pc = "found"], SubFrame(Entry(c).name, 1))
  /\ UNCHANGED <<KnownTags, KnownTypes, KnownTypesByID, ret, supported, version, began, calls, faults, refused>>

(* The map with a key more, or with another value for it. *)
Put(map, key, value) == [k \in DOMAIN map \cup {key} |-> IF k = key THEN value ELSE map[k]]

Known(name, template, udt) == KnownTags' = Put(KnownTags, name, [template |-> template, udt |-> udt])

(* The symbol of a program that was listed is kept as a tag, too. *)
FoundProgramListed(c) ==
  /\ At(c, "found")
  /\ IF ret[c] = Error
     THEN Return(c, Error) /\ UNCHANGED KnownTags
     ELSE /\ Known(<<"Program", Entry(c).name>>, None, None)
          /\ Goto(c, Seen(Top(c)))
          /\ UNCHANGED ret
  /\ UNCHANGED <<KnownPrograms, KnownTypes, KnownTypesByID, supported, version, began, calls, faults, refused>>

Plain(c) ==
  /\ AtEntry(c, "tag") /\ Entry(c).template = None
  /\ Known(Entry(c).name, None, None)
  /\ Goto(c, Seen(Top(c)))
  /\ UNCHANGED <<KnownPrograms, KnownTypes, KnownTypesByID, ret, supported, version, began, calls, faults, refused>>

(* ListMembers answers from KnownTypesByID, or asks the controller. *)
Structured(c) ==
  /\ AtEntry(c, "tag") /\ Entry(c).template # None
  /\ IF Entry(c).template \in DOMAIN KnownTypesByID
     THEN /\ ret' = [ret EXCEPT ![c] = Desc(KnownTypesByID[Entry(c).template])]
          /\ Goto(c, [Top(c) EXCEPT !.pc = "described"])
     ELSE /\ Call(c, [Top(c) EXCEPT !.pc = "described"], MembersFrame(Entry(c).template))
          /\ UNCHANGED ret
  /\ UNCHANGED <<known, supported, version, began, calls, faults, refused>>

(* A tag whose template could not be described is kept without it. *)
Described(c) ==
  /\ At(c, "described")
  /\ IF ret[c] = Error
     THEN Known(Entry(c).name, Entry(c).template, None) /\ UNCHANGED KnownTypes
     ELSE /\ Known(Entry(c).name, Entry(c).template, ret[c].desc)
          /\ KnownTypes' = Put(KnownTypes, ret[c].desc.id, ret[c].desc)
  /\ Goto(c, Seen(Top(c)))
  /\ ret' = [ret EXCEPT ![c] = Nothing]
  /\ UNCHANGED <<KnownPrograms, KnownTypesByID, supported, version, began, calls, faults, refused>>

(* Mutant: a partial transfer is taken for the end. *)
ContinuesNever(frame) == FALSE

Continues(frame) == frame.more

nextListInstanceStart(lastInstance) == lastInstance

(* The call for the rest is the last thing a call does: its frame takes the *)
(* caller's place.  It starts at the last instance seen.  A ListAllTags     *)
(* that starts at 1 lists the programs again; one that does not has         *)
(* forgotten that it has to look for them.                                  *)
PageDone(c) ==
  /\ At(c, "entries") /\ PageEnds(c)
  /\ IF Continues(Top(c))
     THEN /\ Goto(c, IF Top(c).op = "all" THEN AllFrame(nextListInstanceStart(Top(c).start))
                     ELSE SubFrame(Top(c).scope, nextListInstanceStart(Top(c).start)))
          /\ UNCHANGED ret
     ELSE Return(c, Ok)
  /\ UNCHANGED <<known, supported, version, began, calls, faults, refused>>

-----------------------------------------------------------------------------
(* ListMembers.  Every answer is of the controller's version at the time.   *)

Answered(frame) == [frame EXCEPT !.desc.parts = @ \cup {Part(frame.template, version)}]

(* GetTemplateInstanceAttr: the sizes of the template. *)
TemplateAttr(c) ==
  /\ At(c, "attr")
  /\ Goto(c, [Answered(Top(c)) EXCEPT !.pc = "read"])
  /\ UNCHANGED <<known, ret, supported, version, began, calls, faults, refused>>

(* An exchange of ListMembers fails, or its answer is not as expected: a    *)
(* bad status, a size too small, a partial transfer of nothing.             *)
MembersFails(c) ==
  /\ At(c, "attr") \/ At(c, "read")
  /\ Fault
  /\ Return(c, Error)
  /\ UNCHANGED <<known, supported, version, began, calls, refused>>

(* Mutant: the chunk before is not counted. *)
OffsetOfChunk(frame, k) == k

Offset(frame, k) == frame.got + k

Remaining(c) == Units(Top(c).template) - Top(c).got

(* A round of collectMemberReadPayload that ends in a partial transfer. *)
Chunk(c) ==
  /\ At(c, "read")
  /\ \E k \in 1 .. Remaining(c) :
       IF Top(c).rounds + 1 = MaxRounds
       THEN Fault /\ Return(c, Error)
       ELSE /\ Goto(c, [Answered(Top(c)) EXCEPT !.got = Offset(Top(c), k), !.rounds = @ + 1,
                                                !.pc = IF k = Remaining(c) THEN "parse" ELSE "read"])
            /\ UNCHANGED <<ret, faults>>
  /\ UNCHANGED <<known, supported, version, began, calls, refused>>

(* The last round has status OK, whether or not it has all that remains. *)
LastChunk(c) ==
  /\ At(c, "read")
  /\ \E k \in 0 .. Remaining(c) :
       /\ IF k < Remaining(c) THEN Fault ELSE UNCHANGED faults
       /\ Goto(c, [Answered(Top(c)) EXCEPT !.got = Offset(Top(c), k), !.pc = "parse"])
  /\ UNCHANGED <<known, ret, supported, version, began, calls, refused>>

(* The members' types and the template's name must be there. *)
Parse(c) ==
  /\ At(c, "parse")
  /\ IF Top(c).got < Len(Members[Top(c).template]) + 1
     THEN Return(c, Error)
     ELSE Goto(c, [Top(c) EXCEPT !.pc = "fields"]) /\ UNCHANGED ret
  /\ UNCHANGED <<known, supported, version, began, calls, faults, refused>>

Member(c) == Members[Top(c).template][Top(c).next]
AtMember(c) == At(c, "fields") /\ Top(c).next <= Len(Members[Top(c).template])
MemberNamed(c) == Top(c).got >= Len(Members[Top(c).template]) + 1 + Top(c).next

(* The frame with its next member named, and described in parts. *)
Filled(frame, parts) ==
  [frame EXCEPT !.next = @ + 1, !.pc = "fields", !.desc.named = @ + 1, !.desc.parts = @ \cup parts]

(* A member whose name is missing stays empty. *)
FieldMissing(c) ==
  /\ AtMember(c) /\ ~MemberNamed(c)
  /\ Goto(c, [Top(c) EXCEPT !.next = @ + 1])
  /\ UNCHANGED <<known, ret, supported, version, began, calls, faults, refused>>

Field(c) ==
  /\ AtMember(c) /\ MemberNamed(c)
  /\ \/ /\ Member(c) = None
        /\ Goto(c, Filled(Top(c), {}))
     \/ /\ Member(c) \in DOMAIN KnownTypesByID
        /\ Goto(c, Filled(Top(c), KnownTypesByID[Member(c)].parts))
     \/ /\ Member(c) \in Templates \ DOMAIN KnownTypesByID
        /\ Call(c, [Top(c) EXCEPT !.pc = "nested"], MembersFrame(Member(c)))
  /\ UNCHANGED <<known, ret, supported, version, began, calls, faults, refused>>

(* A nested template that could not be described is left out. *)
FieldDescribed(c) ==
  /\ At(c, "nested")
  /\ Goto(c, Filled(Top(c), IF ret[c] = Error THEN {} ELSE ret[c].desc.parts))
  /\ ret' = [ret EXCEPT ![c] = Nothing]
  /\ UNCHANGED <<known, supported, version, began, calls, faults, refused>>

MembersDone(c) ==
  /\ At(c, "fields") /\ Top(c).next > Len(Members[Top(c).template])
  /\ KnownTypesByID' = Put(KnownTypesByID, Top(c).template, Top(c).desc)
  /\ Return(c, Desc(Top(c).desc))
  /\ UNCHANGED <<KnownPrograms, KnownTags, KnownTypes, supported, version, began, calls, faults, refused>>

-----------------------------------------------------------------------------
(* A caller's step once it has called ListAllTags. *)
Step(c) ==
  \/ ListAllPrograms(c) \/ ListAllProgramsFallsBack(c) \/ ListAllProgramsFails(c) \/ ListPrograms(c)
  \/ Page(c) \/ PageRefused(c) \/ PageFails(c) \/ PageDone(c)
  \/ Skip(c) \/ FoundProgram(c) \/ FoundProgramListed(c)
  \/ Plain(c) \/ Structured(c) \/ Described(c)
  \/ TemplateAttr(c) \/ MembersFails(c) \/ Chunk(c) \/ LastChunk(c) \/ Parse(c)
  \/ FieldMissing(c) \/ Field(c) \/ FieldDescribed(c) \/ MembersDone(c)

Next == Download \/ \E c \in Callers : ListAllTags(c) \/ Step(c)

Spec == Init /\ [][Next]_vars

(* Every exchange ends, with an answer or with the socket's timeout. *)
FairSpec == Spec /\ \A c \in Callers : WF_vars(Step(c))

-----------------------------------------------------------------------------
ListFrames ==
  [op : {"all"}, scope : {Controller}, start : Nat \ {0}, at : Nat \ {0}, last : Nat, more : BOOLEAN,
   fallback : BOOLEAN, programs : SUBSET Programs, pc : {"programs", "subs", "request", "entries", "found", "described"}]
  \cup
  [op : {"sub"}, scope : Programs, start : Nat \ {0}, at : Nat \ {0}, last : Nat, more : BOOLEAN,
   fallback : {FALSE}, programs : {{}}, pc : {"request", "entries", "described"}]

MembersFrames ==
  [op : {"members"}, template : Templates, got : Nat, rounds : 0 .. MaxRounds - 1, next : Nat \ {0},
   desc : Descriptors, pc : {"attr", "read", "parse", "fields", "nested"}]

(* The state is well formed: a caller of ListMembers waits for it, ListMembers *)
(* nests no deeper than templates do, and no more is read of a template than   *)
(* it has (ListAllTags, ListSubTags, collectMemberReadPayload).                *)
TypeOK ==
  /\ KnownPrograms \subseteq Programs
  /\ DOMAIN KnownTypesByID \subseteq Templates
  /\ \A t \in DOMAIN KnownTypesByID : KnownTypesByID[t] \in Descriptors
  /\ DOMAIN KnownTypes \subseteq DOMAIN KnownTypesByID
  /\ DOMAIN KnownTags \subseteq Names \cup {<<"Program", p>> : p \in Programs}
  /\ ret \in [Callers -> [status : {"none", "ok", "error"}, desc : Descriptors \cup {None}]]
  /\ stack \in [Callers -> Seq(ListFrames \cup MembersFrames)]
  /\ supported \in BOOLEAN /\ version \in 0..MaxDownloads /\ faults \in 0..MaxFaults /\ refused \in BOOLEAN
  /\ \A c \in Callers :
       /\ Len(stack[c]) <= 2 + Cardinality(Templates)
       /\ \A i \in DOMAIN stack[c] :
            stack[c][i].op = "members" =>
              /\ stack[c][i].got <= Units(stack[c][i].template)
              /\ stack[c][i].next <= Len(Members[stack[c][i].template]) + 1
              /\ i < Len(stack[c]) /\ stack[c][i + 1].pc \in {"described", "nested"}

Listed(c) == stack[c] = <<>> /\ ret[c] = Ok
Visible(s) == {i \in DOMAIN Symbols[s] : Symbols[s][i].kind = "tag"}

(* A ListAllTags that returns nil has found every tag of every scope, across *)
(* pages that overlap, hidden symbols and tags it could not describe, if the *)
(* controller lists its programs and refused no page (ListAllTags).          *)
Complete ==
  (\E c \in Callers : Listed(c)) /\ supported /\ ~refused =>
    \A s \in Scopes : \A i \in Visible(s) : Symbols[s][i].name \in DOMAIN KnownTags

(* Unless an exchange failed or the controller changed, every description is *)
(* whole, with all nested ones, however it was cut into chunks, and a tag    *)
(* has that of its own template, from the cache or not (ListMembers).        *)
TypesWhole ==
  faults = 0 /\ version = 0 =>
    /\ \A t \in DOMAIN KnownTypesByID : KnownTypesByID[t] = Whole(t, 0)
    /\ \A t \in DOMAIN KnownTypes : KnownTypes[t] = Whole(t, 0)
    /\ \A n \in DOMAIN KnownTags :
         KnownTags[n].template # None => KnownTags[n].udt = Whole(KnownTags[n].template, 0)

(* Every ListAllTags ends: pages that begin with the last instance of the    *)
(* one before go forward, whatever is skipped, and no partial transfer of a  *)
(* template is asked for for ever (ListAllTags, collectMemberReadPayload).   *)
ListingEnds == \A c \in Callers : (stack[c] # <<>>) ~> (stack[c] = <<>>)

(* What src/listallprograms.go:28 promises where programs cannot be listed:  *)
(* "Use ListAllTags to attempt fallback." *)
FallbackComplete ==
  (\E c \in Callers : Listed(c)) /\ ~refused => KnownPrograms = Programs

(* What src/connect.go:250 says of a keepalive that sees the controller      *)
(* change: "controller change detected. re-analyzing types".  After a        *)
(* ListAllTags that began after the change the types are the controller's.   *)
Reanalyzed ==
  faults = 0 =>
    \A c \in Callers : Listed(c) /\ began[c] = version =>
      \A n \in DOMAIN KnownTags :
        KnownTags[n].template # None => KnownTags[n].udt = Whole(KnownTags[n].template, version)

(* What src/listalltags.go:74-75 says of a call that succeeds: it builds "a     *)
(* complete inventory of available tags".                                    *)
InventoryComplete ==
  (\E c \in Callers : Listed(c)) /\ supported =>
    \A s \in Scopes : \A i \in Visible(s) : Symbols[s][i].name \in DOMAIN KnownTags

=============================================================================
