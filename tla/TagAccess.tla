------------------------------ MODULE TagAccess -----------------------------
(***************************************************************************)
(* Goroutines that read and write tags one call at a time through a shared *)
(* client: Read (in fragments if the controller sends them), ReadMulti and  *)
(* ReadList, Write, WriteMap, WriteMulti, GetAttrSingle and                 *)
(* GenericCIPMessage.  What they share is the cache of the tags' paths;     *)
(* what they meet is a controller whose values change, that may be          *)
(* downloaded to, and an exchange that may fail before or after the         *)
(* controller has acted.                                                    *)
(*                                                                         *)
(* Data is the cells of a tag's value, each marked with where it came from. *)
(* What one exchange goes through on the wire is the module Client's.       *)
(***************************************************************************)
EXTENDS Naturals, Sequences, FiniteSets, SequencesExt

CONSTANTS
  Callers,
  Tags,           \* the controller's tags, all of 32-bit elements
  Paths,          \* the tag paths in use, see Path
  Uses,           \* what is asked of a path, see Use
  Lists,          \* the sequences of uses that a ReadMulti or a WriteMap is given
  Instances,      \* the instance numbers a tag may have
  FirstSymbol,    \* the instances of the tags before any download
  Kinds,          \* by caller: the calls that it makes
  NewFirmware,    \* is the firmware above 20, so that instances are used?
  ConnectionSize, \* the agreed size of a message
  MaxRounds,      \* bound on continuations, 1024 in the code
  Cuts,           \* bound: how many cells a part of a value may have
  MaxCalls,       \* bound on the calls of a caller
  MaxUpdates,     \* bound on the values a tag has had when another is given it
  MaxDownloads    \* bound on the downloads to the controller

NoIdx == 100000   \* no element is asked for

(* A path: the element it asks for, and the bytes it takes as a name.  A    *)
(* use of it: the Go type, and how many elements; of a BOOL it is one.      *)
Path == [tag : Tags, idx : Nat, name : Nat]
Use == [path : Paths, type : {"DINT", "BOOL"}, size : Nat \ {0}]

AllKinds == {"Read", "ReadMulti", "ReadList", "Write", "WriteMap", "WriteMulti",
             "GetAttrSingle", "GenericCIPMessage"}

ASSUME TagAccessAssumption ==
  /\ Paths \subseteq Path /\ Uses \subseteq Use /\ Lists \subseteq Seq(Uses) \ {<<>>}
  /\ \A u \in Uses : u.type = "BOOL" => u.size = 1 /\ u.path.idx # NoIdx
  /\ Kinds \in [Callers -> SUBSET AllKinds]
  /\ Instances \subseteq Nat \ {0} /\ Cuts \subseteq Nat
  /\ FirstSymbol \in [Tags -> Instances] /\ \A t, u \in Tags : t # u => FirstSymbol[t] # FirstSymbol[u]
  /\ ConnectionSize \in Nat /\ MaxRounds \in Nat
  /\ MaxCalls \in Nat /\ MaxUpdates \in Nat /\ MaxDownloads \in Nat

VARIABLES
  value,     \* the controller: how often a tag was given a new value
  symbol,    \* the controller: the instance of each tag
  downloads,
  known,     \* client.KnownTags: instances as last listed, NoInstance if not
  cache,     \* client.ioi_cache
  call       \* by caller: the call it is in

vars == <<value, symbol, downloads, known, cache, call>>

NoInstance == 0

(* What a path is encoded as: the tag by name, or by instance; the element; *)
(* the bit of it that is wanted; the bytes it takes.                        *)
NoIOI == [via |-> "none", tag |-> 0, elem |-> NoIdx, bit |-> NoIdx, len |-> 0]

(* A cell of data, or the error that stands for one. *)
Cell(t, e, k, v, b) == [tag |-> t, elem |-> e, at |-> k, ver |-> v, bit |-> b]
Bad == <<>>

(* A call: its uses; the positions where the lists end that are still to be *)
(* read, one after the other; the encoded paths of the message; the data so *)
(* far; the values the tags had when it began; what it changed; was a part  *)
(* of it refused; did a path of it name another tag?                        *)
Idle == [kind |-> "none", pc |-> "idle", uses |-> <<>>, ends |-> <<>>, ioi |-> <<>>,
         data |-> <<>>, rounds |-> 0, results |-> <<>>, began |-> [t \in Tags |-> 0], did |-> {},
         refused |-> FALSE, stale |-> FALSE, calls |-> 0]

Init ==
  /\ value = [t \in Tags |-> 0]
  /\ symbol = FirstSymbol
  /\ downloads = 0
  /\ known \in {[t \in Tags |-> NoInstance], symbol}
  /\ cache = [p \in Paths |-> NoIOI]
  /\ call = [c \in Callers |-> Idle]

-----------------------------------------------------------------------------
(* Paths.                                                                   *)

(* By name.  Of a BOOL array the index counts bits of the elements. *)
newSymbolicIOI(u) ==
  LET bits == u.type = "BOOL" /\ u.path.idx # NoIdx
  IN  [via |-> "name", tag |-> u.path.tag, len |-> u.path.name,
       elem |-> IF bits THEN u.path.idx \div 32 ELSE u.path.idx,
       bit |-> IF bits THEN u.path.idx % 32 ELSE NoIdx]

(* An indexed path is not found: its base is taken to be "tag[]". *)
findKnownTagPrefix(u) == known[u.path.tag] # NoInstance /\ u.path.idx = NoIdx

newKnownTagIOI(u) ==
  [via |-> "instance", tag |-> known[u.path.tag], elem |-> NoIdx, bit |-> NoIdx,
   len |-> IF known[u.path.tag] < 256 THEN 4 ELSE 6]

(* The instance if it is shorter than what is cached; what is cached; the   *)
(* name.  The cache knows the path only, neither its type nor its age.      *)
newIOI(old, u) ==
  LET cached == IF old # NoIOI THEN old ELSE newSymbolicIOI(u) IN
  IF NewFirmware /\ findKnownTagPrefix(u) /\ newKnownTagIOI(u).len < cached.len
  THEN newKnownTagIOI(u) ELSE cached

(* The tag that the controller finds for an encoded path, if any. *)
Found(ioi) == IF ioi.via = "name" THEN {ioi.tag} ELSE {t \in Tags : symbol[t] = ioi.tag}

(* An instance that the last download gave to another tag. *)
Stale(ioi, u) == Found(ioi) # {u.path.tag}

-----------------------------------------------------------------------------
(* The controller.                                                          *)

Update(t) ==
  /\ \A u \in Tags : value[u] < MaxUpdates
  /\ value' = [value EXCEPT ![t] = @ + 1]
  /\ UNCHANGED <<symbol, downloads, known, cache, call>>

(* A new program: tags keep their names and get other instances. *)
Download ==
  /\ downloads < MaxDownloads
  /\ downloads' = downloads + 1
  /\ symbol' \in {s \in [Tags -> Instances] : \A t, u \in Tags : t # u => s[t] # s[u]}
  /\ symbol' # symbol
  /\ UNCHANGED <<value, known, cache, call>>

(* ListAllTags: the known tags are those of the controller. *)
Relist ==
  /\ known # symbol
  /\ known' = symbol
  /\ UNCHANGED <<value, symbol, downloads, cache, call>>

-----------------------------------------------------------------------------
(* A call begins: it is connected, or it is not and returns an error.       *)
(* WriteMap and GenericCIPMessage do not look.                              *)
Begin(c, kind, us) ==
  /\ call[c].pc \in {"idle", "done", "error", "panic"} /\ call[c].calls < MaxCalls
  /\ \/ /\ kind \notin {"WriteMap", "GenericCIPMessage"}
        /\ call' = [call EXCEPT ![c] = [Idle EXCEPT !.kind = kind, !.pc = "error",
                                                    !.calls = call[c].calls + 1]]
     \/ call' = [call EXCEPT ![c] =
          [Idle EXCEPT !.kind = kind, !.pc = IF kind = "ReadList" THEN "count" ELSE "plan",
                       !.uses = us, !.ends = <<Len(us)>>, !.began = value,
                       !.calls = call[c].calls + 1]]
  /\ UNCHANGED <<value, symbol, downloads, known, cache>>

(* What this message asks for: the next of the uses, to the end of a list. *)
Asked(c) == SubSeq(call[c].uses, Len(call[c].results) + 1, Head(call[c].ends))

(* The list that this message asks for is split after n. *)
SplitAfter(c, n) == <<Len(call[c].results) + n>> \o call[c].ends

(* Sizes: a request of the multiple service, and what its reply may be. *)
ItemSize(ioi) == 2 + ioi.len + 2
SizeOf(ioi) == MapThenSumSet(LAMBDA k : ItemSize(ioi[k]), DOMAIN ioi)
Size(type) == IF type = "BOOL" THEN 1 ELSE 4
ReplySize(us) == MapThenSumSet(LAMBDA k : 6 + Size(us[k].type) * us[k].size, DOMAIN us)

Encoded(c) == Len(call[c].ioi)

(* The next path of the list is encoded: newIOI, under its lock. *)
NextUse(c) == Asked(c)[Encoded(c) + 1]
NextIOI(c) == newIOI(cache[NextUse(c).path], NextUse(c))

(* ReadList counts as many as are sure to fit, and one at least. *)
countIOIsThatFit(c) ==
  LET us == Asked(c)
      k == Encoded(c) + 1
      all == Append(call[c].ioi, NextIOI(c))
      over == \/ 30 + 2 * k + SizeOf(all) >= ConnectionSize
              \/ 28 + 2 * k + ReplySize(SubSeq(us, 1, k)) >= ConnectionSize
      n == IF over /\ k > 1 THEN k - 1 ELSE k
  IN
  /\ call[c].pc = "count"
  /\ cache' = [cache EXCEPT ![NextUse(c).path] = NextIOI(c)]
  /\ \/ /\ over \/ k = Len(us)
        /\ call' = [call EXCEPT ![c].pc = "plan", ![c].ioi = <<>>,
                                ![c].ends = IF n < Len(us) THEN SplitAfter(c, n) ELSE @]
     \/ /\ ~over /\ k < Len(us)
        /\ call' = [call EXCEPT ![c].ioi = all]
  /\ UNCHANGED <<value, symbol, downloads, known>>

EncodePath(c) ==
  /\ call[c].pc = "plan" /\ Encoded(c) < Len(Asked(c))
  /\ cache' = [cache EXCEPT ![NextUse(c).path] = NextIOI(c)]
  /\ call' = [call EXCEPT ![c].ioi = Append(@, NextIOI(c))]
  /\ UNCHANGED <<value, symbol, downloads, known>>

(* All paths are encoded, and are sent.  A list too long for one message is *)
(* split at the first item that does not fit: what is before it comes first.*)
BuildRequest(c) ==
  LET n == Len(Asked(c))
      over == {i \in 1..n : SizeOf(SubSeq(call[c].ioi, 1, i)) + 6 > ConnectionSize}
      splits == call[c].kind \in {"ReadMulti", "ReadList"} /\ over # {}
  IN
  /\ call[c].pc = "plan" /\ Encoded(c) = n
  /\ \/ /\ splits
        /\ call' = [call EXCEPT ![c].ioi = <<>>, ![c].ends = SplitAfter(c, Min(over) - 1)]
     \/ /\ ~splits
        /\ call' = [call EXCEPT ![c].pc = "ask"]
  /\ UNCHANGED <<value, symbol, downloads, known, cache>>

-----------------------------------------------------------------------------
(* One message and its answer.                                              *)

(* What is left of a call that returned. *)
Over(r) == [r EXCEPT !.ioi = <<>>, !.ends = <<>>, !.data = <<>>, !.rounds = 0]
Failed(c) == [Idle EXCEPT !.kind = call[c].kind, !.pc = "error", !.calls = call[c].calls]

(* The exchange fails before the controller acts on it; or it was a read,   *)
(* and fails later or gets a status that is an error.                       *)
ExchangeFails(c) ==
  /\ call[c].pc = "ask"
  /\ call' = [call EXCEPT ![c] = Failed(c)]
  /\ UNCHANGED <<value, symbol, downloads, known, cache>>

(* Mutant: every part is asked for from the start. *)
OffsetStuck(c) == 0

Offset(c) == Len(call[c].data)

CellsOf(t, ioi, u) == [k \in 1..u.size |-> Cell(t, ioi.elem, k, value[t], ioi.bit)]

AnyStale(c) == \E k \in DOMAIN call[c].ioi : Stale(call[c].ioi[k], Asked(c)[k])

RoundsLeft(c) == call[c].rounds <= MaxRounds

(* Mutant: the count is too narrow for the bound. *)
RoundWraps(c) == (call[c].rounds + 1) % (MaxRounds + 1)

NextRound(c) == call[c].rounds + 1

(* Read_single: a part of the value, or the rest of it.  A value of another *)
(* type than was asked for is an error, unless a bit of it was asked for.   *)
Read_single(c) ==
  LET u == call[c].uses[1]
      ioi == call[c].ioi[1]
      n == u.size
  IN
  /\ call[c].pc = "ask" /\ call[c].kind = "Read" /\ RoundsLeft(c)
  /\ \E t \in Found(ioi), upto \in 0..n :
       LET data == call[c].data \o SubSeq(CellsOf(t, ioi, u), Offset(c) + 1, upto)
           next == [call[c] EXCEPT !.data = data, !.rounds = NextRound(c),
                                   !.stale = @ \/ AnyStale(c)]
       IN
       \/ /\ upto < n /\ upto - Offset(c) \in Cuts       \* PartialTransfer
          /\ call' = [call EXCEPT ![c] = next]
       \/ /\ upto = n
          /\ call' = [call EXCEPT ![c] =
               IF u.type = "DINT" \/ ioi.bit # NoIdx
               THEN Over([next EXCEPT !.pc = "done", !.results = <<data>>])
               ELSE Failed(c)]
  /\ UNCHANGED <<value, symbol, downloads, known, cache>>

TooManyRounds(c) ==
  /\ call[c].pc = "ask" /\ call[c].kind = "Read" /\ ~RoundsLeft(c)
  /\ call' = [call EXCEPT ![c] = Failed(c)]
  /\ UNCHANGED <<value, symbol, downloads, known, cache>>

(* A bool is made of a number where a bit was asked for. *)
HasType(u, data) == u.type = "DINT" \/ \A k \in DOMAIN data : data[k].bit # NoIdx

(* ReadMulti sets a field for each result, and cannot set one to an error   *)
(* or to a value of another type; ReadList returns them all.                *)
Returned(c, results) ==
  IF /\ call[c].kind = "ReadMulti"
     /\ \E k \in DOMAIN results : results[k] = Bad \/ ~HasType(call[c].uses[k], results[k])
  THEN "panic" ELSE "done"

(* readList: an answer for each tag of the message, its value or an error. *)
readList(c) ==
  LET us == Asked(c)
      ioi == call[c].ioi
      Answer(k) == {Bad} \cup {CellsOf(t, ioi[k], us[k]) : t \in Found(ioi[k])}
  IN
  /\ call[c].pc = "ask" /\ call[c].kind \in {"ReadMulti", "ReadList"}
  /\ \E reply \in [DOMAIN us -> UNION {Answer(k) : k \in DOMAIN us}] :
       /\ \A k \in DOMAIN us : reply[k] \in Answer(k)
       /\ LET all == call[c].results \o reply
              rest == Tail(call[c].ends)
          IN call' = [call EXCEPT ![c] = [call[c] EXCEPT
                  !.results = all, !.ends = rest, !.ioi = <<>>,
                  !.stale = call[c].stale \/ AnyStale(c),
                  !.pc = CASE rest = <<>> -> Returned(c, all)
                           [] rest # <<>> /\ call[c].kind = "ReadList" -> "count"
                           [] OTHER -> "plan"]]
  /\ UNCHANGED <<value, symbol, downloads, known, cache>>

(* Mutant: the status of the answer is not looked at. *)
StatusUnchecked(c, refused) == "done"

(* How a call that changes something returns: Write and GenericCIPMessage   *)
(* look at the status of the answer, WriteMap and GetAttrSingle do not.     *)
StatusChecked(c, refused) ==
  IF refused /\ call[c].kind \in {"Write", "GenericCIPMessage"} THEN "error" ELSE "done"

(* A WriteMap says one element, always. *)
Elements(c, u) == IF call[c].kind = "Write" THEN u.size ELSE 1

(* Write, and WriteMap in one message whatever its size: the controller     *)
(* carries out what it does not refuse, and its answer may be lost.         *)
WriteTags(c) ==
  LET us == Asked(c)
      ioi == call[c].ioi
  IN
  /\ call[c].pc = "ask" /\ call[c].kind \in {"Write", "WriteMap", "WriteMulti"}
  /\ \E done \in SUBSET {k \in DOMAIN us : Found(ioi[k]) # {}}, answered \in BOOLEAN :
       LET hit == UNION {Found(ioi[k]) : k \in done}
           refused == done # DOMAIN us
           did == UNION {{<<t, ioi[k].elem, Elements(c, us[k])>> : t \in Found(ioi[k])} : k \in done}
       IN
       /\ value' = [t \in Tags |-> IF t \in hit THEN value[t] + 1 ELSE value[t]]
       /\ call' = [call EXCEPT ![c] =
             IF answered THEN Over([call[c] EXCEPT !.did = did, !.refused = refused,
                                      !.stale = AnyStale(c), !.pc = StatusChecked(c, refused)])
             ELSE Failed(c)]
  /\ UNCHANGED <<symbol, downloads, known, cache>>

(* An answer to a message without a tag, which the controller may refuse. *)
Answered(c) ==
  /\ call[c].pc = "ask"
  /\ \E refused \in BOOLEAN :
       call' = [call EXCEPT ![c].refused = refused, ![c].pc = StatusChecked(c, refused)]
  /\ UNCHANGED <<value, symbol, downloads, known, cache>>

GetAttrSingle(c) == call[c].kind = "GetAttrSingle" /\ Answered(c)

GenericCIPMessage(c) == call[c].kind = "GenericCIPMessage" /\ Answered(c)

-----------------------------------------------------------------------------
(* A call's own steps. *)
Step(c) ==
  \/ countIOIsThatFit(c) \/ EncodePath(c) \/ BuildRequest(c) \/ ExchangeFails(c) \/ Read_single(c)
  \/ TooManyRounds(c) \/ readList(c) \/ WriteTags(c)
  \/ GetAttrSingle(c) \/ GenericCIPMessage(c)

(* The fields of a struct as WriteMulti gives them to WriteMap: in the      *)
(* order of a Go map, which is any, and a field that is an array not at all.*)
multi_to_dict(us) ==
  LET fields == {us[k] : k \in {j \in DOMAIN us : us[j].size = 1}} IN
  {s \in UNION {[1..n -> fields] : n \in 0..Len(us)} : Range(s) = fields /\ IsInjective(s)}

DintLists == {us \in Lists : \A k \in DOMAIN us : us[k].type = "DINT"}

Arguments(kind) ==
  CASE kind = "Read" -> {<<u>> : u \in Uses}
    [] kind = "Write" -> {<<u>> : u \in {w \in Uses : w.type = "DINT"}}
    [] kind \in {"ReadMulti", "ReadList"} -> Lists
    [] kind = "WriteMap" -> DintLists
    [] kind = "WriteMulti" -> UNION {multi_to_dict(us) : us \in DintLists}
    [] OTHER -> {<<>>}

Next ==
  \/ \E c \in Callers : Step(c)
  \/ \E c \in Callers : \E kind \in Kinds[c] : \E us \in Arguments(kind) : Begin(c, kind, us)
  \/ \E t \in Tags : Update(t)
  \/ Download
  \/ Relist

Spec == Init /\ [][Next]_vars

(* A goroutine that is in a call goes on with it. *)
FairSpec == Spec /\ \A c \in Callers : WF_vars(Step(c))

-----------------------------------------------------------------------------
(* Properties.                                                              *)

(* Encoded paths, cells, and the calls that a goroutine may be in. *)
IOIs == [via : {"none", "name", "instance"}, tag : Tags \cup Instances \cup {0},
         elem : Nat, bit : Nat, len : Nat]
Cells == [tag : Tags, elem : Nat, at : Nat \ {0}, ver : Nat, bit : Nat]
Calls == [kind : AllKinds \cup {"none"}, uses : Seq(Uses), ends : Seq(Nat), ioi : Seq(IOIs),
          pc : {"idle", "count", "plan", "ask", "done", "error", "panic"},
          data : Seq(Cells), rounds : Nat, results : Seq(Seq(Cells)), began : [Tags -> Nat],
          did : SUBSET (Tags \X Nat \X Nat), refused : BOOLEAN, stale : BOOLEAN, calls : Nat]

(* The state is well formed: the cache has paths by name or by instance and *)
(* a call is where a call can be (Read, readList, Write, GenericCIPMessage).*)
TypeOK ==
  /\ value \in [Tags -> Nat] /\ downloads \in 0..MaxDownloads
  /\ symbol \in [Tags -> Instances] /\ known \in [Tags -> Instances \cup {NoInstance}]
  /\ cache \in [Paths -> IOIs]
  /\ call \in [Callers -> Calls]

(* What a result must be: the value of the tag that was asked for, whole    *)
(* and in order, of the element and the bit asked for, and each cell of it  *)
(* as the tag held it at some time since the call began.                    *)
IsValueOf(c, data, u) ==
  LET bits == u.type = "BOOL" IN
  /\ Len(data) = u.size
  /\ \A k \in DOMAIN data :
       /\ data[k].tag = u.path.tag /\ data[k].at = k
       /\ data[k].elem = (IF bits THEN u.path.idx \div 32 ELSE u.path.idx)
       /\ data[k].bit = (IF bits THEN u.path.idx % 32 ELSE NoIdx)
       /\ data[k].ver \in call[c].began[u.path.tag] .. value[u.path.tag]

(* A field that a later one of the same tag keeps from being set. *)
Shadowed(c, k) ==
  call[c].kind = "ReadMulti" /\ \E j \in DOMAIN call[c].uses :
                                  j > k /\ call[c].uses[j].path = call[c].uses[k].path

(* Every value a read returns is its own, whichever parts it came in, lists *)
(* it was split into, or other callers used the cache meanwhile; provided   *)
(* that no instance it used was given to another tag by a download.         *)
OwnData ==
  \A c \in Callers :
    (call[c].pc = "done" /\ call[c].kind \in {"Read", "ReadMulti", "ReadList"} /\ ~call[c].stale) =>
      /\ Len(call[c].results) = Len(call[c].uses)
      /\ \A k \in DOMAIN call[c].uses :
           call[c].results[k] # Bad => IsValueOf(c, call[c].results[k], call[c].uses[k])

(* A Write that returns no error was carried out, on the elements of the    *)
(* tag that it named, and so was a GenericCIPMessage; single values of a    *)
(* WriteMap or a WriteMulti were if nothing of it was refused.  Two things  *)
(* are taken for granted: no instance that was used had been given to       *)
(* another tag by a download (not stale), and every path is used with one   *)
(* type, since the cache keeps the path of the type that came first.  The   *)
(* code ensures neither.                                                    *)
NilMeansDone ==
  \A c \in Callers :
    call[c].pc = "done" =>
      /\ call[c].kind \in {"Write", "GenericCIPMessage"} => ~call[c].refused
      /\ /\ call[c].kind \in {"Write", "WriteMap", "WriteMulti"}
         /\ ~call[c].refused /\ ~call[c].stale
         => \A k \in DOMAIN call[c].uses :
              LET u == call[c].uses[k] IN
              (call[c].kind = "Write" \/ u.size = 1) =>
                <<u.path.tag, u.path.idx, u.size>> \in call[c].did

(* Every call returns, also from a controller that keeps sending parts with *)
(* nothing in them.                                                         *)
CallsReturn ==
  \A c \in Callers : call[c].pc \in {"count", "plan", "ask"} ~> call[c].pc \in {"done", "error", "panic"}

-----------------------------------------------------------------------------
(* What the documentation says and the code does not do.                    *)

(* Once the tags are listed again, a path is encoded for its own tag. *)
RelistRefreshes ==
  known = symbol => \A u \in Uses : ~Stale(newIOI(cache[u.path], u), u)

(* WriteMap returns an error if a tag does not exist or cannot be written. *)
WriteMapReports ==
  \A c \in Callers : (call[c].kind = "WriteMap" /\ call[c].pc = "done") => ~call[c].refused

(* WriteMap writes every element of a value. *)
WriteMapWhole ==
  \A c \in Callers :
    (call[c].kind = "WriteMap" /\ call[c].pc = "done" /\ ~call[c].refused /\ ~call[c].stale) =>
      \A k \in DOMAIN call[c].uses : \E d \in call[c].did : d[3] = call[c].uses[k].size

(* WriteMulti writes every field of the struct it is given. *)
WriteMultiWhole ==
  (\E c \in Callers : call[c].kind = "WriteMulti") =>
    \A us \in DintLists : \A s \in multi_to_dict(us) : Range(s) = Range(us)

(* GetAttrSingle reports the status of the answer. *)
AttributeReports ==
  \A c \in Callers : (call[c].kind = "GetAttrSingle" /\ call[c].pc = "done") => ~call[c].refused

(* ReadMulti returns an error when a tag cannot be read. *)
ReadMultiReturns == \A c \in Callers : call[c].pc # "panic"

(* ReadMulti sets every field that names a tag. *)
EveryFieldSet ==
  \A c \in Callers : call[c].pc = "done" => \A k \in DOMAIN call[c].uses : ~Shadowed(c, k)

(* A request fits the connection, jump table included. *)
RequestsFit ==
  \A c \in Callers : (call[c].pc = "ask" /\ call[c].kind \in {"ReadMulti", "WriteMap", "WriteMulti"}) =>
    30 + 2 * Len(call[c].ioi) + SizeOf(call[c].ioi)
      <= ConnectionSize

=============================================================================
