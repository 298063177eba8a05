# A TLA+ model of gologix

gologix is a Go library that speaks EtherNet/IP and CIP with Rockwell
controllers: a client that reads and writes tags over one TCP connection, and a
server that answers the same messages. This directory holds TLA+ modules that
model the parts of it where order, failure and concurrency matter, the TLC runs
that check them on small instances, and TLAPS proofs for every instance.
Paths below are relative to the root of the repository.

## Inventory

| component | files | state | operations |
|---|---|---|---|
| connection life cycle | `client.go`, `connect.go`, `disconnect.go` | `connStatus`, `conn`, `mutex`, `ConnectionSize` | `Connect`, `Disconnect`, `checkConnection`, `forwardOpen` |
| exchange | `sendreceive.go`, `items.go`, `messages.go` | the socket and what is unread on it | `send_recv_data` |
| keepalive | `connect.go`, `disconnect.go` | `keepAliveRunning`, `cancel_keepalive`, `KeepAliveAutoStart` | `KeepAlive`, `KeepAliveCancel` |
| tag reads | `read.go`, `partialread.go`, `read_instance.go` | byte offset and accumulated payload per tag | `Read`, `ReadMulti`, `ReadList`, `ReadMap`, `ReadMapFrag` |
| tag writes | `write.go`, `udt_write.go` | none between calls | `Write`, `WriteMulti`, `WriteMap` |
| data table buffer | `datatable.go` | tag list, index counter, dirty flag, remote buffer | `AddTag`, `SyncTags`, `ReadAll`, `RemoveTag`, `Close` |
| subscriptions | `tag_subscribe.go`, `implicit_subscribe.go` | channels, done flag, goroutine | `SubscribeTag(s)`, `SubscribeImplicit`, `Stop` |
| tag discovery | `listalltags.go`, `listsubtags.go`, `listmembers.go`, `listallprograms.go` | `KnownTags`, `KnownTypes`, `KnownPrograms`, next instance | `ListAllTags`, `ListSubTags`, `ListMembers` |
| tag paths | `ioi.go`, `path.go` | `ioi_cache` | `newIOI`, `ParsePath`, `PathBuilder` |
| encoding | `types.go`, `pack.go`, `services.go`, `cip_definitions.go`, `lgxtypes/` | none | `Pack`, `Unpack`, `readValue`, `getBit` |
| attributes, identity | `getattr.go`, `listidentity.go`, `listservices.go` | none | `GetAttrSingle`, `GetAttrList`, `GenericCIPMessage` |
| server | `server.go`, `server_connected.go`, `server_unconnected.go`, `server_listidentity.go` | per TCP handler: connection ids, sequence; UDP loop | `serve`, `forwardOpen`, `forwardClose`, `sendUnitData` |
| server connections | `server_connections.go` | the table of open connections | `Add`, `GetByOT`, `CloseByID` |
| server providers | `server_router.go`, `server_io.go`, `server_iochannel.go` | routes, tag map, I/O buffers and channels | `Resolve`, `TagRead`, `TagWrite`, `IORead`, `IOWrite` |
| tag groups, canned queries, L5X | `taggroup*.go`, `canned/`, `l5x/` | none | conversions |
| tables and examples | `vendors.go`, `device_type.go`, `errors.go`, `examples/` | none | lookups |

How they interact. Most client operations call `checkConnection` (which may
call `Connect`) and then `send_recv_data`; `WriteMap`, `GenericCIPMessage` and the
listings go to the exchange at once. A failed exchange calls `Disconnect`,
which performs an exchange of its own. `Connect` starts the keepalive goroutine,
which uses the same exchange. Subscriptions are goroutines that call `Read` or
`ReadMap`; an implicit subscription owns a UDP socket and borrows the client's
TCP connection to open and close its connection. On the server one goroutine per
TCP connection and one UDP loop share the connection table and the providers;
an I/O forward open starts one more goroutine.

What is hard. All requests of a client share one socket and replies carry
nothing the client compares with the request, so pairing rests on the mutex
alone; timeouts break the pairing. The status is changed by several goroutines
in separate critical sections around long unprotected work, and by deferred
writes that do not look at it. Multi-round reads resume at a byte offset. The
server shares its table among goroutines that never clean it up. The hazards are
listed, at their lines, in `PROJECT.json`.

What makes each part correct, as properties of the modules below:

- client: the wire has one owner (`WireOwned`), nobody takes a reply another
  goroutine waits for (`NoCrossTalk`), a transitional status has somebody who
  will end it (`TransitionOwned`), every call returns (`EveryCallReturns`), and
  the keepalive flag stands for a live goroutine (`KeepAliveOwned`);
- reads: each key gets its own whole value or an error (`OwnWholeValues`),
  requests fit the connection (`RequestsFit`);
- subscriptions: Stop ends and releases (`StopEnds`, `ImplicitStopEnds`,
  `StopReleases`), a reader gets to the current value (`UpdatesArrive`);
- data table: list and controller agree (`BufferMatches`, `BatchesHeld`), bytes
  go to their tag (`OwnValues`), a removal hits its tag (`RemovesOwn`);
- discovery: a finished listing is complete and every description whole
  (`Complete`, `TypesWhole`), and a listing ends (`ListingEnds`);
- server: the table is the set of open connections (`TableExact`,
  `TableIsASet`), and requests, closes and I/O data act on the connection they
  name (`ServedByOwner`, `OnlyOwnersClose`, `OutputsOwned`, `ProducersStop`);
- tag provider: every element of an answer was in the tag since the read began
  (`Regular`), answers are snapshots unless elements are written meanwhile
  (`Snapshot`), positions name the
  tags they were announced for (`CachedInstance`);
- single reads and writes: what a read returns is the caller's own and whole
  (`OwnData`), no error from a write means that it was done (`NilMeansDone`), both if
  instances are current and each path has one type, and
  every call returns (`CallsReturn`);
- encoding and paths: a struct that is read, changed and written back differs in
  the change alone (`StructKept`), what is written under a path is read under it
  (`WrittenIsRead`), a device reads the path or the route that was meant
  (`PathsRead`), a client knows a server by what it is (`IdentityKept`);
- I/O channels: not modelled.

## Modules

| module | models | extends / implements |
|---|---|---|
| `Client` | `Connect`, `Disconnect`, `checkConnection`, `send_recv_data`, `KeepAlive` of one client shared by goroutines | |
| `ClientProofs` | theorems about `Client` | extends `Client` |
| `ConnectionSet` | abstract: a set of connections each of which enters and leaves once | |
| `Server` | handlers, connection table, UDP loop, producing goroutines | implements `ConnectionSet` (`TableIsASet`) |
| `ServerProofs` | theorems about `Server` | extends `Server` |
| `BatchRead` | one `ReadMap`, `ReadMapFrag` or `ReadMapByInstance` | |
| `TagSubscription` | one `SubscribeTag` or `SubscribeTags` | |
| `ImplicitSubscription` | the `SubscribeImplicit` subscriptions of one client | |
| `DataTable` | one `DataTableBuffer` and its buffer in the controller | |
| `Discovery` | `ListAllTags` and all it calls | |
| `TagProvider` | a `MapTagProvider` and the handlers that read and write it, with and without a connection | |
| `TagAccess` | `Read`, `ReadMulti`, `ReadList`, `Write`, `WriteMulti`, `WriteMap`, `GetAttrSingle` and `GenericCIPMessage` of goroutines that share a client and its path cache | |
| `Packing` | `Pack`, `Unpack`, `TypeEncode` and the predefined types, and the controller's layout of a UDT as their reference | |
| `TagPath` | tag paths, logical segments and routes as bytes, and their decoding | |
| `Messages` | items, values, writes, list reads with their jump tables, identities: both the client's and the server's side | extends `TagPath` |
| `Conversation` | conversations made of these: write tags and read them in one message; build a path or parse a route; ask who is there | extends `Messages` |
| `Encoding` | these conversations, and one more: read, change and write a struct | extends `Packing`, `Conversation` |
| `MessageProofs` | theorems about `BatchRead` and `Conversation` | extends both |
| `DataTableProofs`, `DiscoveryProofs`, `ImplicitSubscriptionProofs`, `TagAccessProofs`, `TagProviderProofs` | theorems about the module they are named after | extend it |
| `MC...` | the constants of a TLC instance | extend the module they are named after |

An operator whose comment begins with "Mutant:" (`LockUnguarded`, `CloseAtCuts`,
`FirstIndexZero`, ...) is a plausible bug, kept beside the definition it would
replace and used nowhere; `PROJECT.json`, under `mutants`, says which property
it makes fail.

### Client

One step is one critical section of `client.mutex`, one socket operation or one
access to an unprotected field. A goroutine is a program counter and a stack of
return labels: a failed exchange calls `Disconnect`, whose `ForwardClose` is an
exchange, which may fail in turn. Labels `co_*` are inside `Connect`, `dc_*`
inside `Disconnect`, `sr_*` inside `send_recv_data`, `ka_*` inside `KeepAlive`.
A request is the goroutine that waits for the reply, or `Stale` when it has
given up; `pend[s]` is what was sent on socket `s` and not read back. `Receive`
takes the oldest entry, as a stream does, and `got` records whose it was,
because the client itself never compares. `ControllerSilent` makes the
controller drop a request; `SendFails` and `ReceiveFails` are timeouts and broken
connections. `crash` is a Go panic: nil `conn`, closed or nil channel.

### Server

A handler opens connections in two steps, as the code does: the answer is
prepared (`forwardOpen`), then the object enters the table (`Add`). The table is
a sequence and `CloseAt` swaps with the last element and shortens, like
`CloseByID`. A T->O id is the originator's own choice, so it is represented by
the connection; the O->T id and the serial number are taken from `Ids`.
`DistinctIds` says whether originators number apart: the ids of different
originators are theirs to choose, and the lookups assume that they differ. A client of
this library counts on from the time at which it connects (`connect.go:115`), and its
serial numbers from a random start (`client.go:29`), so that two rarely agree; nothing
keeps them from it. `OnlyOwnersClose` says of each close that the step is the forward
close of a handler that opened the connection. The UDP loop's
datagram is looked up (`serveUDP`) and then handed to the provider (`IOWrite`) in
separate steps. `HandlerEnds` and `ConnectionLost` leave the handler's
connections in the table, as the code does.

### TagProvider

`Server` ends where a request reaches the provider of its path; this module
begins there, with the handlers it has in common. A step is one critical section of
the provider's mutex, or the serializing of one element after it: a slice that
`TagRead` returned is the stored array (`heap`), so other handlers' element
writes show through, while a whole write makes a new array. `via` is how a
request came (`unit` and `multi` over a connection, `rr` without, `attr` by
position); it decides whether an error ends the session. A value that is written into
an array of another type is converted (`convertToElement`), and `Conversion`, any
function, says what becomes of it: a narrower type changes it. A count is made
an `int16`, and of no values the first is taken: the two panics (`TagReadPanics`,
`TagWritePanics`) end every session, because no handler recovers. A position is one in
the `Sorted` list of the tags there are. `tagmap`, `seen` and
`touched` are history: what the writes say the tags hold, and what they held
while a handler was reading.

### BatchRead

A tag is its position in the order in which the map is walked; the lists of
positions that the code keeps are in that order, and are sets here. Sizes are
the source's, in bytes; data is the span of the tag's bytes it came from. `Packed`
says which set a pass over the tags takes that takes each one that still fits,
and `Total` adds up sizes. `selectPackedTagBatch` packs the next request, `readListFragRound` is one
request and the controller's answer to it: an answer may be whole, partial,
an error, or leave out trailing tags, cut at any of `Cuts`. `Finish` decodes.

### TagSubscription and ImplicitSubscription

A step is one read, one comparison and offer, or one channel operation. Channels
are buffers with a capacity and a closed flag; an offer never waits. `deferred`
is the order in which the goroutine's defers run. `Stop`'s unprotected check of
a flag and its use are separate steps, and each goroutine that calls it is a
`Stopper` with its own control state. Implicit subscriptions share the client's
session and, by default, the port; datagrams may be lost, repeated, delayed and
reordered.

`ReadMap` takes the type of a tag from the value that the map holds. `typed` is the set of
arrays, bits and structures (`Shaped`) for which it still holds one: an error that takes
the value's place, or an array read with one element, makes the next read decode what the
controller sends as it comes (`Misread`), and of a structure fail, with everything in
its batch that comes behind, or panic (`ReadPanics`). A number that is no array is not
affected. `UpdatesArrive` exempts the tags this has happened to (`Astray`), updates that
were dropped and polls that panicked.

### DataTable

The type is not safe for concurrent use, so a step is one call. The controller's
side is external and is modelled from how the code uses it: a sequence of entries
with the index and batch they were sent with, read back as bytes that carry no
tag, with a two-byte header for each request that added tags (`datatable.go:490-500`),
whether or not any of its tags are left. `Sorted` puts the list in the order of the
indexes, `Response` and `Parse` write and walk the bytes of a reading one entry
after the other, and `Finds` is the first entry that a name finds. The walk stops at a
tag that does not decode or does not fit its variable (`Undecoded`), and the tags before
it have been set by then. The number of tags of a request is one byte (`CountSize`).

`ReadAll` skips a header where the next tag of the list is of another batch, so that it
takes the header of a batch that `RemoveTag` emptied for data: `OwnValues`, which is
about the steps `ReadAll` and `ReadAllRaw`, is stated for buffers in which no emptied batch
is followed by others (`NoBatchEmptied`), and `EmptiedSkipped` is the statement without that
condition, which fails. `Renumbers` and `AddAfterRemove` say what the controller does
to its numbers at a removal and what the caller does after one. The code numbers a new tag
by the length of the list, which is right for a controller that renumbers, and keeps the
numbers of the others, which is right for one that does not; with removals followed by
additions it is right for neither. The run and the theorems are about a controller that
keeps its numbers and a caller that does not add after removing.

### Discovery

A caller's stack has one frame per unfinished call of `ListAllTags`,
`ListSubTags` or `ListMembers`. Pages and chunks have every size the controller
may choose: a frame has the instance at hand (`at`), the last one of its page
(`last`) and the one to ask for next (`start`). A template is read in units, so that a chunk can end anywhere; a
description carries the units and the version of the template it was made of.
`Download` is an engineer's change of the controller's templates between calls.

### TagAccess

A caller's call is a record: what it was asked for (`uses`), where the lists
still to be read end (`ends`, to which `readList` and `countIOIsThatFit` add where
they split one), the paths encoded for the message, the data received so far. Encoding
one path is one step, because `newIOI` looks at and changes the shared cache and
another caller may come between. A cell of data carries the tag, element, bit
and version it was read from, so that `OwnData` can compare it with what was
asked for. A `WriteMulti` writes the fields of its struct that are no arrays
(`multi_to_dict`) as a `WriteMap`, whose answer nobody looks at. `NilMeansDone` is about
`Write`, about what was not refused of the other two, and takes for granted that no
instance was given to another tag (`stale`) and that each path has one type: the cache
gives one type's path to the other. The controller's values change (`Update`), its tags get other
instances (`Download`), it sends a value in parts of any of `Cuts`, also empty ones,
it refuses, and its answer may be lost after it has acted (`WriteTags`).

### Packing, TagPath, Messages, Conversation and Encoding

These are functions on bytes, taken from the source case by case. In `Packing` a
byte is a set of bits or the n-th byte of a value, which is all that alignment and
packing can confuse; `Layout` is the reference, the controller's layout of the
same fields, written without regard to how `Pack` proceeds. In `TagPath` and
`Messages` a byte is a number, because what goes wrong there is a number taken for
a code or a length. `Conversation` puts them in order: `WriteTag` and `ServeWrite` for
each tag, then `ReadTags`, `ServeReads` and `TakeReply`; `BuildPath` and `DeviceReads`;
`AnswerIdentity` and `TakeIdentity`. `Encoding` adds `ReadStruct`, `Change` and
`WriteStruct`. The server hands several values to its provider as `[]any`, which the provider
gives a type only if it has an array there (`TagWrite`), and which cannot be answered
otherwise; how a `MapTagProvider` converts values is `TagProvider`'s.

A name goes through `parse_tag_name`, which takes a trailing bit or index off it or fails:
`PathsRead` is about plain names, and about what was built before a call that fails.
`WrittenIsRead` says for which exchanges what is written is read: no index above 65535 and
no bit in the path of a write (`SoundWrite`); a count whose low byte is no code of a segment,
and 1 for a single value; a bool with indexes in its last part only, because the index of
every part of its path is divided by 32 (`ioi.go:190`), and not of a SINT (`SoundRead`). For
these it also says which are refused: a tag that is not there, that has fewer values, or
whose values have no type (`Unreadable`). In the reply of a list each part is decoded, as
the code does, by status, type and count, strings and structures included (`readListPart`).
A server whose identity lacks an attribute, or has it with another type, does not answer,
and sends zeros for an address that is not of IPv4 (`IdentityKept`).

A loop of the code over parts, segments, hops or items is a recursive function from the
number of turns to the state of the loop (`AddRoutePart`, `Build`, `NextSegment`,
`NextHop`, `ReadItem` and `getTagFromPathAt` are one turn each). The types of fields are
recursive as well, and `Packing` follows them with `RECURSIVE` operators; it is
kept apart from `Conversation`, whose module the prover can then use.

## Runs

| run | instance | checks | states |
|---|---|---|---|
| `client_shared` | 2 goroutines, 2 sockets, 1 call each, auto-connect, large forward open | `WireOwned`, `NoCrossTalk`, `TransitionOwned`, `EveryCallReturns` | 278k |
| `client_alone` | 1 goroutine, 3 calls, 1 keepalive goroutine, 1 tick, 2 unread requests | `TypeOK`, `KeepAliveOwned`, `ConnectedHasSocket`, `CallersGetOwnReply` | 3.35M |
| `client_late_reply` | 2 goroutines | refutes `OneResponsePerMessage` | |
| `server` | 2 handlers, 2 connections, ids numbered apart | all properties of `Server` | 871k |
| `batch_read` | 4 tags of any of 5 shapes, 504-byte messages, 2 rounds | `OwnWholeValues`, `RequestsFit`, `Returns` | 209k |
| `tag_subscription` | 2 tags in 2 batches, a number and a structure, channels of 1 | `StopEnds`, `UpdatesArrive` | 265k |
| `data_table` | 3 tags of 2 sizes, 1 that does not decode, 3 batches, 1 lost reply | `BufferMatches`, `BatchesHeld`, `OwnValues`, `RemovesOwn` | 658k |
| `implicit_subscription` | 2 subscriptions, 2 goroutines that stop, channels of 1 | `OwnDatagrams`, `StopReleases`, `ImplicitStopEnds` | 650k |
| `tag_provider` | 2 handlers, 4 requests out of 14, an array of 3, a scalar and a tag to be created | `Regular`, `Snapshot`, `CachedInstance` | 282k |
| `discovery` | 1 program, 2 nested templates, 7 symbols, 2 calls, 2 failures | `Complete`, `TypesWhole`, `ListingEnds` | 72k |
| `tag_access` | 2 goroutines, 1 call each, 2 tags, 3 paths, 1 update, 1 download, 504-byte messages | `OwnData`, `NilMeansDone`, `CallsReturn` | 277k |
| `encoding` | 2954 structs of up to 3 fields, 1201 exchanges, 506 built paths, 73 routes, 64 identities | `StructKept`, `WrittenIsRead`, `PathsRead`, `IdentityKept` | 69k |

Why the bounds are enough for the cases that matter:

- one call each for two goroutines already nests `op` inside auto-`Connect`
  inside a failed exchange inside `Disconnect` on one side while the other does the
  same; two sockets let a stale socket coexist with the new one, and `MaxPend`
  3 is one more than both goroutines' unread requests. `client_alone` has three
  calls, so that a failure, a reconnect and a use after it fit, and a keepalive
  that is cancelled and started again. The theorems about `Client` hold for
  every bound.
- two connections make the swap in `CloseByID` move another entry; two
  handlers make it another handler's.
- five tag shapes with four tags make every reason to split a batch happen:
  request too long, estimated reply too long, reply longer than estimated because
  the declared size is unknown, value longer than a message. `MaxRounds` 2
  stands for the 1024 of the code, so that the end of the rounds is reached.
- four requests on a provider are a read, two writes that fall into it, and a
  creation or a listing before it; an array of three gives a range that starts
  in the middle and one that ends past the end; one of the values changes when it is
  narrowed.
- the exchanges have bools with an index in the last part, before it and in both, arrays over
  arrays, over scalars and over nothing, counts above what there is, and tags that are
  not there.
- two of the paths in `tag_access` do not fit in one message as names, and do when
  one of them is an instance, so that lists are split or not by what is cached;
  a value of two cells comes in one, two or three parts, of which some are empty,
  and `MaxRounds` 1 stands for the 1024 of the code.
- three fields of fourteen kinds give every pair of neighbours with something
  before or behind it: bits that fill a byte, that are followed by a wider field,
  by a string, by an array or by the end, padding in front of and behind each size. The
  numbers in paths are those on both sides of 256 and 65536, and those that are
  also codes of a segment (40, 41, 145).
- channels of capacity one are full after one offer; the second is dropped.
- three data table tags in up to three batches give a removal from the middle
  of a batch and a batch that loses all its tags.
- a page has at least two symbols, because the code asks for the last instance
  again: with pages of one symbol it would never advance.

`CHECK_DEADLOCK FALSE` is given where calls are budgeted or everything was
stopped, so that the system may well have nothing left to do.

### Fairness

Every fairness condition is on goroutines of the library, never on the
application, the network or the controller:

- the Go scheduler runs what can run, a blocked socket operation ends at its
  deadline (`SocketTimeout` is not zero), tickers fire: weak fairness of `Step`
  in `Client`, `run` and `Stop` in the subscriptions, `Step` in `Discovery`, the
  `Add` that follows an answered forward open and the end of a producing
  goroutine in `Server`, `Call` in `BatchRead`, `Step` of each caller in
  `TagAccess`, whose exchange is answered or fails;
- Go's `select` chooses at random among the ready cases, so that a closed `done`
  channel is not passed over for ever while a ticker keeps firing: strong
  fairness of `Leave` in `TagSubscription`;
- `StopEnds` assumes no reader of the channels. `UpdatesArrive` is a statement
  about a subscriber that reads and a controller that answers, which it says
  itself, in its premise.

## Proofs

Checked by TLAPS, for every number of goroutines, sockets, handlers,
connections, tags, sizes and calls, and for paths, routes and names of any length; the
bounds of the runs do not matter to them.

| theorem | statement | module |
|---|---|---|
| `TypeCorrect` | `Spec => []TypeOK` | `ClientProofs` |
| `TransitionsOwned` | `Spec => []TransitionOwned` | `ClientProofs` |
| `WireIsOwned` | `Spec => []WireOwned` | `ClientProofs` |
| `RepliesAreNotStolen` | `Spec => []NoCrossTalk` | `ClientProofs` |
| `KeepAliveIsOwned` | `Spec => []KeepAliveOwned` | `ClientProofs` |
| `ConnectedMeansSocket` | `Alone`: `Spec => []ConnectedHasSocket` | `ClientProofs` |
| `RepliesAreOwn` | `Alone`: `Spec => []CallersGetOwnReply` | `ClientProofs` |
| `ServerTypeCorrect` | `Spec => []TypeOK` | `ServerProofs` |
| `TableIsExact` | `Spec => []TableExact` | `ServerProofs` |
| `TableImplementsSet` | `Spec => TableIsASet` | `ServerProofs` |
| `RequestsStayOwned` | `DistinctIds`: `Spec => []ServedByOwner` | `ServerProofs` |
| `OutputsStayOwned` | `DistinctIds`: `Spec => OutputsOwned` | `ServerProofs` |
| `ClosesStayOwned` | `DistinctIds`: `Spec => OnlyOwnersClose` | `ServerProofs` |
| `ImplicitTypes` | `Spec => []TypeOK` | `ImplicitSubscriptionProofs` |
| `ValuesOwn` | `Spec => []OwnDatagrams` | `ImplicitSubscriptionProofs` |
| `NilReleases` | `Spec => []StopReleases` | `ImplicitSubscriptionProofs` |
| `OneStopOwnSocket` | `Spec => [](OneStops /\ PortKept)` | `ImplicitSubscriptionProofs` |
| `ProviderTypes` | `Spec => []TypeOK` | `TagProviderProofs` |
| `ReadsRegular` | `Spec => []Regular` | `TagProviderProofs` |
| `ReadsSnapshot` | `Spec => []Snapshot` | `TagProviderProofs` |
| `PositionsKept` | `Spec => []CachedInstance` | `TagProviderProofs` |
| `AccessTypes` | `OneType`: `Spec => []TypeOK` | `TagAccessProofs` |
| `ReadsOwnData` | `OneType`: `Spec => []OwnData` | `TagAccessProofs` |
| `NilWritten` | `OneType`: `Spec => []NilMeansDone` | `TagAccessProofs` |
| `BatchTypes` | `Spec => []TypeOK` | `MessageProofs` |
| `ValuesWhole` | `Spec => []OwnWholeValues` | `MessageProofs` |
| `BatchesFit` | `Spec => []RequestsFit` | `MessageProofs` |
| `PathsReadAlways` | `ConversationSpec => []PathsRead` | `MessageProofs` |
| `IdentityKeptAlways` | `ConversationSpec => []IdentityKept` | `MessageProofs` |
| `TableTypes` | `Counted`: `Spec => []TypeOK` | `DataTableProofs` |
| `KnownBatchesHeld` | `Counted`: `Spec => []BatchesHeld` | `DataTableProofs` |
| `BufferAsListed` | `Numbering`: `Spec => []BufferMatches` | `DataTableProofs` |
| `RemovedIsOwn` | `Numbering`: `Spec => RemovesOwn` | `DataTableProofs` |
| `TableReadsOwn` | `Numbering`: `Spec => OwnValues` | `DataTableProofs` |
| `DiscoveryTypes` | `Spec => []TypeOK` | `DiscoveryProofs` |
| `ListingComplete` | `Spec => []Complete` | `DiscoveryProofs` |
| `DescriptionsWhole` | `Spec => []TypesWhole` | `DiscoveryProofs` |

They assume the named assumption of their module (`ClientAssumption`,
`ServerAssumption`, ...), which TLC evaluates in every run. Some have a hypothesis
about the constants, without which they are false; each is a condition on the
programs or controllers around the library, and the run of the property meets it:

- `Alone`: one goroutine uses the client. The properties themselves are about the
  time before a KeepAlive begins beside it. With two goroutines a late reply is
  taken for another's (`client_late_reply`).
- `DistinctIds`: originators number their connections apart.
- `OneType`: a path is always used with the same type. Otherwise the shared cache
  gives one type's path to the other (`MCTagAccessDivergences`).
- `Counted`: the list is shorter than what a request can count (256 tags).
- `Numbering`: that, the controller does not renumber on a removal, and no tag is added
  after one (`MCDataTableDivergences`).

Client. `TypeOK` is not inductive because `Return` jumps to whatever is on the
stack: `TypeInv` adds `StackOK`, by which the outermost label of a goroutine is
that of an API call or of `KeepAlive` and no other is, so that whoever returns
finds a label to return to. The
invariants about who is inside which body (`Within`) look at the whole stack, so
the proofs first show, for `Goto`, `Call` and `Return` once each, what happens to
`Within`; each action is then one of the three. `WireInv` adds that no return
label lies inside the exchange (`ReturnsOffWire`): otherwise a return could put a
second goroutine on the wire without the mutex. It carries `WireOwned` and
`NoCrossTalk` together, as each needs the other: a reply is only ever awaited by
the mutex holder, and giving up turns the request stale in the step that unlocks.
`KeepAliveInv` adds that only keepers run `KeepAlive` (`KeepersOnly`).
A goroutine that is alone has one of few stacks: `AloneInv` says for each place it
can be in (`AtRest`, `InConnect`, `InExchange`, `BeforeDisconnect`, `InDisconnect`)
which stacks those are, what the status and the socket are there, and what is
unread. The hard part is the Disconnect that a failed exchange of `Connect` itself
calls: `Connect` then goes on with a closed socket (`Opening`), and must fail. That
a reply is one's own follows because only the one socket in use has something
unread, at most one's own request, except in a Disconnect, which drops the socket.

Server. `TableInv` adds to `TableExact` that no connection was answered twice
(`OpenedOnce`), that what was opened is not unused (`OpenedUsed`), and that what
a handler is about to add was answered and not yet added (`AddingAnswered`). The
lemmas `AppendOne` and `SwapOut` say what appending to and swapping out of an
injective sequence does to its set. The refinement follows: `Add` and `CloseAt`
map to the abstract ones, everything else to stuttering. `OwnInv` adds that ids
are apart (`IdsApart`), which also makes the connection that a forward close finds by its
number one that its handler opened, and that the datagram in hand has the path of the
connection it was sent on, which was open once (`DataInv`).

Implicit subscriptions. Of the Stops on a subscription one gets past
`close(stopCh)` (`OneStops`), and the port is the subscription's until that Stop
closes the socket (`PortKept`); so no Stop closes a socket that a later subscription
has opened on the port. `DeferredInOrder` (the deferred calls close `doneCh` after
the channels) is why a Stop that has seen `doneCh` leaves nothing open.

Tag provider. The invariant has four layers, each proved with the ones before:
`Control` (a handler that serves has a service to serve), `StoreInv` (the map holds
what the writes say, and no two tags share an array), `CopyInv` and `ListInv`.
What is stored is typed because a conversion gives values again (`ConvertTyped`).
`CopyInv` is the reason for `Regular` and `Snapshot`: the array a handler is
reading is the tag's own until a whole write replaces it, and from then on nobody
writes to it. `ListInv`: a list that was sent is the sorted list of some of the tags
there are, and a tag that was found by its position was found in the list of at least
those tags; until one is created, both are the list of all.

Single reads and writes. `CallInv` says of a call that the ends of its lists grow up
to the end of what was asked (`EndsInv`), that the paths encoded so far are those of
the list in hand (`PathsInv`), that the parts received are the first cells of the
value (`DataInv`), and that the results are those of the first uses (`ResultsInv`).
Paths come from the cache, which other callers fill, so `CacheInv` says of every
entry that it encodes the element and bit of any use of its path; here
`OneType` is needed.

Batch reads. `Cover` says that no tag is lost between the lists (every one is still to
be requested, in the batch, or has a result), `BatchInv` that a tag to be asked again
has nothing kept, and a tag answered has all, `FitInv` that a batch of several tags
fits and, where sizes are declared, is answered whole. The last
needs that `Total` is monotone in the set and in the weights, by induction over the
positions.

Paths and identities. `ConversationAssumption` gives each number the width of its Go type
and each character a byte, and no bound on how many there are; of the exchanges it asks that an
array is written with values of the type it has (`OneType`: the provider would convert
others, which is `TagProvider`'s). `ConversationInv` says of
each stage what it has of the one before: after `BuildPath` the wire is what the builder or
`ParsePath` returns for the job, after `DeviceReads` `got` is what a device reads of the
wire, and the same of an answer and its reading. The run checks `Encoding`, whose `Spec`
begins with a struct or with a conversation and takes the steps of each with jobs of its own
kind, so that its conversations are the behaviours of `ConversationSpec`. The work is in the
functions.
From the bottom: a number of one, two or four bytes is read as it was written
(`LE16`, `LE32`, by splitting off one byte at a time); a segment is read as the call that
built it *whatever bytes follow it* (`SegmentSays`, `HopSays`), which is where the codes,
what `parse_tag_name` leaves of a plain name (`PlainNameParses`),
the pad byte of odd names, the limit of 65535 for elements and that of 15 for ports come in.
A loop is the run of its turns (`BuilderLoop`, `DeviceLoop`, `ParseLoop`, `HopLoop`: the
recursive function exists, by `InductTo`). Then, by induction over the calls: the builder's
bytes are the pieces of the calls up to the first one that fails (`BuiltPath`,
`ParsedRoute`), such bytes can be taken apart piece by piece from the front (`Pieces`), and
after j turns the device has read the first j calls and has the rest of the pieces before it
(`ReadsBuilt`, `HopsRead`). A piece has at least two bytes, so that the turns the device has,
one for each byte, are enough, and in those left over it does nothing.
`IdentityKept` needs no induction over the fields: `Field` and `FieldAt` place each of the
14 fields of `buildListIdentityItemBody` behind the ones before it, and `BodyRead` finds
them where `ParseFromBytes` looks; `OneItem` takes the body out of its frame.

Data table. With `Counted` alone, `Base`: the synched tags come before the others in the
list (`PrefixInv`), and the batches the list knows are in the buffer whole and in
order. A sync whose reply is lost appends a batch the list does not know, and the
same tags are sent again: it is told apart by its number, which is why `BatchesHeld`
speaks of batches. With `Numbering`, `MatchInv` adds that the buffer is, entry for
entry, the synched part of the list (`Fits`), and that before a removal
indexes are dense. `RemovesOwn` follows because the same
first entry is found by name in both (`FindsSame`). `TableReadsOwn` follows along the
walk: the bytes of a reading are laid out entry by entry (`ResponseHas`), the list
sorted by index is the buffer's order (`SortedGrowing`), and after n tags `Parse` has
taken the bytes of the first n entries with their headers (`TakesOwn`, `ParseOwn`), which
are one for each batch met so far because none before them is empty.

Discovery. `CallerOK` says of a caller's stack what each frame has done (`FrameOK`), how
each one was called by the next (`Called`), and what the innermost has been given
(`Given`). A listing has all tags up to the instance at hand, and its page is the last
one or says that there are more; of the programs only those are not yet listed that
the frame of `ListAllTags` still has and the one whose `ListSubTags` it waits for, so
that nothing is missing when the stack is empty. A `ListMembers` has in its
description the parts of the members before the one at hand (`PartsTo`), which is the
whole of its template after the last one (`PartsAll`); that needs `Nested(t)`, the least
closed set, to be the members' templates and what is nested in those (`NestedUnfolds`).
Every part of `CallerOK` is stated for the names and templates known, and survives
when more are (`StaysOK`): this is what another caller's step does. The depth of a stack is
bounded because calls of `ListMembers` are for templates nested in those of their
callers (`Deep`), which without cycles are distinct (`DepthBounded`).

Induction. The library's induction theorems take an operator, which the installed
provers cannot instantiate. The proof modules that need them state them about sets
instead: `Least` (every set of numbers that is not empty has a least element, from the
well-foundedness of the subset order on finite sets), from it `InductTo` and
`Greatest`, and `Recursion`, that a function exists that is given by its first value and its
steps. A proof by induction defines the set of numbers for which its claim holds.

Only model-checked: all liveness (TLAPS does not prove it under fairness), with it
both properties of `TagSubscription`; and of the encoding `StructKept`, because `Packing` is
defined by recursion over the types of fields (`RECURSIVE`, in whose reach the prover loses
its SMT backend), and `WrittenIsRead`, whose exchange folds and flattens sequences of
sequences (`FoldLeft`, `FlattenSeq`) whose induction principles take operators. The
lemmas about names, numbers and items that it would rest on are there. The
`TypeOK` of `TagSubscription` documents its state and is in no run, nor is that of
`Discovery`, which is proved.

## Divergences

Statements that the code, its comments or its tests make and that the model
refutes. Each has a property; with the configuration named beside it TLC reports
it violated, and the trace is the example. The first is a run of the project.
The line is that of the statement or of the code that breaks it.

| property | configuration | where | what happens |
|---|---|---|---|
| `OneResponsePerMessage` | `MCClientLateReply` | `sendreceive.go:78` | after a timeout another goroutine's operation reads the late reply as its own |
| `PartialTransfersHandled` | `MCBatchReadDivergences` | `read.go:1423` | the data of a partial answer is dropped and asked for again until the rounds run out |
| `EmptiedSkipped` | `MCDataTableDivergences` | `datatable.go:502` | the header of a batch without tags is not skipped, and the tags behind it get bytes that are not theirs |
| `SynchedAreHeld` | `MCDataTableDivergences`, `CountSize = 2` | `datatable.go:396` | the number of tags in a request is cut to a byte, and all count as synched |
| `OwnValues` | `MCDataTableDivergences` | `datatable.go:13` | a tag added after removals reuses an index; `ReadAll` walks in the wrong order |
| `ClosedRegardless` | `MCClientDivergences` | `disconnect.go:53` | a Disconnect that finds the client disconnected or disconnecting returns at once, while the socket is still or again open |
| `ConsideredDisconnected` | `MCClientDivergences` | `disconnect.go:66` | the Connect a Disconnect overtook ends by writing Connected, although the socket is closed |
| `DisconnectIsSafe` | `MCClientDivergences` | `disconnect.go:46` | the flag is cleared only when the goroutine ends, so a second Disconnect closes its channel again |
| `ReconnectResumesKeepAlive` | `MCClientResume` | `disconnect.go:163` | a cancelled keepalive clears `KeepAliveAutoStart`, and the reconnect starts none |
| `GoneLeavesNothing` | `MCServerDivergences` | `server.go:204` | a lost TCP connection leaves its CIP connections in the table |
| `ReplyAddressed` | `MCServerDivergences` | `server_connected_connid_test.go:84` | replies to writes and attribute lists carry the T->O id of the session's latest open |
| `NewestOutput` | `MCServerNewest` | `server_io.go:86` | a late datagram overwrites newer output data |
| `PathFromOwnOpen` | `MCServerDivergences` | `server_connected.go:60` | two originators chose the same O->T id, and a request is looked up as the other's connection |
| `SuccessFillsMap` | `MCBatchReadDivergences` | `read.go:1317` | ReadMap returns no error and fills nothing while another goroutine reconnects |
| `ChangesEmitted` | `MCTagSubscriptionDivergences` | `tag_subscribe.go:129` | a change offered to a full channel is not offered again |
| `InitialWasRead` | `MCTagSubscriptionDivergences` | `tag_subscribe.go:104` | after such a read the declared zero value is emitted as the first one |
| `ClosedOnReturn` | `MCTagSubscriptionDivergences` | `tag_subscribe.go:246` | the defers close `doneCh` first, so Stop returns before the channels are closed |
| `StopIsIdempotent` | `MCTagSubscriptionDivergences` | `tag_subscribe.go:250` | two Stops at once close a channel twice |
| `ReadAsDeclared` | `MCTagSubscriptionDivergences` | `tag_subscribe.go:87` | an array's first read has one element, and after an error a bit is read as the integer it is in |
| `ErrorsNotFatal` | `MCTagSubscriptionDivergences` | `tag_subscribe.go:116` | a structure for which a read put an error into the map is decoded into the error's type, which panics |
| `RemovesOwn` | `MCDataTableDivergences` | `datatable.go:18` | if the controller renumbers, a second removal hits another tag |
| `SentOnce` | `MCDataTableDivergences` | `datatable.go:395` | after a lost reply tags are sent again |
| `CloseFrees` | `MCDataTableDivergences` | `datatable.go:675` | a failed delete marks the buffer closed, and the next Close returns no error |
| `TypedAsRead` | `MCDataTableDivergences` | `datatable.go:824` | RemoveTag leaves what AddTagGroup recorded, and typed reads fail from then on |
| `FallbackComplete` | `MCDiscoveryDivergences` | `listallprograms.go:28` | the pages after the first have forgotten that programs are to be looked for |
| `Reanalyzed` | `MCDiscoveryDivergences` | `connect.go:250` | a template known by its id is not read again after a change |
| `InventoryComplete` | `MCDiscoveryDivergences` | `listalltags.go:74` | a refused page ends the listing without an error |
| `ValuesClosedOnReturn` | `MCImplicitSubscriptionDivergences` | `implicit_subscribe.go:290` | the second of two Stops returns before the channels are closed |
| `SecondStopIsSafe` | `MCImplicitSubscriptionDivergences` | `implicit_subscribe.go:611` | two Stops at once close a channel twice |
| `RefusedLeavesNothing` | `MCImplicitSubscriptionDivergences` | `implicit_subscribe.go:390` | the connection was opened before the port was found taken, and is not closed |
| `ThreadSafe` | `MCTagProviderDivergences` | `server_router.go:91` | an array is serialized while its elements are written: the answer is half old, half new |
| `Serializes` | `MCTagProviderDivergences` | `server_router.go:150` | an array written to a new tag, or over a scalar, is kept as `[]any`, and reading it ends the reader's session |
| `StableInstance` | `MCTagProviderDivergences` | `server_unconnected.go:544` | a write creates a tag, and the positions of the tags behind it shift |
| `InOrder` | `MCImplicitSubscriptionDivergences` | `implicit_subscribe.go:563` | a late datagram's value is delivered after a newer one |
| `RelistRefreshes` | `MCTagAccessDivergences` | `ioi.go:119` | a cached instance is kept after the tags were listed again, and names another tag |
| `OwnData` | `MCTagAccessDivergences` | `ioi.go:119` | a path first used as a number is sent for a BOOL with the same index, and the element of a wrong place is read |
| `NilMeansDone` | `MCTagAccessDivergences` | `ioi.go:119` | the same for a write: a path that was used as a BOOL writes to another element |
| `WriteMapReports` | `MCTagAccessDivergences` | `udt_write.go:125` | the answer is not looked at, and a refused write returns no error |
| `WriteMapWhole` | `MCTagAccessDivergences` | `udt_write.go:100` | a slice is written as one element |
| `WriteMultiWhole` | `MCTagAccessDivergences` | `write.go:12` | the array fields of the struct are left out (`udt_write.go:31`), and no error says so |
| `AttributeReports` | `MCTagAccessDivergences` | `getattr.go:94` | the status is not looked at, and a refused attribute returns no error |
| `ReadMultiReturns` | `MCTagAccessDivergences` | `read.go:781` | a tag with an error, or a value of another type, is set into a field, which panics |
| `EveryFieldSet` | `MCTagAccessDivergences` | `read.go:677` | of two fields with one tag only the last is set |
| `RequestsFit` | `MCTagAccessDivergences` | `read.go:705` | the jump table is not counted when a list is split, and WriteMap (`udt_write.go:122`) never splits |
| `AnyStructRead` | `MCEncodingDivergences` | `pack.go:532` | the elements of an array of structs are read without the padding between them |
| `AnyStructWritten` | `MCEncodingDivergences` | `pack.go:271` | bools before a string are lost; a PID writes the control word it read (`lgxtypes/pid.go:65`) |
| `AnyWriteRead` | `MCEncodingDivergences` | `ioi.go:349` | a count of 40 is read as an index; an index past 65535, a STRING of the server, a bit of a SINT and a bool below an indexed part are read wrong |
| `AnyPathRead` | `MCEncodingDivergences` | `cip_definitions.go:115` | an element past 65535 has the code of a 16-bit one, a port past 15 that of an address |
| `RouteReturns` | `MCEncodingDivergences` | `path.go:80` | a route that begins with an address panics |

Where one configuration is named in several rows, TLC stops at the first of its
properties; keep the one whose counterexample is wanted.

## Assumptions and what is left out

- Fields read and written without a lock (`keepAliveRunning`, `closed`,
  `KnownTags`, ...) are read and written one access at a time. Concurrent
  writes of a Go map, which abort the process, are not modelled.
- `Client`: `SocketTimeout` is not zero; `KeepAlivePollTags` is off, so the
  keepalive performs one attribute read per tick; payloads are left out.
- `BatchRead`: what one exchange goes through is `Client`'s; here it is answered
  or fails.
- `DataTable`: the controller keeps the order in which it was sent tags, keeps a
  tag's index, and sends a header for every request that added tags, with or without tags
  left. The path of a tag has less than 512 bytes, since its words are counted in a byte.
  `sort.Slice` on distinct keys is the sorted sequence.
- `Discovery`: a symbol's instance is its position; pages have at least
  `MinPage` symbols; templates do not contain themselves; names cut at a chunk's end are not told apart from absent ones. The
  run has one caller: two are too many states for a run. The theorems are about any
  number of them.
- `TagProvider`: one provider, whose path is routed; names are in lower case, as
  `TagRead` looks them up; paths and values were decoded; writing several
  values to an element of an `[]any` is left out, and so is a read of no elements. Of the Go
  types there are two integers and a string; integers convert to each other and to strings,
  and a string to nothing else. Requests that read the
  server's own attributes change nothing and are left out.
- `TagAccess`: elements have 32 bits, and a tag a number of them; the Go types
  are a number and one bit of it; paths have at most one index. A write of a bit
  is left out: the code sends the element's path without the number of the bit.
  A tag's instance changes only with a download; tags keep their names.
- `Encoding`: values have at most 30 bits, the range of TLC's integers; floating
  point and 64-bit values are copied as bytes like others of their size, and are
  represented by them. A string has the 82 characters of the STRING type.
  `ReadPacked` and the reply of `ListServices` are left out.
- `ImplicitSubscription`: the encoding of paths and of the forward open is left
  out; a panic is a state of the goroutine that panics.
- Not modelled: vendor, device and error tables, examples, L5X conversion, canned
  queries and code generation keep no state between calls and have no order that
  could go wrong.

## Order of the work

By how much depends on it: the client's exchange, the server's connections, batch reads,
subscriptions, the data table, discovery, the tag provider, single reads and writes, and
the encoding. All of these but tag subscriptions, whose properties are liveness, have
their safety properties proved, of the encoding those about paths, routes and identities.
What would come next: an abstract map of regular registers, which `TagProvider` and the
calls of `TagAccess` implement, and `IOChannelProvider` with subscribers that do not
receive or come late.
