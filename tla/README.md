# Verification of xpb

xpb turns a schema (`.xpb`) into encoders and decoders for six languages, all
of one wire format without tags: fields in order, fixed-width scalars, a
one-byte presence flag for optional fields, a count before repeated fields and
maps, and a compact length (one byte, or a marker and four bytes) before text,
bytes and nested messages.  This directory holds TLA+ models of the parts where
that can go wrong in ways a unit test hardly reaches, TLC runs over small
instances, and TLAPS proofs for all values of the constants.

Sections: 1 inventory, 2 modules, 3 runs and bounds, 4 fairness, 5 proofs,
6 disagreements between code and docs, 7 what is not modelled, 8 plan.

## 1. Inventory

| Part (paths under `src/`) | State | Operations | Hard behaviour | What makes it correct |
|---|---|---|---|---|
| Browser worker pool (`runtime/ts/src/worker-pool.ts`, `worker.ts`) | workers, idle queue, pending map, next id, initialized flag, detached buffers | `init`, `decodeInt32Array`, `decodeStringArray`, `getWorker`, message handlers, `terminate` | an await in `init` and in every decode, several callers, late replies, `postMessage` that throws | one call per worker; a reply reaches its own caller; calls end |
| Node worker pool (`node-worker-pool.ts`, `node-worker.ts`) | the same | the same, `init` without an await | threads that die and are only logged, copies and posts that throw after a worker was taken | the same |
| Go runtime (`runtime/go/xpb/xpb.go`) | `sync.Pool` of encoders, a buffer per encoder | `GetEncoder`, `PutEncoder`, `Append*To`, `*At`, `Run*At` | goroutines, slices that share arrays, counts and lengths at limits | no sharing; no read past the end |
| Go emitter (`pkg/codegen/golang`) | none | `Marshal`, `MarshalTo`, `Unmarshal` as generated | coalesced runs with computed offsets, nested encoders, reuse of a target | same bytes as everyone; nothing stale |
| TypeScript runtime and emitter (`runtime/ts/src/index.ts`, `pkg/codegen/typescript`) | buffer, view, position | `encode`, `decode`, `decodeAt` as generated | text that is not UTF-8, growth by `transfer()` | same bytes, same verdicts |
| C runtime (`runtime/c/xpb.c`) | buffer, capacity, position, error flag | create, `write_*`, `finish`, `reset`, `destroy`; reads | `size_t` arithmetic, every allocation may fail, errors that must stick | no write out of bounds; all or nothing |
| C emitter (`pkg/codegen/c`) | none | `T_marshal`, `T_unmarshal` as generated | error paths of nested calls, ownership of blocks, presence by pointer | no leak; failures reported; same bytes |
| Relay between languages | a message on the way | encode, send, decode | damage on the way, values only some languages keep | what arrives means what was sent |
| Schema and wire constants (`pkg/ast`, `pkg/wire`) | none | – | the length threshold | – |
| Lexer and parser (`pkg/parser`) | position in the text | tokens, declarations | combinations no emitter supports | what is accepted can be generated |
| Lua, Java, Rust | as TypeScript | the same codec | the same | the same |
| Other untagged TypeScript runtimes (`browser.ts`, `node.ts`, `hybrid.ts`, `jit.ts`, `collections.ts`) | a growing array or a slab of fixed size, a position | write and read by type, compiled encoders and decoders, `finish`, `reset` | fast paths by length and by engine, arrays that are full, calls that throw halfway | agree with `index.ts`, byte for byte and value for value |
| Tagged TypeScript runtimes (`hyper.ts`, `unsafe.ts`) | an array that grows when asked, a pool of encoders | writers and readers by type, `skip`, batches | varints and zigzag at the limits, a tag or a length past the end, fields a reader does not know | readers get the fields they know |
| Readers on demand (`lazy.ts`, `view.ts`, `compileAccessor` of `browser.ts`) | a buffer, offsets, a cache | scan, `get`, getters | the buffer is detached or written anew after the scan | what is read is what was written, or an error |
| WASM loader (`wasm.ts`) | an instance, a memory, a view of it | `initWasm`, varints through the memory | calls of `initWasm` that overlap, failures | instance and memory belong together |
| `cmd/xpbc`, `cmd/ci`, `cmd/xpbench` | none that outlives a run | read, parse, emit, spawn, measure | I/O | – |

The parts meet in three ways.  Emitters write calls of the runtimes, so that a
generated codec is one program with its runtime.  Programs in different
languages share only bytes.  And callers share memory with the library: with
the pools (an `ArrayBuffer` that is transferred away), with the Go encoders
(the slice `Marshal` returns) and with C (blocks that the caller has to free).

`PROJECT.json` lists the hazards, each at its line, with the properties that
would catch it; a hazard without a property says where the plan takes it up.

## 2. Modules

| Module | Models | State and actions |
|---|---|---|
| `PoolBase` | what both pools share | one variable per field of the class; `call`, `held`, `buf`, `answer` are the local variables of the callers; `inbox`, `outbox` the message ports |
| `BrowserPool` | `XPBWorkerPool` | adds `inits` (init calls at their await), `hello`, `ready`; one action per piece of code between two awaits, and per handler |
| `NodePool` | `XPBNodeWorkerPool` | adds threads that die, payloads in shared memory (`Shared`) and a caller that gives a payload away (`Detach`): `Post` throws for both |
| `DecodeService` | what a pool promises | each call is accepted once, served by a worker of its own, and ends at most once with its own payload or a rejection |
| `Wire`, `Schema` | lengths, scalars, widths; field labels and types | operators on bytes |
| `GoCodec`, `TsCodec`, `CCodec` | the three generated codecs | recursive operators: bytes from a value, and value or failure from bytes |
| `Interop` | a message relayed between programs | `Send`, `Receive`, `ReceiveReusing`; `Truncate`, `Corrupt`, `Extend` are the carrier |
| `GoEncoderPool` | pooled encoders and generated `Marshal`, `MarshalTo` | `pool`, `encBuf`, `heap` (arrays), `stack` (calls per goroutine), `kept` (returned slices); one action per statement of the generated body |
| `CEncoder` | the buffer of the C encoder | operators with a set of outcomes where an allocation may fail |
| `CEncoderUse` | a program using one encoder | one action per function of `xpb.h`; a write is made up of pieces, as the code makes it of calls of `ensure_capacity` |
| `TsText`, `TsWriters`, `TsReaders` | text and its UTF-8, and the writers and readers of `index.ts`, `browser.ts`, `node.ts`, `hybrid.ts`, `jit.ts`, `collections.ts` and the workers | operators: an encoder from an encoder, with its arrays, position and whether it threw; a value or a failure from bytes |
| `TsTagged` | `hyper.ts`, `unsafe.ts` | the same, with tags, varints and skipping |
| `TsLazy` | `lazy.ts`, `view.ts`, `compileAccessor` | offsets from bytes; a value from offsets and what the buffer is then |
| `TsRuntimes` | one encoder of any of these runtimes in use | `enc` (its arrays and position), `views` (what `finish` gave), `reader`, `got`; `Write`, `WriteTagged`, `WriteItem`, `WriteObject`, `WriteCollection`, `Finish`, `Reset`, `Open` and `Touch` (a reader on demand), `Deliver` (a decoder) |
| `WasmInit` | `wasm.ts` | one variable per variable of the module, `pc` and `imports` for each call of `initWasm`; one action per piece of code between two awaits |
| `CMarshal` | generated `T_marshal` for nested messages | `stack` of calls with an encoder each, `blocks` allocated |
| `MC*` | constants for TLC | – |
| `*Proofs` | theorems | – |

`BrowserPool` and `NodePool` extend `PoolBase` and implement `DecodeService`
(`ImplementsService`, a refinement by state functions).  `Interop` composes the
three codecs.  `CEncoderUse` and `CMarshal` both run `CEncoder`.  `TsRuntimes`
composes the writers, the readers and the readers on demand: every message it
makes is compared with one definition of its format (`OnWire`, `Tagged`), and
goes to each decoder of that format.

Abstractions.  A payload of a pool is a model value.  In `GoEncoderPool` what a
field writes is one cell, named by message and field, and in `CEncoder` a piece
has a size and a kind: which bytes these are is the question of the codecs.  In
the codecs a byte has few values (`Base`), texts are sequences of stand-in
bytes (one for NUL, one for U+FEFF, one for bytes that are not UTF-8 and
one for U+FFFD, which TextDecoder puts in their place), floats are
words like integers, and the pointer and the value style of Go's optional
fields are one, for they write and read the same.  The TypeScript modules take a
byte of three bits, so that JavaScript's units of one, two and three bytes, U+FEFF
and ASCII differ; the limits of fast paths (64, 40, 20 and 16 in the code) are
constants of their own, and `TagRadix` is 4 instead of 8.  What a program may write
with each encoder is `IsField`: a field's value has the field's type, but a number
may be out of its range, and a text passed for Base64 need not be any
(`not_base64`: its value stands for the bytes of the groups before the wrong one).
`UnsafeSize` bounds one thing: bigints of `unsafe.ts` leave the range of their type by
one bit (int64), and are not so far below 0 that `Number(v)` is rounded (uint64).

## 3. Runs and bounds

Every run also gives its constants a meaning in its `.cfg`.

| Run | Question |
|---|---|
| `browser_pool`, `node_pool` | with callers that share buffers, decode before `init`, call `init` twice and terminate at any time: are workers exclusive, do replies find their caller, is no request or worker mislaid, which calls never end, and does the pool implement `DecodeService`? With orderly callers: does every call end, are only current workers offered? |
| `interop` | do Go, TypeScript and C write the same bytes, reach the same verdict and keep the message, over three hops and with one byte of damage? The same between Go and TypeScript alone, with the values C cannot keep. |
| `go_encoders` | are encoders and arrays never shared, does what `Marshal` returned stay what it is, does a pooled encoder hold one message only? |
| `c_encoder` | does one C encoder stay in its block and report failures, for any sequence of calls? |
| `c_marshal` | do nested marshal calls stay in their blocks and free theirs; what is lost when allocations fail? |
| `ts_runtimes` | does every encoder of `runtime/ts/src` write its format whatever grows, throws or is reset; do views keep their bytes; what does each decoder, and each reader on demand, make of it, whole or cut? |
| `wasm_init` | do varints pass through the WASM memory unharmed, with calls of `initWasm` that overlap as far as this is harmless; and does every `initWasm` return? |
| `c_integers_under_gcc`, `c_map_values`, `jit_lists`, `hyper_fields` | see section 6 |

*Pools*: three calls, up to two workers, one payload below the worker
threshold, one above, one malformed, and for Node one thread that dies.  Three
calls are enough for one that holds a worker, one that polls and one that
arrives.  `PoolSize` is 1, so that the second worker belongs to a second `init`:
in the browser one that overlaps the first (two live workers in one queue), in
both a pool after `terminate`, which late replies of the first one reach.  The
proofs cover all other sizes.  `orderly` is chosen at the start of a behaviour
and says whether callers keep to a discipline: they decode while the pool is up,
pass a payload once and terminate an idle pool, and no thread dies; with Node they
pass no view of shared memory and give a payload away only when its calls have
ended.

What the discipline excludes is not shown by the properties that assume it.
`QueueIsCurrent` is about callers that wait for their calls before `terminate()`:
the late reply that brings a stopped worker into the queue (`worker-pool.ts:73`)
cannot happen to them, and for the others `EndsOrStranded` names the calls that get
such a worker.  `InitializedHasWorkers` is about callers that await `init()` before
anything else; for the others `WorkerAccounted` holds of every worker there is.
`EveryCallEnds` of the Node pool is about payloads that can be posted: after one
that cannot, a pool of one worker has none left, and later calls poll for ever.
The payload `shared` of `node_pool` makes that happen, and `NodeWorkerAccounted`
and `EndsOrStranded` name the worker and the calls.

*Interop*: `Base = 4` makes an int32 four digits of two bits, the marker 3 and
the threshold 2, so that texts of 0 to 3 bytes cross it; arrays have at most two
elements and depth at most two, so that values just beyond both limits occur.
The schemas have a run with an enum and a bool, a message that starts with a
nested one, all four labels, and two recursive messages.  Three hops take a
message through every ordered triple of languages; only the first hop damages
it, because what is accepted then is a message like any other.  The relay ends
after the last hop and at a refusal, so that deadlock is not checked.

*Go encoders*: two goroutines, two messages, arrays that start with one cell
and so must grow, a message with a nested one and an absent one.  Seven encoders
and twelve arrays are more than these calls can use at once: allocation never
stops a goroutine.  The run ends when both messages are encoded, so that
deadlock is not checked.

*TypeScript runtimes*: thirteen runtimes (each class, on engines with and without
`transfer` and `setFromBase64`, with and without `Buffer`), numbers at the limits of their types and one past
them (bigints of `unsafe.ts` below, above and far above theirs), texts that are empty, ASCII, of two and three bytes a unit, at the
threshold and above it, bytes, Base64 and what is none, lists and maps.  Two writes (`MaxWrites`)
are enough for one that starts after another failed, grew or left a tag; two
views and one reset for a view that outlives the array or the message it shows.
Arrays start with 4 cells, so that growing doubles or more than doubles them;
slabs and tagged arrays have sizes at which some fields fit and others do not.
`ShortWrite` is 4, `ShortRead` and `JitShort` 3, `LatinLimit` 2: texts lie on
both sides of each.  A message goes to a decoder once, and the behaviour ends
there, so that deadlock is not checked.  The runtime, the engine and the reader
are chosen per behaviour.

*WASM*: three calls, each of which may fail at either await, before, between and
after varints; two are enough to overlap, the third comes after both settled.
`orderly` says that no call begins while another awaits its instance: calls that
overlap before that are part of every property.
All calls may have been made, so that deadlock is not checked.

*C*: `SizeMax` of 31 and 63 let sums and doublings wrap around; lengths go up to
the point where they must fail; four pieces are a length, a body and two more.
A capacity of 20 doubles to a smaller number.  The proofs cover other widths.

*Mutants*: every property has one, an operator next to the definition it
mutates; it is the definition with a plausible mistake, such as a worker that is
read and not removed from the queue, or an offset by index instead of by width.

## 4. Fairness

The pools and `WasmInit` state liveness.  `FairSpec` has weak fairness of: the start of a
worker script, the dispatch of messages and 'ready' messages, the continuation
of an `await` whose promise is settled, the interval timer of each polling call,
and a worker taking a message.  The event loop gives all of these: a timer or a
message that stays due is run.  Callers owe nothing (they need not call
`init`, nor decode, nor give a payload away), and no thread is obliged to crash.  Timers and messages wait until pending
microtasks have run (`Quiet`).  Polling calls have fairness each, but none
against the others: `EveryCallEnds` holds because there are finitely many calls.

`WasmInit` has weak fairness of each call's awaits: the engine settles the
promises of `compile` and `instantiate`, one way or the other.  Nobody is
obliged to call `initWasm`.

The runs without fairness check safety.

## 5. Proofs

All theorems are of the form `Spec => Property`, and all but one (`CutRefusedHolds`,
see below) from the named assumptions on the constants alone (`PoolAssumption`, `CrashAssumption`,
`GoEncoderPoolAssumption`, `CEncoderAssumption`, `CEncoderUseAssumption`,
`CMarshalAssumption`, `WasmInitAssumption`, `WireAssumption`, `TsTextAssumption`,
`TsRuntimesAssumption`, and `NestingAssumption` of
`GoEncoderPool` and `CMarshal`: no message is nested in itself.  The last one is
about messages and not about their types: the constant `Types` has an element
for each choice of nested messages that are there, so that a tree of nodes of
one generated type is a chain of elements, and only a cycle of pointers is
excluded, on which the generated code does not return).

*Pools* (`PoolProofs`, `BrowserPoolProofs`, `NodePoolProofs`): type correctness,
`Exclusive`, `RepliesFindTheirCaller`, `OwnAnswer`, `NoLostRequest`,
`WorkerAccounted` and `NodeWorkerAccounted`, `QueueIsCurrent`,
`InitializedHasWorkers`, `ExactlyOnePool`, and that both pools implement
`DecodeService`.

`Exclusive` is not inductive: a reply puts a worker back in the queue, which is
safe only if the call it answers still holds it.  So `CoreInv` adds that a
message in flight matches a waiting call with the same worker and payload, that
ids are used once (`EntriesDistinct`), that a request is in flight once
(`MessagesDistinct`), and that queued and held workers have been constructed, so
that new ones differ from them (`Constructed`).  `PoolProofs` has one lemma for
each shared step; the other two modules lift it to their actions.

The properties about which workers there are follow from what a step does to the
set `Owned` of the workers in the queue and in the hands of calls: a call that
takes, posts or ends passes its worker on (`HandedOn`), new workers are added
(`SpawnOwned`), and only `terminate` and a `postMessage` that throws take any
away.  `Accounted` says that the current workers are owned, or were abandoned by a
post that threw, `OwnsCurrent` the converse for orderly callers.  In the Node pool the
abandoned ones are those of `FailedPosts`: the entry of such a call is pending for
good, it holds the worker, and its payload cannot be posted, which no later step
undoes.  That orderly callers lose none needs `Postable`: what they have passed and
is not yet settled is neither shared nor detached.  That the flag
describes the pool is not inductive where `init` awaits: `InitAwaitsPool` adds
that, with orderly callers, one `init` at a time waits, for exactly the workers
there are, and that there are none before it.  `NodePool` has no await there,
and `PoolIsWhole` holds for all callers.

The refinement is by steps: under the invariant each action is a step of
`DecodeService` or leaves its variables alone (`ServiceStep`).  The guard that
is not there by name in the code is `HasRoom`, fewer served calls than workers.
It comes from `Exclusive` and `Constructed`: served calls hold different workers
out of those constructed, and the worker about to be taken is one more
(`IdleWorkerIsRoom`).  That a call resolves with its own payload comes from the
match between a reply and the call.

*Go encoders* (`GoEncoderPoolProofs`): `Exclusive`, `ArraysApart`,
`ReturnedBytesStay` and `MarshalToEncodes`.  The first two, with the types of
owners, are inductive together.  The argument is ownership.  `OnlyOf(g, n, a)`
says that only the nth call of goroutine g has array a; a step
changes the arrays of one call to one it owned or to one nobody can reach
(`FreshArray`), or hands an encoder with its array over between a call, the pool
and the results.  One lemma for a change, one for the start and one for the end
of a call serve all actions.

The other two are about contents.  `DataInv` says of every call that its slice
holds the fields before its next one (nothing before `buf` is bound, all of them
once it is done), that an outer call waits at the field the inner one encodes,
and that every kept slice holds its message.  Owners being apart, a step writes
an array that no other call and no result can see (`SameBut`, `CallUntouched`,
`KeptUntouched`), so that each action needs an argument about one call only.
The theorems bound neither goroutines nor messages nor nesting.

Both properties compare with the recursive function `EncodingUpTo`, and a proof
may use its equation only once the equation is known to have a solution.
`RecursionDefines` shows that for any definition that looks at lower points
only: solutions on downward closed parts agree, and the largest part that has
one leaves out no lowest point.  `NestingAssumption` makes the order of fields
and nested messages such an order (`BelowIsLowest`).

*C encoder* (`CProofs`): lemmas about each operator of `CEncoder`
(`EnsureCapacity` returns an encoder with the room asked for or with the error
flag set, for any width of `size_t`; `Finish` gives all or nothing), then
`EncoderTypeOK`, `EncoderInBounds`, `FinishReports` of `CEncoderUse`.  For the
last one the invariant says that what is stored and what is left of the call add
up to what was asked for unless the flag is set (`Progress`), and that every call
starts with a piece that is not empty (`StartsNonEmpty`): else an encoder at
position 0 would not be one where nothing was asked for.

*C marshalling* (`CProofs`): `TypeOK`, `InBounds`, `NoLeak` and
`LossIsWholeMessages` for all messages, depths and patterns of failures.
`NoLeak` speaks of the moment a call returned to the caller; the invariant keeps
the account at every moment: two blocks for each call in progress, one for each
`nested_data` not yet freed, and one for what the caller has.

`LossIsWholeMessages` needs `DataInv`: an encoder without an error holds, with
the pieces left of its field, one of the encodings of the fields before the next
one (`FrameHolds`), and the calls below wait at the message that is being made
(`Around`).  After a failure the encodings with empty nested messages count too,
and there are only more of those (`FailureWeakens`).  A piece is put in the block
as a whole or sets the flag, which stays, and `finish` gives nothing then: no
part of a message gets out.  The encodings are again a recursive function; its
values are sets, so that the argument for its equation is made for functions
without a given range (`SolutionsAgree`, `EncodingsEquation`).

*WASM* (`WasmInitProofs`): `TypeOK` and `OrderlyVarintsSurvive` for any set of
calls.  The second is not inductive: that instance and memory are one
(`SameMemory`) survives an `Instantiated` step only because what that call imports
is the memory in use (`ImportsInUse`): it was when the call was compiled, and only a
call that begins makes another.  Calls may overlap while they are compiled, fail,
and leave a memory behind, which the next one replaces before there is an instance.

*TypeScript runtimes* (`TsWritersProofs`, `TsRuntimesProofs`): `TypeOK`,
`ViewsKeepTheirBytes`, `FinishIsTheMessage` and `CutRefused`, for any fields (numbers, texts,
bytes and lists of any size), any sizes of the first array and any number of
writes, views and resets.  The byte of the model has three bits (`Base` is 8, in
`TsTextAssumption`), and with it UTF-8 has one, two and three bytes for its units;
the theorems are about that format, not about bytes of other widths.  "Any size"
is meant of texts, bytes and lists.  Integers may be out of the range of their type,
and what the code makes of them is in the model; the int64 and uint64 of `unsafe.ts`
are bigints that it does not cut to 64 bits (`Zigzag64`, `BigVarint`), and for those
out of range `FinishIsTheMessage` says nothing (`Carried`).  `UnsafeFits` shows
that for the others these writers give the format's varints.

The first module is about one call.  `Writes(e, x, b, fits, transfer)` says that
from the encoder e a call reaches x: it leaves what was before the position
(`Kept`), and, if it returns and the bytes fit, x stands at their end and has them
(`Holds`).  That cells before the position are kept is more than that they are the
same in the array in use: the array that was in use, which a view may point to, is
unchanged up to the position, or detached.  Every writer gets a lemma of this form
(`WriteStringIs`, `UnsafeStringIs`, `JitEncodeIs`, ...), with b the definition of
the format (`OnWire`, `Tagged`), and the argument is the one the code relies on: a
text that turns out not to be ASCII is written again from the same place, and what
was stored in the meantime lies behind the position, as does what `setFromBase64`
has stored when it throws (`StoreAndThrowIs`); three bytes for each unit are
enough for UTF-8 (`Utf8Is`), so that what `encodeInto` is given fits; an int64
in two halves, of which the lower one is unsigned, is the same eight bytes
(`HalvesIs`).  `Grown` is `Writes` for encoders that reserve room, `Slab` for those
whose array stays as it is, which write the message only where it fits.

The second module is about programs.  The invariant says that, unless a write
failed halfway, the bytes in use are those of the values asked for (`MessageOk`),
and that a view of the message being written ends before the next byte to be
written (`ViewOk`).  A view is kept because of that alone: a call changes nothing
before the position of the array in use, and nothing in older arrays.  A reset
moves the position, and only the epoch of the views says which of them the next
write may change.  TLC finds no state of `ts_runtimes` outside of the invariant.  For `FinishIsTheMessage` a call's bytes are appended to those of
the message (`MessageLonger`), or, when it throws before it moved the position, the
message is as it was (`MessageSame`).

`CutRefused` is about readers.  A decoder gets the first n bytes of a message, and
the theorem says that it fails for each n less than all, for the five decoders that
check for the end.  What a decoder makes of the values is not needed for it, only
where it stands: `ReadsWire(r, b, p, w)` says that a read at p of bytes that show w as
far as they go (`Shows`) ends, if it succeeds, right after w, within the bytes there
are (`EndsAt`).  This holds of fixed widths and lengths (`ReadScalarIs`), of as many
reads as a count says (`EachEnds`, `ManyEnd`), of each kind of field
(`ReadItemEnds`, `WorkerEnds`, `OffsetsEnd`) and so of all fields (`DecodedEnds`): a
decoder that succeeds stands at the end of the whole message, which is beyond the
bytes it was given.  `CutInv` adds to the invariant above that the first view goes on
to show its message until the next reset (`ViewShows`, kept by the two theorems on
writers).

`CutRefusedHolds` has a hypothesis, `LengthsFit`: the lengths of lists, texts and
blobs that a program writes are below Base^4 (4096 here, 2^32 in the code).  A
length is four bytes wide and neither `writeCompactLength` nor `writeInt32` checks
it, so that a longer blob would have the length of a shorter one, and a front of the
message might be accepted.  The length of an array is less than 2^32 in
JavaScript, and texts are shorter in all engines; only a `Uint8Array` of 4 GiB or more,
which some engines allow, is left out.  TLC finds `LengthsFit` true of the fields of
`ts_runtimes`, and no state of it outside of `CutInv`.

The folds, joins and varints that these operators are defined by have values that
the provers do not know until someone shows that their equations have solutions.
This is done once for the folds over sets of indices (`FoldsExist`), once for
`FlattenSeq` (`JoinsExists`, `FlattenCat`) and once for `Varint` (`VarintIs`), always
from solutions on the numbers up to n, by taking the lowest number that has none
(`Reaches`).

Only model-checked are:

- liveness: `EveryCallEnds`, `EndsOrStranded` and `EveryInitReturns`; the prover
  does not reason about fairness and ENABLED.
- `Interop`: `OneWire`, `RelayKeepsMessage`, `OneVerdict` and `ReuseKeepsOnlyAbsent`.
  The codecs are recursive operators over nested values, which the provers do not
  take.
- what the readers of `TsRuntimes` give back: `DecodersAgree`, `TaggedRoundTrip` and
  `LazyAgrees`.  Each compares the values that a loop over bytes computes with
  those that another loop wrote, through the inverse of UTF-8 in every variant of
  it: an induction over data.  The theorems about the writers say which bytes the
  readers are given, and `CutRefused` where they stop.
- Which bytes the cells of `GoEncoderPool` and the pieces of `CEncoder` are: the
  theorems above are about whole fields, `Interop` is about their bytes.

## 6. Where code and docs disagree

Each has a run in which TLC finds the counterexample.

1. `c_integers_under_gcc`: `runtime/c/xpb.c:107` decides the byte order by
   `_WIN32` and `__LITTLE_ENDIAN__`; gcc on x86-64, the compiler of the README,
   defines neither, and integers are written most significant byte first.
2. `c_map_values`: the C emitter neither writes nor reads map values that are
   bytes or a named enum (`pkg/codegen/c/emitter.go:324`).
3. `jit_lists`: in the decoder that `jit.ts` compiles without `Buffer`, the loop
   over a short text (line 396) and the one over the elements (line 287) share
   `var i`: elements are lost, misplaced or read again.
4. `hyper_fields`: `E.i32` leaves the zigzag of an int32 signed (`hyper.ts:66`), so
   that one from 2^30 on, or below -2^30, is written as one byte.  The property,
   that a reader gets the fields it knows, would still fail if this were repaired:
   `D.skip` adds a length to the position from before it was read (`hyper.ts:212`),
   and lands inside the text or bytes it skips.

Other disagreements have no run of their own.  The properties of the passing
runs name each as the condition under which they hold, and for `DecodersAgree`
the condition is exact: where it fails, so does the agreement.

- Optional bytes that are present and empty are absent once C has read them
  (`xpb.c:370`; `CKeeps`, in `RelayKeepsMessage`), and C ends texts at a NUL.
- `TextDecoder` drops a leading U+FEFF (`index.ts:64`; `TsKeeps`, `Understood`);
  `node.ts`, the Node workers and Node's compiled decoders do not.
- A failed nested `T_marshal` is written as an empty envelope and the outer one
  succeeds (`pkg/codegen/c/emitter.go:223`); `LossIsWholeMessages` says how far
  this goes: whole nested messages are lost, never a part of one.
- A C length above `UINT32_MAX` is truncated (`xpb.c:180`); `c_encoder` runs with
  a length field narrower than `size_t`.
- Compiled encoders and `collections.ts` keep one byte for the length of a text
  (`jit.ts:198`), `collections.ts` one byte for each unit (`Carried`).
- The compiled browser decoder takes texts of up to 16 bytes for Latin-1
  (`browser.ts:702`; `Understood`).
- What is compiled leaves out bytes and messages; in `browser.ts`, lists.
- `browser.ts:326` puts an int64 together from two unsigned halves, so that a
  negative one comes back positive, against the "two's complement" of line 317;
  compiled decoders do the same (`ReadsUnsigned`, in `Understood`).
- Where `Buffer` exists, the decoder that `jit.ts` compiles calls
  `buf.toString('utf8', ...)` (line 392) on whatever `Uint8Array` it gets (line 237).
  One that is no `Buffer`, such as `finish()` of `index.ts` gives, ignores the
  arguments: each text is all bytes of the message as decimals with commas
  (`jit_plain` in `JitText`; `Understood` has no text for it).
- `node-worker-pool.ts:109` says "zero-copy transfer if possible, or copy"; the copy
  of a view of a `SharedArrayBuffer` is in shared memory too, and `postMessage` throws
  for it in the transfer list (line 113; `Post`).
- `writeInt32` of `unsafe.ts` ends after one byte as `E.i32` does (`unsafe.ts:64`;
  `Carried`), and a tag of `hyper.ts` is one byte whatever the field number.
  `TaggedRoundTrip` leaves out both, and, with `Skippable`, what `D.skip` does.
- `unsafe.ts` does not cut bigints to 64 bits: out of range, the zigzag of an int64
  has a wrong bit (line 76) and a uint64 is one byte, or a longer varint (lines
  94-101; `Carried`).
- A text that is no Base64 makes `writeBase64AsBytes` throw, in `browser.ts` after
  the position has moved by one (line 228): what is written next follows a stray
  byte (`BrowserNotBase64`, `whole`).
- In `unsafe.ts` a tag that meets a full array is lost though `writeString` then
  grows the array (`WriteTagged`, `whole`).
- Accessors read a text of 255 bytes or more as "" and have no getter for what
  follows a text (`HasGetter`, `Offered`).
- A call of `initWasm` that begins while another awaits its instance may leave the
  instance of one and the memory of another (`wasm.ts:37`; `orderly` in `WasmInit`).

The pools have a behaviour that the docs do not speak of and so is not listed as
a disagreement: after `terminate()` a call in progress never settles, and a
worker whose `postMessage` threw, or the copy before it, is never used again.
`EndsOrStranded`, `WorkerAccounted` and `NodeWorkerAccounted` say exactly which
calls and workers.

## 7. Not modelled

- Lua, Java and Rust: three more codecs of the same format; `Interop` takes them
  as further programs once each has a module like `TsCodec`.
- The lexer and the parser: they run once, alone, on a text; what they accept
  that no emitter supports is worth a module, and is in the plan.
- `cmd/`: files, processes and measurements, without state of their own.
- The WebAssembly code in `wasm-module.ts`, a Base64 text.
- Within the modelled parts: generated text (layout, names, imports); the
  methods of Go's `Encoder` and `Decoder` that generated code does not use; how
  numbers and text look in memory; the C decoder's flag and the blocks it
  allocates; what decoders that check nothing (`node.ts`, `node-worker.ts`,
  `collections.ts`, compiled ones) make of a message that was cut; `skip`, `eof` and
  `remaining`; unpaired surrogates.
- Data races inside one Go encoder that a program shares between goroutines
  itself: the docs ask it not to.

## 8. Plan

Done so far: the pools, the three generated codecs and their relay, the Go
encoder pool, the C encoder and C marshalling, the TypeScript runtimes, the WASM
loader.  What is left, the most important first:

1. `CDecoder` and `CUnmarshal`: the decoder's sticky flag, counts, and who owns
   the blocks of a message that fails half way; proofs as in `CProofs`.
2. `GoDecode`: zero-copy reads as slices of the input, with the arrays of
   `GoEncoderPool`: which messages change when a receive buffer is used again.
3. Proofs: that a reader of `TsReaders` gives back what a writer wrote, value by
   value, from the bytes that `TsWritersProofs` says are there.
4. Java, Lua and Rust as further programs of `Interop`.
5. The parser as a function on tokens; which schemas it accepts that an emitter
   does not support.
