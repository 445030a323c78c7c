# Verification of jabcode

TLA+ models of the concurrent, stateful and coding parts of `srlehn/jabcode`, the TLC runs that check
them, and machine-checked proofs about ten of them. The repository decodes and encodes JAB Codes
(ISO/IEC 23634 and its relatives): a still image, or the frames of a camera, go in; a message comes
out. Source paths below are relative to `src/`; `gpu_*.go` without a directory is in
`internal/detect/`.

## 1. Inventory

How a read runs: the public API (`decode.go`, `stream.go`) hands an image to `internal/read`. A still
read builds a resolution pyramid and searches every level at once (**resolution pyramid**); inside a
level the proposed regions are searched concurrently (**region search**); one route locates the
finder patterns, samples modules, reads metadata, corrects errors (**locate**, **read ladder**,
**symbol decoding**), walks the docked symbols and interprets the bits (**message decoding**). With a
GPU the routes lease per-route device contexts (**context pool**) inside a session of the one resident
workspace of the process (**runtime and sessions**); all contexts of a device share its compiled
kernels (**kernel set**), and each records command lists over buffers of its own (**resident
context**). A `Stream` does a bounded amount of that for each camera frame and carries state between
frames (**stream scheduler**, **evidence group**). The encoder chooses modes for a message, writes bits
(**message encoding**) and constructs symbols (**symbol construction**).

| Component | State it keeps | Operations | Shared with | What is hard | What makes it correct |
|---|---|---|---|---|---|
| Resolution pyramid, `internal/read/pyramid.go` | atomic `winner`, result slots, `done` and `settled` channels, the seed channel | frame read, region search, seeded route, commit, publish, join | its goroutines, the session, the lazy levels | interleaved commits; a publish that races the last close; cancellation | the returned slot decoded; no failure while a route decoded; every goroutine ends |
| Region search, `internal/read/read.go` | slots, `winner`, the process-wide semaphore of CPU bodies | run a slot, commit, cancel, join in order | the level's goroutine and its quit hook | cancellation by a sibling and by the caller; a leaked semaphore slot | same route and finding as a sequential ladder |
| Route-context pool, `gpu_decode.go` | free list, live contexts, byte plans, `creating`, `draining`, `closed`, a condition variable | acquire, try-acquire, create, retire, release, drain, reopen, close | all routes of a read, warm-up, sessions | the lock is dropped while a context is created; failed creation; parked waiters; a caller with two leases | exclusive leases, exact accounting, single flight, every request answered, every drain ends |
| Runtime and sessions, `gpu_decode.go`, `pyramid.go`, `stream.go` | `workspaceMu` held as a lease, the workspace and its ladder, a session's operations and leases | warm, begin, enter, prepare, invoke, close | reads, Streams, the warm-up | a returned read leaves routes behind; drain and close at once; a Stream that keeps its session | no route sees another image's pixels; reads, sessions and frames end |
| Kernel set and device cache, `gpu_kernels.go`, `gpu_subgroup.go`, `gpu_runtime.go` | the cached device or its error, a cell per kernel, warm-up flags, the probe of subgroups | open, ask, look up, compile once, warm stage by stage, fall back, close | every context of the device | a close beside compilations; sticky failures; a flag that tells of the wrong stage | one answer of the cache for everyone; nothing compiled survives the close; a fallback has a reason |
| Resident context, `gpu_resident_binarizer.go`, `gpu_finder_*.go`, `gpu_sample.go` and the others named in `PROJECT.json` | some hundred device buffers, the host's copies of them, pools, caches, retained grids | record a command list, submit it, read results back, materialize later | the route that leases it, the lease before it | barriers nobody checks; a submission that breaks off; buffers that outlive a pass, a lease, a grid | every shared buffer is separated by a barrier; what the host is handed derives from what it asked about |
| Finder detection, `detectprimary.go`, `findprimary.go`, `directional*.go` | plan of passes, candidates, the detector's closures | raw and prepared passes, row and directional scans, folds, retries, late masks | the context | order of device and host stages, cancellation, closures used late | patterns come from the current pass and the current lease |
| Read ladder inside a route, `internal/read/read.go`, `internal/decode/observe*.go` | sampled grid and resamples, metadata, the wire variant | sample, observe, admit, correct, resample by alignment | the context, symbol decoding | a device answer for another grid, a displaced grid, stale parameters | each answer belongs to the grid and variant asked for |
| Symbol construction, `internal/encode/`, `encoder/` | versions, levels, positions, metadata, mask | validate, fit, dock, distribute, rewrite rates, place modules | message encoding | capacity boundaries; metadata rewritten after the host is filled; sizes of rows and columns | what is constructed holds the message and is read back |
| Symbol decoding and docked walk, `internal/decode/`, `internal/read/docked.go` | metadata, palettes, the array of symbols | read metadata, palette, payload; breadth-first walk | error correction, message decoding | default mode taken for what it is not; two loops that must lay out alike; the limit of 61 | writer and reader agree on every module; parts join in order |
| Stream scheduler, `internal/read/stream.go` | remembered hypotheses, the queue of scales, the selected route, confirmed payloads | decode a frame, reset | evidence group, session | frame orders nobody tests; work caps per frame | one correction per frame; no payload that is not on screen; a steady readable scene is read |
| Evidence group, `internal/read/evidencegroup.go`, `internal/decode/evidence.go` | a window of evidence vectors, confirmed payload, miss counters | admit, restart, correct, confirm, reuse | stream scheduler | repeats and near-duplicates; complementary exposures; an anchor on something else | each observation counts once; no mixture of two codes |
| Message encoding, `internal/encode/encode_data.go`, `opaque.go` | the optimizer's rows, the writer's mode sequence and byte-run counters | analyze, write, pad, write structured | message decoding, symbol construction | shifts undone by rewriting; run lengths computed twice; limits 15/16/8207 | the reader reads the same text and controls |
| Message decoding, `internal/decode/decoder.go` | mode, mode to return to, output with FNC1 and 15434 state | one mode field, switch, control or byte run | message encoding | truncation at every bit; two dialects; controls inside shifts | only well-formed ISO messages are accepted; the transmission is unambiguous |
| Error correction, `internal/ecc/`, `internal/ldpccatalog/` | shared matrix cache with eviction | lookup, build, insert, evict | all decodes | eviction at the limit | a caller always gets the matrix of its key |
| Wire variants, image preparation, diagnostics, command line, tables | none or local | capability sets, arithmetic, reports | | | |

`PROJECT.json` lists the components with their files and status, the hazards each is exposed to at
their lines, and the map from definitions to code.

## 2. Modules

### Concurrency of a read

| Module | Models | State and actions against the code |
|---|---|---|
| `RoutePyramid` | `decodePyramidCapabilitiesWithGPU` | One process per level, the seeded one and the reader. `winner` is the atomic; `CommitLoad`/`CommitSwap` are its load and compare-and-swap, so another commit may come between them; `Publish`, `CloseSlot`, `SendSeed`, `ReceiveSeed` are the channel operations; `ReturnSettled`, `ReturnJoined`, `JoinNext` the two readers. What the pixels hold is the constant record `image`. |
| `ReadOutcome` | (abstract) | A read returns one of the verdicts its image and mode allow, once. `RoutePyramid` implements it (`ImplementsReadOutcome`). |
| `RouteSlots` | `runRouteSlots`, the CPU-body semaphore | One process per slot, the joining goroutine, a caller whose quit hook may turn true at any moment. |
| `SequentialLadder` | (abstract) | The regions one after the other; `RouteSlots` implements it (`ImplementsSequentialLadder`). |
| `ContextPool` | `gpuRouteContextPool` | One action per critical section of `pool.mu`. A route in `waiting` has called `cond.Wait`; only a Broadcast moves it. Creation is two critical sections with the device's answer, success, out-of-memory or failure, between them. |
| `GpuSession` | `gpuDecodeRuntime`, `GPUDecodeSession`, their use by a read and by `Stream.refreshGPU` | `workspaceMu` is `lease`. The ladder is torn while it is uploaded. The pool is reduced to the number of leased contexts and its draining flag. |
| `KernelSet` | `gpuDecodeKernels`, the subgroup probe, the device cache | Route goroutines, the warmer and a closer; a cell is entered under `set.mu` and filled once outside it. |
| `RoutePyramidProofs`, `ScheduleProofs`, `ContextPoolProofs`, `GpuSessionProofs` | | Section 5. |

### What a resident context does

A context's code records lists of fills, copies, dispatches and barriers and submits each as a whole.
The modules keep that form: a definition per recording function, whose value is the list.

| Module | Models |
|---|---|
| `KernelLayouts` | the binding layouts of all kernels (`gpu_kernels.go`): what each may read or write |
| `GpuCommands` | the commands of a recorder |
| `BinarizeCommands`, `DirectionalCommands`, `FoldCommands`, `RetryCommands`, `SampleCommands`, `DecodeCommands` | the binding sets and command lists of binarization and row scans; directional scans; folds, pools and the decision on the device; averages, pitch and descreening; sampling, offsets, module counts and alignment; LDPC, payload, metadata and the primary result |
| `CommandRun` | the run of a list: from what held at the start does each buffer derive at the end, what was shown to the host, which dispatch touches a buffer an earlier one is still writing |
| `ResidentContext` | the buffers over submissions: stamps of the pass, lease, grid or variant each derives from; success, refusal and a failure that leaves any mixture (`Torn`) |
| `FinderLocate` | one locate after another on a context: passes, scans, folds, sweeps, retries, late masks, with every submission failing before or on the device |
| `GridRead` | the readings of a located detector: measurements, the shared grid, three displaced ones, walks, corrections, and the batches that locate, sample and decode in one submission |
| `DeviceProofs`, `GridReadProofs` | Section 5; the first holds the proofs about `FinderLocate` and those about `KernelSet` |

`FinderLocate` and `GridRead` extend `ResidentContext`, which extends `CommandRun`, which extends the
command modules. What a kernel computes is left out; what it may touch, and what it replaces or adds
to, is what the properties need.

### Symbols

| Module | Models |
|---|---|
| `SymbolLayout` | the tables writer and reader share, and which module carries what, once as the writer places it and once as the reader looks for it |
| `SymbolWriter` | validation, version and rate choice, docking, metadata and its rewriting inside the host, distribution of the message, mask, geometry of the whole code |
| `SymbolReader` | metadata and default mode, correction, flag bits, the walk over docked symbols, joining |
| `SymbolCode` | one code written and then read, perhaps damaged |
| `SymbolCodeProofs` | Section 5 |

Each of these extends the one above it.

### Streams and messages

| Module | Models | State and actions against the code |
|---|---|---|
| `Stream` | `Stream.decodeMessage` and what it calls | One phase of a frame per action: replay, rescan, frame scan, queued scale, and the end of an observation with its ways out. A frame is what each canvas would show a finder scan and what its modules would correct to. |
| `EvidenceGroup` | `evidenceGroup`, `evidenceAccumulator`, `CorrectEvidence` | Pure operators on a record; evidence is a signed number for each bit. |
| `MessageTables` | `tables.go`, the decoding tables | Alphabets, switch costs and codes. |
| `ModeOptimizer` | `analyzeInputData`, `byteRunOverhead` | `Relax` is the body of the two inner loops for one mode, `Advance` one character or pair, `Analyze` the backtracking and the announced length. |
| `MessageWriter` | `encodeData`, `encodeOpaqueData`, `encodeStructuredData` | The bits as a sequence; `EndShift` the rewriting of the mode sequence; `PadTo` the filling of a symbol. |
| `MessageStream` | `DecodeMessageVariant`, `messageOutput` | A request is written by `Write`, then each turn of the reader's loop is one action and each early end another. |
| `ScheduleProofs`, `MessageStreamProofs` | | Section 5; the first holds the proofs about `Stream` and those about `RouteSlots`. |

The `MC*` modules hold the inputs of the runs. Modules that compose: `RoutePyramid` over
`ReadOutcome`, `RouteSlots` over `SequentialLadder`, `Stream` over `EvidenceGroup`, `MessageStream`
over writer, optimizer and tables, `SymbolCode` over writer and reader, `FinderLocate` and `GridRead`
over the command lists. `GpuSession` and `ContextPool` meet in the number of leased contexts and the
drain: `ContextPool` shows what `GpuSession` assumes, that a drain ends when the leases are back and
that no lease is handed out during it.

## 3. Runs

| Run | Bounds | Shows |
|---|---|---|
| `pyramid` | 2 levels: 5 slots of every kind the code has (coarsest, seeded, finer frame, two searches); every image two levels can hold; both modes | The winner is the best commit, every goroutine ends, and the read implements `ReadOutcome`: once, one of the verdicts its image and mode allow, no failure while a route decodes |
| `route_slots` | 3 regions (the code proposes at most 2), 2 bodies, so one route always waits | The refinement of the sequential ladder with finding and slot, no body kept, every route ends |
| `context_pool` | 2 routes, 2 contexts, 2 sizes, a device budget of 2 and a host budget of 3 units, growth, a drain and a close; two requests each, so a route may hold one lease and ask for another | Exclusive leases, byte accounting through every failure, quiet after a drain, every request answered (so no parked route misses its wake-up), every drain ends |
| `gpu_session` | a reader, a stream and a warm-up; 2 levels, 2 contexts, frames above and below the GPU threshold | A route reads the ladder of its own image; no session of the next image while operations of the last run; reads and sessions end |
| `kernel_set` | 2 readers with 2 requests each, the warmer over its three stages with four kernels instead of all, a close, every combination of device limits, one failing compilation | One answer of the device cache, fallbacks that can be explained, nothing alive after the close, every request returns |
| `locate` | 2 of the code's 5 directions after the rows, every plan of passes, every failure, a resident batch before any locate, the detector of the lease before followed through the next lease | Masks, pools and rows come from the pass and lease they were asked of; every command list separates what shares a buffer. The two exceptions of the code are stated exactly (A and E in section 6) |
| `grid_read` | the code's 3 retain slots; one or two variants; 2 requests of a lease that break off (`MaxBreaks`); batches of two passes with one geometry under two variants | Pixels, walks, corrections and measurements come from the grid and variant they were asked for; tables that outlive a request are whole when used; the shared grid stays within reach; every list's barriers |
| `symbol_code` | codes of 1 to 4 symbols over all colour counts, levels and the first versions, filled to the last bits or with room, one code of 13 symbols, the primary and the two rings around it; symbols beside one another but away from the primary, and chains of them; the code's 61 places; three masks | The message comes back whole and in order where every symbol has its host; an undamaged code is read but for the named reasons; no symbol gets a weaker rate than asked for; writer and reader lay out alike |
| `stream` | 15 frames: six codes under three routes, two of them alike in all but 3 of 14 bits, two canvases, a small and an enlarged scale, half-lit, faint, contradictory, dim and drifting ones, a docked code; one of the 14 bits is corrected; group of 2, ring of 1, as only the newest entry of the ring is ever read (`stream.go:436-437`) and the older ones wait to be dropped | One correction per frame, each observation counted once, a sharply shown payload read as itself but for the mixture of similar codes named in section 6, a steady readable scene is read, complementary exposures fuse |
| `message` | all texts up to 3 characters over 9 that stand for every alphabet, pair and byte (and up to 4 over 4); byte runs of 15 to 45 with a length field of 2 bits instead of 13, so that 15, 16, one full field and two fields are met; streams cut by 1 to 9 bits; filled symbols; texts with up to 4 controls, in order or not; streams put together from the reader's vocabulary | What is written is read, controls come back at their places, the reader accepts only what the writer would write, the transmission can be told apart |
| `gpu_stream_resize` | one stream, two frame sizes above the threshold | A disagreement, section 6 |
| `symbol_whole` | the inputs of `symbol_code` | A disagreement, section 6 |

No run switches deadlock checking off but `gpu_stream_resize`, which is about a system that stops.
Modules whose work ends have an explicit terminated step; anything else that stops is a deadlock.

Why the bounds are enough: pyramid and slots differ by slot kind and by position before or after a
winner, and two levels and three slots have every such pair. The pool's counters are bounded by
budgets that two contexts exceed, which is when retiring, waiting and refusing happen. In a command
list every direction after the second repeats the same commands on the same buffers, so a third meets
no pair of commands the second did not. A reading displaces at most the shared grid and one resample
per variant, and with a grid of an earlier hypothesis all three slots are in use. The stream's windows
are at their limits after two observations. In the codec a mode sequence interacts over a shift and its
two neighbours, so three characters reach every pair of switches, and the byte-run code branches on 15,
on one length field and on several. A symbol's layout depends on its version, colours and default mode;
the runs take versions with and without inner alignment patterns and with uneven sides.

Two abstractions of `symbol_code`: the bits of the message are not told apart (a payload is the stretch
of the message it carries), and where the code rounds a share of the message in floating point the
model allows the neighbouring integers: those within 1/32 of the exact share, which no share the encoder
can meet is off by, and the one below also where the exact share is whole. Where a symbol is corrected with the parameters it was written
with, the correction succeeds unless the symbol is damaged.

## 4. Fairness

* `RoutePyramid`, `RouteSlots`: weak fairness of each goroutine and of the reader. Go's scheduler runs
  every runnable goroutine; a route's own work is a bounded computation, so its step is taken.
* `ContextPool`: weak fairness of each route that is being answered, of a route's release (a lease is
  released by a deferred call) and of the closer. A parked route has no step until a Broadcast.
* `GpuSession`: weak fairness of the warm-up, of a client that works, of the two waits of `Close` and
  of a route inside a session. A client is not obliged to begin another frame, nor to close its
  Stream: a read that waits for the lease of an idle Stream waits, and `ReadsReturn` is stated for
  reads whose way is not barred by one.
* `KernelSet`: weak fairness of each request under way, of a warm-up and a Close that have begun; nobody
  is obliged to begin one. A compilation is a bounded call.
* `Stream`: some step is taken infinitely often (`[]<><<Next>>_vars`); frames come as the camera
  chooses, and the liveness properties speak of a scene that stays.
* `FinderLocate`, `GridRead`, `MessageStream`, `SymbolCode`: one thread each, safety only.

## 5. Proofs

All checked by TLAPS for every value of the constants.

`RoutePyramidProofs`, for every number of levels and every set of images:
`TypeCorrect` (`TypeOK`), `WinnerCorrect` (`WinnerIsBest`: the winner names a slot that decoded, and no
compare-and-swap loses a better commit) and `CancellationCorrect` (a route that gave up did so because
another one had decoded, in an exhaustive read one before it in the order). None is inductive alone. A
swap keeps the winner the best only if the goroutine that swaps has decoded and holds a slot below the
value it loaded (`CommitSound`); a result is written once only if a goroutine works for its own slots
(`Ownership`) and has not written them yet (`Fresh`). `IInv` is the conjunction of these. `SlotLayout`
gives the one arithmetic fact everything rests on: slots of different goroutines differ.

`ScheduleProofs`, about `RouteSlots`, for every number of regions and bodies: `BodiesReturned` (`BodiesHeldByRunning`)
and `SearchIsSequential`, the safety half of `ImplementsSequentialLadder`: every step of the concurrent
search is a step of the ladder or leaves what the ladder sees alone. The invariant behind it, `SearchInv`,
says that a result falls short of what its route would find only behind a lower slot that decoded or
after the caller quit (`FullOrCancelled`), that each result is stored once (`StoredOnce`) and that what
was joined before did not decode (`JoinedMissed`): so the join, which goes in order, takes the full
result of every slot up to the first that decodes.

`ContextPoolProofs`, for every set of routes and contexts and every budget: `LeasesExclusiveCorrect`
(`LeasesExclusive`) and `DrainIsQuiet` (`DrainedMeansQuiet`). The inductive invariant `PInv` adds
`SingleFlight` (the flag `creating` is up exactly while one route creates: without it a drain that saw
the flag down could meet a creation) and `Barred` (the flags a closer raised stay up while it is past
them). `LeaseAdds` and `LeaseRemoves` are the two facts on cardinalities by which `outstanding` counts
the leases.

`GpuSessionProofs`, for every set of readers, streams and levels and every number of contexts:
`NoStraddlingCorrect`, `ImageCorrect` (`DeviceReadsOwnImage`) and `OpenServesCorrect`. None is inductive
alone: that a session is over says nothing of its routes unless the operations it counted down are
its routes. The invariant `GInv` has three parts. `Control`: whoever builds, uploads or has a session
holds `workspaceMu` (`LeaseHeld`), where a client is tells whether its session is open (`Stages`), and
the pool and ladder of an open session are its own (`Serving`). `Counted`: `ops` is the number of routes
inside, one more while the stream replaces its image. `Quiet`: a session that is over or draining, and
a stream that is not reading, has no route inside. `FinishOps` keeps `Quiet` by `Counted`, and the
image a route reads is its session's own because a context on lease makes the session one that is not
over, hence, by `Control`, the holder of the lease. The proof needs `Levels` finite and the readers,
streams and the warm-up told apart.

`ContextPoolProofs` goes on to `BytesAccountedCorrect` (`BytesAccounted`): the bytes planned on the device
and on the host are those of the live contexts and of the one being created, and stay within the
budgets. The invariant `BInv` has a part for the types of sizes and plans (`ByteTypes`), one equation
for each budget (`PlannedExact`, `HostExact`) and the bounds (`WithinBudgets`); it needs `SingleFlight`,
or two plans of contexts in creation would have to be told apart. The equations are sums over a set of
contexts, for which the module has a section of its own: the library's sum takes the elements in an order of its own, and
`SumRemove` shows by induction over the subsets of a finite set that any element may be taken out.

`RoutePyramidProofs` also has `ReadRefines`: every step of a pyramid read is a step of `ReadOutcome` or
leaves it alone, which is the safety half of `ImplementsReadOutcome`. The invariant behind it, `RInv`,
relates what a goroutine published to what its routes found (`LevelsTrue`, `DoneTrue`,
`PublishedTrue`), follows the seed from the level that sent it to the route that took it (`SeedTrue`,
`SeededTrue`), and says that a slot that gave up stays behind the winner (`StayBeaten`) and what the
reader has joined so far (`WalkTrue`).

`DeviceProofs`, about `KernelSet`, for every set of readers, every list of kernels of a stage and every set of limits:
`NothingSurvivesCorrect` (`NothingSurvivesClose`), `FallbackCorrect` (`FallbackExplained`) and
`AnswersCorrect` (`AnswersAgree`). The invariant `KInv`: an actor that works on a kernel has one to
work on (`Control`), a cell is compiled by one actor (`Filling`), a close has yet to visit every cell
that holds a kernel or may still get one (`Closing`), the device is opened by one reader and what a
reader was told stays true of it (`OpenedOnce`), and whoever took the portable kernel had the limits,
the probe or a recorded error as a reason (`Reasoned`).

`ScheduleProofs`, about `Stream`, for every set of frames, codes and routes and every bound: `MemoryCorrect` (what
outlives a frame is bounded however long the stream runs), `OneChainCorrect` (`OneChainPerFrame`),
`CountedOnceCorrect` (`EvidenceCountedOnce`) and `AnswersCorrect` (a payload the frame did not show by
itself is the group's confirmed one). The invariant `IInv` adds to the types that a frame goes on only
while it has spent no correction (`Unspent`), that a replay has something to replay (`Replayable`), that
the ring remembers one hypothesis for a scale (`OncePerScale`), and that the window of the group holds no
observation twice and is not empty under a confirmed payload (`GroupSound`).
`SharpFramesReadTrue` is not among them: it depends on how far apart the evidence of the frames lies,
which is a fact about the inputs and not about the scheduler.

`GridReadProofs`, for every number of requests that break off: `MatrixReadableCorrect`,
`SharedReadableCorrect` (`SharedGridStaysReadable`), `AnswersCorrect` (`AnswersReadTheirOwn`) and
`CachesCorrect` (`CachesTrustworthy`). The first two rest on the names alone: a new sample frees a slot
for the grid it displaces or finds it on the host (`IInv`: `MatrixReadable`, `SharedReadable`,
`SharedInPlace`, `CachedFetched`). The other two need what the names stand for: the grid the context
believes it holds is the one its buffers derive from (`Located`), a retained grid is in its slot
(`Held`), rows and caches that count as built are whole (`TablesTrue`), and the parameters a correction
finds are those of the walk before it (`WalkTrue`). What a command list does to the buffers is a closed
expression which no constant enters. `EffectsAssumption` in `GridRead` states what the proofs take from
it, list by list: which buffers it leaves alone, and what the others and the host's copy are drawn from.
TLC evaluates it in full on every run of the module, so the proofs take nothing on trust.

`DeviceProofs`, about `FinderLocate`, for every number of directions from one to the code's five,
whichever submissions fail: `LocatePixels` (`PixelsOfTheirPass`) and `LocateFolds` (`FoldsReadTheirPass`), both from
`LocateReliesOnItsOwn`. They assume nothing of what happened on the context before: a resident batch may
have left its control word, and detectors of earlier leases may be in use. Two parts of the code's
behaviour are disagreements, (A) and (E) of section 6, and the properties state how far they reach: the
word a batch left (`Word`) reaches the masks and rows of print retries and nothing else, and a
snapshot taken by an earlier lease shows its own masks, torn ones, or, once the next holder has located,
that one's. The invariant `LInv` says what a locate relies on while it goes through its
passes: level, thresholds and schedule are of its lease when a pass to come draws on them (`LevelTrue`,
`PlansTrue`, which also fixes the order of the resident retries); masks, rows and the outcomes of
directions are of its pass, on the device, on the host and in the snapshot (`MasksTrue`, `RowsTrue`,
`PlacesTrue`); pools and seeds hold nothing older than the locate unless the reset failed
(`GatheredTrue`); and the detector before finds its own masks until a pass of the next lease broke off
(`LastTrue`). `Handed`, which the theorem states, adds that the batch's word stays apart (`WordApart`,
`WordTold`) and what a kept snapshot shows (`SnapshotTrue`). `SharesTrue` bounds the shares of the pools: those claimed, and as many for every pass
still planned as its directions and rows may claim, stay within the six passes the pools are sized for,
so that no fold is refused. As in `GridRead`, `EffectsAssumption` states list by list what the proofs
take from the command lists, here for each number of directions at once.

`MessageStreamProofs`, for every request - any text, any controls, any bits handed to the reader, cut
anywhere - and every width of the long length field: `AlwaysWellFormed` (`AcceptedIsWellFormed`) and
`AlwaysTells` (`TransmissionTellsMessage`). Where the run reads the streams of its 22083 requests, these
speak of every stream of bits. Neither property is inductive: both speak of a finished output, and while
the reader works an FNC1 message is open, its end not yet in place. The invariant `IInv` says that the
output under construction is `Sound`: its transmission tells it so far (`Tells`), its controls stand at
places of the data and each separator on a separator (`Placed`, `Separated`), the separators taken out,
the controls stand where the writer's check wants them (`Stripped`), that check passes as far as it got
and holds a message open exactly if the reader does (`Judged`), and the start of a 15434 message comes first and
excludes FNC1 (`Bracketed`). Each operation of `messageOutput` keeps it; `finish` closes what is open or
fails, and from a sound output with nothing open both properties follow. `TransmissionTellsMessage` is about a parse,
the receiver's, so the proof shows that the parse of a text with one more part is the parse of the text,
then the part, for each part a reader may add: a character, a doubled backslash, the six digits of an
assignment, the 15434 header and trailer. The invariant holds on the run's own instance (TLC, all its
states), but checking it takes longer than the run's other invariants together, so it is not among them.

`SymbolCodeProofs`, for every option record, layout, message length and share of the message, whichever
masks are drawn: `AlwaysNeverWeaker` (`NeverWeaker`: no symbol's rate is weaker than its level's, and each
symbol holds its payload). The only assumption is `InputsAssumption`, the types of the options; what makes
an option valid is the encoder's own check. The property speaks of a finished code, and what it says of a
symbol that was filled can be undone later: a rate goes into the metadata of a docked symbol, which is
part of its host's payload, and is rewritten in the host's data. The invariant `CodeInv` therefore says
that the symbols filled so far keep to their level and hold their payload (`KeepsLevel`), that indices
and metadata are in range (`Arrayed`) and that no symbol is docked at two sides (`DockedOnce`): otherwise
lengthening the metadata of one could let the payload of a symbol filled before outgrow it. Behind it lie
`OptimalHolds` (the rate chosen holds the payload and is no weaker), `DockKeeps` (each turn of the
docking loop, its swap included, keeps `DockedOnce`),
`WithRateKeeps` (a rate is announced only while six bits are left) and `RateRewrittenKeeps` (a rewriting
changes bits, never lengths). The invariant holds on the run's own instance (TLC, all its states), but
checking it takes longer than the run's properties together, so it is not among them.

Assumptions are those the component modules name; TLC evaluates each on a run. The provers have no
induction theorem with an operator as parameter, so where a proof needs one (the sums of the pool, the
search of the nearest scale, the folds of the message stream) it is stated for a set: what holds of the
natural numbers, or of the subsets of a finite set, as members of that set.

Model-checked only, and why:

* `RoundTrip` and `StructuredIsRead`: that reading undoes writing is an induction over the text through
  the optimizer's dynamic program, which no installed prover can be led through; `RoundTrip` also has
  exceptions in the code (section 6) which the run's texts avoid.
* `SharpFramesReadTrue`: it depends on how far apart the evidence of the frames lies, a fact about the
  inputs.
* `BarriersSuffice`: a closed fact about the command lists, which TLC evaluates.
* `MessageIsWhole` and `UndamagedIsRead`: that the reader's walk undoes the writer's docking is an
  induction over two orders of the same symbols; the second also rests on the layouts.
* `LayoutsAgree`: a fact about the tables for each shape of a symbol, which TLC evaluates.
* Liveness under fairness and `ENABLED`, out of the prover's reach altogether: the liveness halves of the
  two refinements stay with TLC.

## 6. Disagreements met

Shown by a run that ends in a violation:

* `gpu_stream_resize`: a Stream whose frames change size begins a session while its own still holds the
  only lease, and its frame never returns (`internal/read/stream.go:185-191`).
* `symbol_whole`: docked symbols whose columns or rows hold unequal sizes pass every check and are
  neither refused nor drawn whole (`internal/encode/encoder_multi.go:399`).

Read from the code while modelling, and left to the reader without a run of their own:

* An ordinary read returns the first slot received from `settled` (`pyramid.go:397`), and cancelling
  the coarsest search changes the seed (`pyramid.go:349`); ARCHITECTURE.md:191-194 and 653-655 say the
  result depends on neither.
* Two codes whose words differ in at most a quarter of the bits share evidence: the payload of the
  one that left can come out for a frame of the other (`evidencegroup.go:226`, against
  `stream.go:28-29`). `stream` shows two such codes, and it happens there; `SharpFramesReadTrue` says
  exactly when: nothing is confirmed, the group is not empty, and the codes are that similar. Without
  the second disjunct of its conclusion the property is violated.
* A steady frame that decodes alone, with evidence too dim to add a unit, is withheld for ever when it
  joins a group with damaged snapshots of a similar code: each repeat brings nothing new, so no
  correction is tried (`evidencegroup.go:247-265`, `stream.go:711-717`). The dim frame of `stream` is
  dim only where the codes differ; a frame dim in every bit (strength 2) shows it, against
  `SteadySceneIsRead`.
* Sixteen single bytes, each in its own shift, are announced 13 bits too long (`encode_data.go:213`,
  against 404-406); a carriage return followed by a space loses the space (`encode_data.go:103`, against
  79); a run beyond 8207 bytes after numeric mode is continued with a code of the wrong width
  (`encode_data.go:366`). The texts of `message` leave these out.
* With fixed patterns left to the device, a verdict that refuses admission falls into the host's
  correction with merged palettes, which has no admission check (`read.go:1705`, against
  ARCHITECTURE.md:303-305).
* (A) A locate that follows a resident batch on the same context finds the batch's control words: the
  print retry reads one that only the batch writes (`pitch_schedule.wgsl:219`, against
  `gpu_finder_preparer.go:684` and ARCHITECTURE.md:219-221). `locate` starts every lease with such a
  word; `WordInPrints` says that print retries are all it reaches.
* (B) `MaterializeFinderPool` does not look at `poolsStale` (`gpu_finder_fold.go:786`); callers are kept
  from it by `gpu_decode.go:1733-1738`.
* (C) The seed evidence gathered by the first binarization is cleared by the reset of the pools that
  follows it (`detectprimary.go:1593`, `gpu_binarizer.go:239`).
* (D) The comments at `gpu_resident_binarizer.go:765-768` and 830-833 describe an eager snapshot where the
  code is lazy; a rescan adds its seeds a second time; `seedHistogram` is allocated with a context
  (`gpu_binarizer.go:437`) and missing from the buffers its close releases (1276-1281).
* (E) The closures of a snapshot compare neither generation nor lease
  (`gpu_resident_binarizer.go:863-899`), where `gpu_decode.go:463-465` says that closures which
  materialize resident pixels refuse buffers a later route may have overwritten, and
  `gpu_resident_binarizer.go:830-833` that a snapshot outlives its lease. First fetched after its lease, a
  snapshot reads the buffer of the next holder: its own masks until that one has preserved its own, which
  are shown from then on. No caller in `internal/read` uses a detector after releasing its lease
  (`read.go:803`, 839, 1043, 1078, `stream.go:392`), as `gpu_decode.go:1538-1545` asks.
* Symbols: a secondary with level 0 is planned with the encoder's level and drawn with its own, where
  `encoder/encoder.go:111-112` promises its host's (`encoder_multi.go:229`); `encoder_multi.go:26` reads the first
  symbol's level before the primary is moved to the front; columns or rows of unequal symbols
  (`encoder_multi.go:411`); from 16 colours on, palette modules of a docked symbol lie on an alignment
  pattern when its width is version 29 or its height version 10, 15, 20, 25 or 30 (`encode.go:197-227`,
  `tables.go:564-599`): of all 32 by 32 versions with 16 or 32 colours, these and no others. `UndamagedIsRead`
  allows for these four reasons and `LayoutsAgree` leaves out the last (`PaletteCovered`).
* Two symbols beside one another but away from the primary, at positions 0, 5 and 14 for instance, are
  accepted, against `encode_multi_test.go:95-96`: at the index of a symbol without host its neighbour is
  swapped into that very index and becomes its own host (`encoder_multi.go:175-176`), the other one docks
  to it, and no host is missing. The code is drawn and a read returns the primary's part of the message.
  The inputs of `symbol_code` hold such layouts, and `MessageIsWhole` is stated for the codes in which
  `EachHasItsHost`; give `SymbolCode.cfg` that operator as an invariant to see it violated.

## 7. Not modelled, and limits of what is

* Pixels, thresholds, colour classification, geometry, belief propagation and what a GPU kernel
  computes. Where a model needs their result it is an input that ranges over every value, or over the
  ones the run names.
* The enlarged retry and the seeded search inside a route, traces and reports, the historical and BSI
  variants' layouts, drawing into a bitmap.
* `pyramid.level`'s `sync.Once` chain and the LDPC matrix cache (one map behind one mutex) are taken as
  given.
* The panic recovery of `Stream` (a shallow copy of the state before the frame).
* In `stream` no frame decodes to a docked code by mixture. Were one to, `aggregateDisabled` would be set
  on a group of another code, which frames that keep joining it never clear (`stream.go:700`,
  `evidencegroup.go:247`).
* Growth of a context's buffers with the canvas: the context is taken at the size it has.
* Why the other components are left, one by one, is in `PROJECT.json`.

## 8. Plan

Done: pyramid, region search, pool, sessions, kernel set, resident context with locate and readings,
stream, evidence, message codec, symbol construction and reading; the safety invariants of pyramid,
region search, pool, sessions, kernel set, stream, locate, readings and the message reader and the
rates of symbols as theorems, and the step simulations of `ReadOutcome` and `SequentialLadder`.

Next, in order:

1. From `Sound`, the reading of one byte run; from `DockedOnce`, the walk of the reader over a chain.
2. `SharedCaches`: the LDPC matrix cache, lazy pyramid levels, growth of a context's buffers.
3. The enlarged retry and the seeded route inside `GridRead`.
4. A panic in a frame (`Stream`, `GpuSession`).
