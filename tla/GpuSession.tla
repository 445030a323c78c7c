----------------------------- MODULE GpuSession -----------------------------
(***************************************************************************)
(* The resident GPU workspace and the sessions that lease it:              *)
(* gpuDecodeRuntime and GPUDecodeSession in internal/detect/gpu_decode.go, *)
(* the session's place in decodePyramidCapabilitiesWithGPU                 *)
(* (internal/read/pyramid.go) and in Stream.refreshGPU                     *)
(* (internal/read/stream.go).                                              *)
(*                                                                         *)
(* One workspace serves the process.  begin takes workspaceMu, uploads the *)
(* image into the workspace's ladder and keeps the mutex as the session's  *)
(* lease.  The routes of a read enter the session, lease contexts of the   *)
(* workspace's pool and read the ladder.  A read that won returns at once  *)
(* and leaves its session to a reaper; a failed one closes it.  A Stream   *)
(* keeps its session, and so the lease, between frames.                    *)
(*                                                                         *)
(* The pool is reduced to its number of contexts and its draining flag;    *)
(* ContextPool has the rest.                                               *)
(***************************************************************************)
EXTENDS Integers, FiniteSets, FiniteSetsExt

CONSTANTS
  Readers,     \* goroutines that call Decode
  Streams,     \* Streams, each driven by one goroutine
  Warmer,      \* the warm-up goroutine
  Free,        \* nobody holds workspaceMu
  Levels,      \* the pyramid levels of a read: one route each
  Contexts,    \* how many contexts the pool can make
  Geometries,  \* image sizes above the GPU threshold
  Small,       \* an image size below it
  ReadSizes, StreamSizes, \* the sizes the readers and the streams meet
  NoWorkspace,
  MaxFrames,   \* bound: images of one client
  MaxEnters,   \* bound: session operations of one route
  MaxWarms     \* bound: warm-ups

Clients == Readers \cup Streams

ASSUME ActorsAssumption ==
  /\ Readers \cap Streams = {}
  /\ Free # Warmer /\ {Free, Warmer} \cap Clients = {}
ASSUME LevelsAssumption == IsFiniteSet(Levels)
ASSUME ContextsAssumption == Contexts \in Nat \ {0}
ASSUME BoundsAssumption == MaxFrames \in Nat /\ MaxEnters \in Nat /\ MaxWarms \in Nat
ASSUME SizesAssumption ==
  /\ Small \notin Geometries
  /\ ReadSizes \subseteq Geometries \cup {Small}
  /\ StreamSizes \subseteq Geometries \cup {Small}

VARIABLES
  lease,      \* holder of workspaceMu
  workspace,  \* geometry of the cached workspace
  ladder,     \* the image the ladder holds: <<client, frame>>, or Torn
  draining,   \* the workspace pool's flag
  warm,       \* the warm-up: "none", "started", "building" or "ending"
  warms,      \* warm-ups begun
  pc,         \* pc[c]: where client c is
  image,      \* image[c]: size of the image c reads
  frame,      \* frame[c]: how many images c has begun
  session,    \* session[c]: "none", "open", "closing" or "draining"
  base,       \* base[c]: the frame c's session was given
  ops,        \* ops[c]: operations registered with c's session
  prepared,   \* prepared[c]: levels whose batch result c's session keeps leased
  route       \* route[c][l]: where level l's route is inside the session

device  == <<lease, workspace, ladder, draining>>
warmup  == <<warm, warms>>
client  == <<pc, image, frame>>
inside  == <<ops, prepared, route>>
vars == <<device, warmup, client, session, base, inside>>

Torn == <<Free, 0>>

Goto(c, label) == pc' = [pc EXCEPT ![c] = label]

\* A route is outside the session with some entries left, inside and waiting for
\* a context, holding one, or over.
Place(where, n) == <<where, n>>
Over    == Place("over", 0)
AllOver == [l \in Levels |-> Over]
Ready   == [l \in Levels |-> Place("out", MaxEnters)]

At(c, where) == {l \in Levels : route[c][l][1] = where}
Out(c) == Cardinality(At(c, "holds")) + Cardinality(prepared[c])

\* The sessions share one pool.
ContextsLeft(n) == MapThenSumSet(Out, Clients) + n <= Contexts

-----------------------------------------------------------------------------
Init ==
  /\ lease = Free /\ workspace = NoWorkspace /\ ladder = Torn /\ draining = FALSE
  /\ warm = "none" /\ warms = 0
  /\ pc = [c \in Clients |-> "idle"]
  /\ image = [c \in Clients |-> Small]
  /\ frame = [c \in Clients |-> 0]
  /\ session = [c \in Clients |-> "none"]
  /\ base = [c \in Clients |-> 0]
  /\ ops = [c \in Clients |-> 0]
  /\ prepared = [c \in Clients |-> {}]
  /\ route = [c \in Clients |-> AllOver]

(* warm, prepare and awaitWarm.                                            *)

\* One at a time, and only for sizes worth a session.
StartWarm ==
  /\ warm = "none" /\ warms < MaxWarms
  /\ warm' = "started"
  /\ warms' = warms + 1
  /\ UNCHANGED <<device, client, session, base, inside>>

\* TryLock.  No device, or a busy workspace: there is nothing to prepare.
WarmLocks ==
  /\ warm = "started"
  /\ \/ lease = Free /\ lease' = Warmer /\ warm' = "building"
     \/ warm' = "ending" /\ UNCHANGED lease
  /\ UNCHANGED <<workspace, ladder, draining, warms, client, session, base, inside>>

\* A workspace of the wanted size is left alone; another one is closed and a new
\* one built, which may fail.
WarmBuilds ==
  /\ warm = "building"
  /\ \E g \in Geometries :
       \/ workspace = g /\ UNCHANGED <<workspace, ladder, draining>>
       \/ /\ workspace # g
          /\ workspace' \in {g, NoWorkspace}
          /\ ladder' = Torn /\ draining' = FALSE
  /\ lease' = Free
  /\ warm' = "ending"
  /\ UNCHANGED <<warms, client, session, base, inside>>

\* Mutant: nobody is told.
WarmEndsSilently ==
  /\ warm = "ending"
  /\ warm' = "none"
  /\ UNCHANGED <<device, warms, client, session, base, inside>>

\* warming = nil, close(done): whoever joined the warm-up goes on.
WarmEnds ==
  /\ warm = "ending"
  /\ warm' = "none"
  /\ pc' = [c \in Clients |-> IF pc[c] = "joining" THEN "locking" ELSE pc[c]]
  /\ UNCHANGED <<device, warms, image, frame, session, base, inside>>

-----------------------------------------------------------------------------
(* begin.                                                                  *)

\* A reader has its image; a stream takes its next frame.
NextImage(c) ==
  /\ pc[c] = "idle" /\ frame[c] < MaxFrames
  /\ \E g \in IF c \in Readers THEN ReadSizes ELSE StreamSizes :
       image' = [image EXCEPT ![c] = g]
  /\ frame' = [frame EXCEPT ![c] = @ + 1]
  /\ Goto(c, IF c \in Readers THEN "begin" ELSE "refresh")
  /\ UNCHANGED <<device, warmup, session, base, inside>>

\* No session: below the threshold, switched off, or no device.
BeginWithoutSession(c) ==
  /\ pc[c] = "begin"
  /\ Goto(c, "cpu")
  /\ UNCHANGED <<device, warmup, image, frame, session, base, inside>>

\* awaitWarm.
JoinWarm(c) ==
  /\ pc[c] = "begin" /\ image[c] # Small
  /\ Goto(c, IF warm = "none" THEN "locking" ELSE "joining")
  /\ UNCHANGED <<device, warmup, image, frame, session, base, inside>>

\* workspaceMu.Lock, whoever holds it.
Lock(c) ==
  /\ pc[c] = "locking" /\ lease = Free
  /\ lease' = c
  /\ Goto(c, "building")
  /\ UNCHANGED <<workspace, ladder, draining, warmup, image, frame, session, base, inside>>

\* The cached workspace fits, or gives way to a new one; then the upload begins.
Build(c) ==
  /\ pc[c] = "building"
  /\ workspace' = image[c]
  /\ ladder' = Torn
  /\ draining' = (draining /\ workspace = image[c])
  /\ Goto(c, "uploading")
  /\ UNCHANGED <<lease, warmup, image, frame, session, base, inside>>

BuildFails(c) ==
  /\ pc[c] = "building" /\ workspace # image[c]
  /\ workspace' = NoWorkspace
  /\ ladder' = Torn
  /\ lease' = Free
  /\ Goto(c, "cpu")
  /\ UNCHANGED <<draining, warmup, image, frame, session, base, inside>>

\* The session opens over the new image.
Open(c) ==
  /\ ladder' = <<c, frame[c]>>
  /\ base' = [base EXCEPT ![c] = frame[c]]
  /\ route' = [route EXCEPT ![c] = Ready]
  /\ Goto(c, IF c \in Readers THEN "batching" ELSE "reading")

\* Mutant: the pool the last drain shut is not reopened.
UploadShut(c) ==
  /\ pc[c] = "uploading"
  /\ Open(c)
  /\ session' = [session EXCEPT ![c] = "open"]
  /\ UNCHANGED <<lease, workspace, draining, warmup, image, frame, ops, prepared>>

Upload(c) ==
  /\ pc[c] = "uploading"
  /\ Open(c)
  /\ draining' = FALSE
  /\ session' = [session EXCEPT ![c] = "open"]
  /\ UNCHANGED <<lease, workspace, warmup, image, frame, ops, prepared>>

UploadFails(c) ==
  /\ pc[c] = "uploading"
  /\ lease' = Free
  /\ Goto(c, "cpu")
  /\ UNCHANGED <<workspace, ladder, draining, warmup, image, frame, session, base, inside>>

\* The whole image is read without a session.
ReadOnCPU(c) ==
  /\ pc[c] = "cpu"
  /\ Goto(c, "idle")
  /\ UNCHANGED <<device, warmup, image, frame, session, base, inside>>

Begin(c) ==
  \/ NextImage(c) \/ BeginWithoutSession(c) \/ JoinWarm(c) \/ Lock(c) \/ Build(c)
  \/ BuildFails(c) \/ Upload(c) \/ UploadFails(c) \/ ReadOnCPU(c)

-----------------------------------------------------------------------------
(* A session's operations.                                                 *)

\* PrepareCurrentPyramidBatch, before the routes start: one context a level, all
\* kept for the routes, or none.
PrepareBatch(c) ==
  /\ pc[c] = "batching"
  /\ \/ /\ ContextsLeft(Cardinality(Levels))
        /\ prepared' = [prepared EXCEPT ![c] = Levels]
     \/ UNCHANGED prepared
  /\ Goto(c, "reading")
  /\ UNCHANGED <<device, warmup, image, frame, session, base, ops, route>>

Move(c, l, where) == route' = [route EXCEPT ![c][l] = Place(where, @[2])]

Leave(c, l) ==
  /\ ops' = [ops EXCEPT ![c] = @ - 1]
  /\ Move(c, l, "out")

\* A stream calls from one goroutine; every level of a read has its own.
MayEnter(c, l) ==
  /\ l \in At(c, "out") /\ route[c][l][2] > 0
  /\ pc[c] # "batching"
  /\ c \in Streams => pc[c] = "reading" /\ At(c, "in") \cup At(c, "holds") = {}

GoIn(c, l) == route' = [route EXCEPT ![c][l] = Place("in", @[2] - 1)]

\* enter: refused once the session closes, counted otherwise.
Enter(c, l) ==
  /\ MayEnter(c, l) /\ session[c] = "open"
  /\ ops' = [ops EXCEPT ![c] = @ + 1]
  /\ GoIn(c, l)
  /\ UNCHANGED <<device, warmup, client, session, base, prepared>>

\* DecodeLevelCurrentBatch takes the level the batch prepared, or gives its
\* context back when the device declined it.
TakePrepared(c, l) ==
  /\ l \in At(c, "in") \cap prepared[c]
  /\ prepared' = [prepared EXCEPT ![c] = @ \ {l}]
  /\ \/ Move(c, l, "holds") /\ UNCHANGED ops
     \/ Leave(c, l)
  /\ UNCHANGED <<device, warmup, client, session, base>>

Acquire(c, l) ==
  /\ l \in At(c, "in")
  /\ ~draining /\ ContextsLeft(1)
  /\ Move(c, l, "holds")
  /\ UNCHANGED <<device, warmup, client, session, base, ops, prepared>>

\* The pool is draining, or the route quit before it asked.
AcquireRefused(c, l) ==
  /\ l \in At(c, "in")
  /\ draining
  /\ Leave(c, l)
  /\ UNCHANGED <<device, warmup, client, session, base, prepared>>

\* The device answered or failed, the caller is done with the pixels: the
\* context goes back and the operation leaves.
Release(c, l) ==
  /\ l \in At(c, "holds")
  /\ Leave(c, l)
  /\ UNCHANGED <<device, warmup, client, session, base, prepared>>

\* The route decoded, failed or gave up, on the CPU if need be.
RouteEnds(c, l) ==
  /\ l \in At(c, "out") /\ pc[c] # "batching"
  /\ Move(c, l, "over")
  /\ UNCHANGED <<device, warmup, client, session, base, ops, prepared>>

Operation(c) ==
  \/ PrepareBatch(c)
  \/ \E l \in Levels : \/ Enter(c, l) \/ TakePrepared(c, l) \/ Acquire(c, l)
                       \/ AcquireRefused(c, l) \/ Release(c, l) \/ RouteEnds(c, l)

-----------------------------------------------------------------------------
(* The end of a session: startClose, then finishClose in the caller or in  *)
(* the reaper.                                                             *)

StartClose(c, label) ==
  /\ session[c] = "open"
  /\ session' = [session EXCEPT ![c] = "closing"]
  /\ draining' = TRUE
  /\ Goto(c, label)
  /\ UNCHANGED <<lease, workspace, ladder, warmup, image, frame, base, inside>>

\* A route decoded and the call returns, its session left to the reaper (Retire).
\* A traced read, or one whose routes all failed, waits for Close.
ReturnRead(c) ==
  /\ c \in Readers /\ pc[c] = "reading"
  /\ At(c, "over") # {}
  /\ StartClose(c, "idle") \/ StartClose(c, "closing")

\* Mutant: operations in flight are not waited for.
FinishAtOnce(c) ==
  /\ session[c] = "closing"
  /\ prepared' = [prepared EXCEPT ![c] = {}]
  /\ draining' = TRUE
  /\ session' = [session EXCEPT ![c] = "draining"]
  /\ UNCHANGED <<lease, workspace, ladder, warmup, client, base, ops, route>>

\* Mutant: what the routes did not take stays leased.
FinishKeepsBatch(c) ==
  /\ session[c] = "closing" /\ ops[c] = 0
  /\ draining' = TRUE
  /\ session' = [session EXCEPT ![c] = "draining"]
  /\ UNCHANGED <<lease, workspace, ladder, warmup, client, base, inside>>

\* ops.Wait, releaseUnusedPrimaryLevels, and the drain begins.
FinishOps(c) ==
  /\ session[c] = "closing" /\ ops[c] = 0
  /\ prepared' = [prepared EXCEPT ![c] = {}]
  /\ draining' = TRUE
  /\ session' = [session EXCEPT ![c] = "draining"]
  /\ UNCHANGED <<lease, workspace, ladder, warmup, client, base, ops, route>>

\* Where a caller that waited for Close goes on.
AfterClose == [closing |-> "idle", reopening |-> "begin", disabling |-> "cpu"]

\* drain, the lease back to the runtime, close(closeDone).
FinishDrain(c) ==
  /\ session[c] = "draining" /\ Out(c) = 0
  /\ lease' = Free
  /\ session' = [session EXCEPT ![c] = "none"]
  /\ IF pc[c] \in DOMAIN AfterClose THEN Goto(c, AfterClose[pc[c]]) ELSE UNCHANGED pc
  /\ UNCHANGED <<workspace, ladder, draining, warmup, image, frame, base, inside>>

Ending(c) == ReturnRead(c) \/ FinishOps(c) \/ FinishDrain(c)

-----------------------------------------------------------------------------
(* A Stream's session.                                                     *)

\* refreshGPU with the GPU routes switched off.
RefreshDisabled(c) ==
  /\ pc[c] = "refresh"
  /\ \/ StartClose(c, "disabling")
     \/ /\ session[c] = "none"
        /\ Goto(c, "cpu")
        /\ UNCHANGED <<device, warmup, image, frame, session, base, inside>>

\* A frame of the session's size refreshes the ladder in place: ReplaceBase
\* enters, drains, and uploads.
RefreshInPlace(c) ==
  /\ pc[c] = "refresh" /\ session[c] = "open" /\ workspace = image[c]
  /\ Out(c) = 0
  /\ ops' = [ops EXCEPT ![c] = @ + 1]
  /\ draining' = TRUE
  /\ ladder' = Torn
  /\ Goto(c, "replacing")
  /\ UNCHANGED <<lease, workspace, warmup, image, frame, session, base, prepared, route>>

ReplaceBase(c) ==
  /\ pc[c] = "replacing"
  /\ Open(c)
  /\ ops' = [ops EXCEPT ![c] = @ - 1]
  /\ draining' = FALSE
  /\ UNCHANGED <<lease, workspace, warmup, image, frame, session, prepared>>

\* The upload failed: the session is closed and another one begun.
ReplaceFails(c) ==
  /\ pc[c] = "replacing"
  /\ ops' = [ops EXCEPT ![c] = @ - 1]
  /\ session' = [session EXCEPT ![c] = "closing"]
  /\ draining' = TRUE
  /\ Goto(c, "reopening")
  /\ UNCHANGED <<lease, workspace, ladder, warmup, image, frame, base, prepared, route>>

\* Any other frame begins a session, the old one still open.
RefreshAnew(c) ==
  /\ pc[c] = "refresh"
  /\ session[c] = "open" => workspace # image[c]
  /\ Goto(c, "begin")
  /\ UNCHANGED <<device, warmup, image, frame, session, base, inside>>

\* The frame is decided; the session waits for the next one.
FrameEnds(c) ==
  /\ c \in Streams /\ pc[c] = "reading"
  /\ At(c, "in") \cup At(c, "holds") = {}
  /\ route' = [route EXCEPT ![c] = AllOver]
  /\ Goto(c, "idle")
  /\ UNCHANGED <<device, warmup, image, frame, session, base, ops, prepared>>

\* Stream.Close and Stream.Reset.
CloseStream(c) ==
  /\ c \in Streams /\ pc[c] = "idle"
  /\ StartClose(c, "closing")

Streaming(c) ==
  \/ RefreshDisabled(c) \/ RefreshInPlace(c) \/ ReplaceBase(c) \/ ReplaceFails(c)
  \/ RefreshAnew(c) \/ FrameEnds(c) \/ CloseStream(c)

-----------------------------------------------------------------------------
Terminated ==
  /\ \A c \in Clients : pc[c] = "idle" /\ frame[c] = MaxFrames /\ session[c] = "none"
  /\ warm = "none" /\ warms = MaxWarms
  /\ UNCHANGED vars

Next ==
  \/ StartWarm \/ WarmLocks \/ WarmBuilds \/ WarmEnds
  \/ \E c \in Clients : Begin(c) \/ Operation(c) \/ Ending(c) \/ Streaming(c)
  \/ Terminated

\* What was begun goes on: begin, the routes, the reaper, a frame.  Nobody has to
\* ask for another image, warm up, or close a stream.
Working(c) ==
  \/ BeginWithoutSession(c) \/ JoinWarm(c) \/ Lock(c) \/ Build(c) \/ BuildFails(c)
  \/ Upload(c) \/ UploadFails(c) \/ ReadOnCPU(c) \/ PrepareBatch(c)
  \/ ReturnRead(c)
  \/ RefreshDisabled(c) \/ RefreshInPlace(c) \/ ReplaceBase(c) \/ ReplaceFails(c)
  \/ RefreshAnew(c) \/ FrameEnds(c)

RouteWorking(c, l) ==
  TakePrepared(c, l) \/ Acquire(c, l) \/ AcquireRefused(c, l) \/ Release(c, l) \/ RouteEnds(c, l)

Fairness ==
  /\ WF_vars(WarmLocks \/ WarmBuilds \/ WarmEnds)
  /\ \A c \in Clients : /\ WF_vars(Working(c))
                        /\ WF_vars(FinishOps(c) \/ FinishDrain(c))
                        /\ \A l \in Levels : WF_vars(RouteWorking(c, l))

Spec == Init /\ [][Next]_vars /\ Fairness

-----------------------------------------------------------------------------

(***************************************************************************)
(* Properties.                                                             *)
(***************************************************************************)

\* A route that holds a context reads the pixels its own session uploaded, whole:
\* nobody rebuilds the ladder, or lends it out again, under it.
DeviceReadsOwnImage ==
  \A c \in Clients : Out(c) > 0 => lease = c /\ ladder = <<c, base[c]>>

\* "no operation can straddle the release and touch a torn-down or reused
\* workspace" (gpu_decode.go:1822-1828): while c's session is over, no route of c
\* is inside.
NoStraddling ==
  \A c \in Clients :
    session[c] = "none" => At(c, "in") \cup At(c, "holds") = {} /\ prepared[c] = {}

\* A session that is open serves: its pool refuses nobody except while the stream
\* replaces the image.
OpenServes ==
  \A c \in Clients : session[c] = "open" /\ pc[c] # "replacing" => lease = c /\ ~draining

\* Every call of Decode returns, although its predecessors' routes may still be
\* inside the workspace; only a stream that waits for its next frame with its
\* session open can hold it up.
HeldByIdleStream == \E s \in Streams : session[s] = "open" /\ pc[s] = "idle"

ReadsReturn == \A c \in Readers : (pc[c] # "idle") ~> (pc[c] = "idle" \/ HeldByIdleStream)

\* Every session that closes gives the lease back.
SessionsEnd == \A c \in Clients : (session[c] = "closing") ~> (session[c] = "none")

\* "a Stream frame spends at most one replay ..., then returns and waits for the
\* next frame" (stream.go:13-20).
FramesReturn ==
  \A c \in Streams : (pc[c] # "idle") ~> (pc[c] = "idle")
=============================================================================
