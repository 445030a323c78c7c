------------------------- MODULE GpuSessionProofs -------------------------
(***************************************************************************)
(* Proofs about the sessions of the resident workspace, for every set of   *)
(* readers, streams, levels and contexts.                                  *)
(***************************************************************************)
EXTENDS GpuSession, FiniteSetTheorems, TLAPS

Labels ==
  {"idle", "begin", "refresh", "joining", "locking", "building", "uploading", "batching",
   "reading", "replacing", "reopening", "closing", "disabling", "cpu"}
Places == {"out", "in", "holds", "over"} \X Int

\* The types of what the proofs read.
SessionTypes ==
  /\ pc \in [Clients -> Labels]
  /\ session \in [Clients -> {"none", "open", "closing", "draining"}]
  /\ frame \in [Clients -> Int] /\ base \in [Clients -> Int] /\ ops \in [Clients -> Int]
  /\ draining \in BOOLEAN
  /\ prepared \in [Clients -> SUBSET Levels]
  /\ route \in [Clients -> [Levels -> Places]]

\* Whoever builds, uploads or has a session holds workspaceMu.
LeaseHeld ==
  /\ warm = "building" => lease = Warmer
  /\ \A c \in Clients :
       session[c] # "none" \/ pc[c] \in {"building", "uploading"} => lease = c

\* What a client's place tells about its session and its kind.
Stages ==
  \A c \in Clients :
    /\ pc[c] \in {"building", "uploading"} => session[c] = "none"
    /\ pc[c] \in {"batching", "reading", "replacing"} => session[c] = "open"
    /\ pc[c] = "batching" => c \in Readers
    /\ pc[c] \in {"refresh", "replacing", "reopening"} => c \in Streams

\* An open session's pool is open, and its ladder whole.
Serving ==
  \A c \in Clients :
    /\ session[c] = "open" /\ pc[c] # "replacing" => ~draining
    /\ session[c] # "none" /\ pc[c] \notin {"replacing", "reopening"} =>
         ladder = <<c, base[c]>>

Control == SessionTypes /\ LeaseHeld /\ Stages /\ Serving

\* The routes inside a session, and what their operations add up to.
Inside(c) == At(c, "in") \cup At(c, "holds")
Counted ==
  \A c \in Clients :
    ops[c] = Cardinality(Inside(c)) + (IF pc[c] = "replacing" THEN 1 ELSE 0)
Quiet ==
  \A c \in Clients :
    /\ c \in Streams => prepared[c] = {}
    /\ c \in Streams /\ pc[c] # "reading" => Inside(c) = {}
    /\ session[c] \in {"none", "draining"} => Inside(c) = {} /\ prepared[c] = {}

GInv == Control /\ Counted /\ Quiet

-----------------------------------------------------------------------------
(* Who holds what: the lease, the sessions and the ladder.                 *)

\* Every step keeps the types of the state the proofs read.
LEMMA TypesNext == SessionTypes /\ [Next]_vars => SessionTypes'
<1> SUFFICES ASSUME SessionTypes, [Next]_vars PROVE SessionTypes'
  OBVIOUS
<1> USE DEF SessionTypes, Labels, Places, Goto, device, warmup, client, inside
<1>1. ASSUME NEW c \in Clients, Begin(c) PROVE SessionTypes'
  <2> USE DEF Open, Ready, Over, Place
  <2>1. CASE NextImage(c)
    BY <2>1 DEF NextImage
  <2>2. CASE Upload(c)
    <3>1. route' = [route EXCEPT ![c] = Ready] /\ Ready \in [Levels -> Places]
      BY <2>2, BoundsAssumption DEF Upload
    <3>2. route' \in [Clients -> [Levels -> Places]]
      BY <3>1
    <3> QED
      BY <2>2, <3>2 DEF Upload
  <2>3. CASE Lock(c) \/ Build(c) \/ BuildFails(c) \/ UploadFails(c)
    BY <2>3 DEF Lock, Build, BuildFails, UploadFails
  <2>4. CASE BeginWithoutSession(c) \/ JoinWarm(c) \/ ReadOnCPU(c)
    BY <2>4 DEF BeginWithoutSession, JoinWarm, ReadOnCPU
  <2> QED
    BY <1>1, <2>1, <2>2, <2>3, <2>4 DEF Begin
<1>2. ASSUME NEW c \in Clients, Operation(c) PROVE SessionTypes'
  <2> USE DEF Move, Place, Leave, At
  <2>1. CASE PrepareBatch(c)
    BY <2>1, ZenonT(30) DEF PrepareBatch
  <2>2. ASSUME NEW l \in Levels, Enter(c, l) PROVE SessionTypes'
    BY <2>2 DEF Enter, MayEnter, GoIn
  <2>3. ASSUME NEW l \in Levels, TakePrepared(c, l) PROVE SessionTypes'
    <3>1. CASE Move(c, l, "holds") /\ UNCHANGED ops
      BY <2>3, <3>1 DEF TakePrepared
    <3>2. CASE Leave(c, l)
      BY <2>3, <3>2 DEF TakePrepared
    <3> QED
      BY <2>3, <3>1, <3>2 DEF TakePrepared
  <2>4. ASSUME NEW l \in Levels, Acquire(c, l) PROVE SessionTypes'
    BY <2>4 DEF Acquire
  <2>5. ASSUME NEW l \in Levels, AcquireRefused(c, l) \/ Release(c, l) PROVE SessionTypes'
    <3>1. Leave(c, l) /\ UNCHANGED <<device, warmup, client, session, base, prepared>>
      BY <2>5 DEF AcquireRefused, Release
    <3> QED
      BY <3>1
  <2>6. ASSUME NEW l \in Levels, RouteEnds(c, l) PROVE SessionTypes'
    BY <2>6 DEF RouteEnds
  <2> QED
    BY <1>2, <2>1, <2>2, <2>3, <2>4, <2>5, <2>6 DEF Operation
<1>3. ASSUME NEW c \in Clients, Ending(c) PROVE SessionTypes'
  <2>1. CASE ReturnRead(c)
    BY <2>1 DEF ReturnRead, StartClose
  <2>2. CASE FinishOps(c)
    BY <2>2 DEF FinishOps
  <2>3. CASE FinishDrain(c)
    <3>1. pc' \in [Clients -> Labels]
      BY <2>3, SMTT(30) DEF FinishDrain, AfterClose
    <3> QED
      BY <2>3, <3>1 DEF FinishDrain
  <2> QED
    BY <1>3, <2>1, <2>2, <2>3 DEF Ending
<1>4. ASSUME NEW c \in Clients, Streaming(c) PROVE SessionTypes'
  <2> USE DEF StartClose, Open, Ready, AllOver, Over, Place
  <2>1. CASE RefreshDisabled(c) \/ RefreshAnew(c) \/ CloseStream(c)
    BY <2>1 DEF RefreshDisabled, RefreshAnew, CloseStream
  <2>2. CASE RefreshInPlace(c)
    BY <2>2 DEF RefreshInPlace
  <2>5. CASE ReplaceFails(c)
    BY <2>5 DEF ReplaceFails
  <2>3. CASE ReplaceBase(c)
    <3>1. route' = [route EXCEPT ![c] = Ready] /\ Ready \in [Levels -> Places]
      BY <2>3, BoundsAssumption DEF ReplaceBase
    <3>2. route' \in [Clients -> [Levels -> Places]]
      BY <3>1
    <3>3. /\ ops' \in [Clients -> Int] /\ base' \in [Clients -> Int]
          /\ pc' \in [Clients -> Labels]
      BY <2>3 DEF ReplaceBase
    <3> QED
      BY <2>3, <3>2, <3>3 DEF ReplaceBase
  <2>4. CASE FrameEnds(c)
    BY <2>4 DEF FrameEnds
  <2> QED
    BY <1>4, <2>1, <2>2, <2>3, <2>4, <2>5 DEF Streaming
<1>5. CASE StartWarm \/ WarmLocks \/ WarmBuilds \/ WarmEnds
  BY <1>5 DEF StartWarm, WarmLocks, WarmBuilds, WarmEnds
<1>6. CASE UNCHANGED vars
  BY <1>6 DEF vars
<1> QED
  BY <1>1, <1>2, <1>3, <1>4, <1>5, <1>6 DEF Next, Terminated

\* A step passes workspaceMu on only when its holder has neither a session nor a
\* half built workspace: Lock waits for it, finishDrain gives it back.
LEMMA LeaseNext == Control /\ [Next]_vars => LeaseHeld'
<1> SUFFICES ASSUME Control, [Next]_vars PROVE LeaseHeld'
  OBVIOUS
<1> USE ActorsAssumption DEF Control, SessionTypes, LeaseHeld, Stages, Goto, device, warmup, client
<1>1. ASSUME NEW c \in Clients, Begin(c) PROVE LeaseHeld'
  <2>1. CASE Lock(c)
    BY <2>1 DEF Lock
  <2>2. CASE Build(c)
    BY <2>2 DEF Build
  <2>3. CASE BuildFails(c) \/ UploadFails(c)
    BY <2>3 DEF BuildFails, UploadFails
  <2>4. CASE Upload(c)
    BY <2>4 DEF Upload, Open
  <2>5. CASE NextImage(c) \/ BeginWithoutSession(c) \/ JoinWarm(c) \/ ReadOnCPU(c)
    BY <2>5 DEF NextImage, BeginWithoutSession, JoinWarm, ReadOnCPU
  <2> QED
    BY <1>1, <2>1, <2>2, <2>3, <2>4, <2>5 DEF Begin
<1>2. ASSUME NEW c \in Clients, Operation(c) PROVE LeaseHeld'
  BY <1>2 DEF Operation, PrepareBatch, Enter, TakePrepared, Acquire, AcquireRefused, Release,
              RouteEnds
<1>3. ASSUME NEW c \in Clients, Ending(c) PROVE LeaseHeld'
  <2>1. CASE ReturnRead(c)
    BY <2>1 DEF ReturnRead, StartClose
  <2>2. CASE FinishOps(c)
    BY <2>2 DEF FinishOps
  <2>3. CASE FinishDrain(c)
    BY <2>3 DEF FinishDrain, AfterClose
  <2> QED
    BY <1>3, <2>1, <2>2, <2>3 DEF Ending
<1>4. ASSUME NEW c \in Clients, Streaming(c) PROVE LeaseHeld'
  BY <1>4 DEF Streaming, RefreshDisabled, RefreshInPlace, ReplaceBase, ReplaceFails, RefreshAnew,
              FrameEnds, CloseStream, StartClose, Open
<1>5. CASE StartWarm \/ WarmLocks \/ WarmBuilds \/ WarmEnds
  BY <1>5 DEF StartWarm, WarmLocks, WarmBuilds, WarmEnds
<1>6. CASE UNCHANGED vars
  BY <1>6 DEF vars
<1> QED
  BY <1>1, <1>2, <1>3, <1>4, <1>5, <1>6 DEF Next, Terminated

\* Where a client is tells whether its session is open: begin sets it up last, and
\* a close takes the caller out of its read.
LEMMA StagesNext == Control /\ [Next]_vars => Stages'
<1> SUFFICES ASSUME Control, [Next]_vars PROVE Stages'
  OBVIOUS
<1> USE ActorsAssumption DEF Control, SessionTypes, LeaseHeld, Stages, Goto, device, warmup, client
<1>1. ASSUME NEW c \in Clients, Begin(c) PROVE Stages'
  <2>1. CASE NextImage(c)
    BY <2>1 DEF NextImage, Clients
  <2>2. CASE Lock(c)
    BY <2>2 DEF Lock
  <2>3. CASE Upload(c)
    BY <2>3 DEF Upload, Open, Clients
  <2>4. CASE Build(c) \/ BuildFails(c) \/ UploadFails(c)
    BY <2>4 DEF Build, BuildFails, UploadFails
  <2>5. CASE BeginWithoutSession(c) \/ JoinWarm(c) \/ ReadOnCPU(c)
    BY <2>5 DEF BeginWithoutSession, JoinWarm, ReadOnCPU
  <2> QED
    BY <1>1, <2>1, <2>2, <2>3, <2>4, <2>5 DEF Begin
<1>2. ASSUME NEW c \in Clients, Operation(c) PROVE Stages'
  BY <1>2 DEF Operation, PrepareBatch, Enter, TakePrepared, Acquire, AcquireRefused, Release,
              RouteEnds
<1>3. ASSUME NEW c \in Clients, Ending(c) PROVE Stages'
  <2>1. CASE ReturnRead(c)
    BY <2>1 DEF ReturnRead, StartClose
  <2>2. CASE FinishOps(c)
    BY <2>2 DEF FinishOps
  <2>3. CASE FinishDrain(c)
    BY <2>3 DEF FinishDrain, AfterClose
  <2> QED
    BY <1>3, <2>1, <2>2, <2>3 DEF Ending
<1>4. ASSUME NEW c \in Clients, Streaming(c) PROVE Stages'
  BY <1>4 DEF Streaming, RefreshDisabled, RefreshInPlace, ReplaceBase, ReplaceFails, RefreshAnew,
              FrameEnds, CloseStream, StartClose, Open
<1>5. CASE StartWarm \/ WarmLocks \/ WarmBuilds \/ WarmEnds
  BY <1>5 DEF StartWarm, WarmLocks, WarmBuilds, WarmEnds
<1>6. CASE UNCHANGED vars
  BY <1>6 DEF vars
<1> QED
  BY <1>1, <1>2, <1>3, <1>4, <1>5, <1>6 DEF Next, Terminated

\* Nobody shuts the pool or rebuilds the ladder of an open session but its own
\* stream, which replaces the image.
LEMMA ServingNext == Control /\ [Next]_vars => Serving'
<1> SUFFICES ASSUME Control, [Next]_vars PROVE Serving'
  OBVIOUS
<1> USE ActorsAssumption DEF Control, SessionTypes, LeaseHeld, Stages, Serving, Goto, device,
        warmup, client
<1>1. ASSUME NEW c \in Clients, Begin(c) PROVE Serving'
  <2>1. CASE Build(c)
    BY <2>1 DEF Build
  <2>2. CASE BuildFails(c)
    BY <2>2 DEF BuildFails
  <2>3. CASE Upload(c)
    BY <2>3 DEF Upload, Open
  <2>4. CASE Lock(c) \/ UploadFails(c)
    BY <2>4 DEF Lock, UploadFails
  <2>5. CASE NextImage(c) \/ BeginWithoutSession(c) \/ JoinWarm(c) \/ ReadOnCPU(c)
    BY <2>5 DEF NextImage, BeginWithoutSession, JoinWarm, ReadOnCPU
  <2> QED
    BY <1>1, <2>1, <2>2, <2>3, <2>4, <2>5 DEF Begin
<1>2. ASSUME NEW c \in Clients, Operation(c) PROVE Serving'
  BY <1>2 DEF Operation, PrepareBatch, Enter, TakePrepared, Acquire, AcquireRefused, Release,
              RouteEnds
<1>3. ASSUME NEW c \in Clients, Ending(c) PROVE Serving'
  <2>1. CASE ReturnRead(c)
    BY <2>1 DEF ReturnRead, StartClose
  <2>2. CASE FinishOps(c)
    BY <2>2 DEF FinishOps
  <2>3. CASE FinishDrain(c)
    BY <2>3 DEF FinishDrain, AfterClose
  <2> QED
    BY <1>3, <2>1, <2>2, <2>3 DEF Ending
<1>4. ASSUME NEW c \in Clients, Streaming(c) PROVE Serving'
  <2>1. CASE RefreshDisabled(c) \/ CloseStream(c)
    BY <2>1 DEF RefreshDisabled, CloseStream, StartClose
  <2>2. CASE RefreshInPlace(c)
    BY <2>2 DEF RefreshInPlace
  <2>3. CASE ReplaceBase(c)
    BY <2>3 DEF ReplaceBase, Open
  <2>4. CASE ReplaceFails(c)
    BY <2>4 DEF ReplaceFails
  <2>5. CASE RefreshAnew(c) \/ FrameEnds(c)
    BY <2>5 DEF RefreshAnew, FrameEnds
  <2> QED
    BY <1>4, <2>1, <2>2, <2>3, <2>4, <2>5 DEF Streaming
<1>5. CASE StartWarm \/ WarmLocks \/ WarmBuilds \/ WarmEnds
  BY <1>5 DEF StartWarm, WarmLocks, WarmBuilds, WarmEnds
<1>6. CASE UNCHANGED vars
  BY <1>6 DEF vars
<1> QED
  BY <1>1, <1>2, <1>3, <1>4, <1>5, <1>6 DEF Next, Terminated

-----------------------------------------------------------------------------
(* Who is inside.                                                          *)

\* One route's move, and a new set of routes, change no other client's inside.
LEMMA InsideMoves ==
  ASSUME SessionTypes, NEW c \in Clients, NEW l \in Levels, NEW w, NEW n,
         route' = [route EXCEPT ![c][l] = Place(w, n)]
  PROVE  /\ \A d \in Clients \ {c} : Inside(d)' = Inside(d)
         /\ w \in {"in", "holds"} => Inside(c)' = Inside(c) \cup {l}
         /\ w \notin {"in", "holds"} => Inside(c)' = Inside(c) \ {l}
<1>1. \A d \in Clients \ {c} : route'[d] = route[d]
  BY DEF SessionTypes
<1>2. /\ route'[c][l][1] = w
      /\ \A k \in Levels \ {l} : route'[c][k] = route[c][k]
  BY DEF SessionTypes, Place
<1> QED
  BY <1>1, <1>2 DEF Inside, At

\* A client whose routes are all renewed has none inside.
LEMMA InsideRenewed ==
  ASSUME SessionTypes, NEW c \in Clients,
         \/ route' = [route EXCEPT ![c] = Ready]
         \/ route' = [route EXCEPT ![c] = AllOver]
  PROVE  Inside(c)' = {} /\ \A d \in Clients \ {c} : Inside(d)' = Inside(d)
<1>1. \A d \in Clients \ {c} : route'[d] = route[d]
  BY DEF SessionTypes
<1>2. \A l \in Levels : route'[c][l][1] \in {"out", "over"}
  BY DEF SessionTypes, Ready, AllOver, Over, Place
<1> QED
  BY <1>1, <1>2 DEF Inside, At

\* There are finitely many routes to count.
LEMMA InsideFinite ==
  \A c \in Clients : /\ IsFiniteSet(Inside(c)) /\ Cardinality(Inside(c)) \in Nat
                     /\ (Cardinality(Inside(c)) = 0) <=> (Inside(c) = {})
<1>1. \A c \in Clients : Inside(c) \subseteq Levels
  BY DEF Inside, At
<1> QED
  BY <1>1, LevelsAssumption, FS_Subset, FS_CardinalityType, FS_EmptySet

\* The operations of a route: where it ends up, and who is counted.
LEMMA RouteSteps ==
  ASSUME SessionTypes, NEW c \in Clients, NEW l \in Levels,
         \/ Enter(c, l) \/ TakePrepared(c, l) \/ Acquire(c, l)
         \/ AcquireRefused(c, l) \/ Release(c, l) \/ RouteEnds(c, l)
  PROVE  /\ \A d \in Clients \ {c} : Inside(d)' = Inside(d)
         /\ \/ l \notin Inside(c) /\ Inside(c)' = Inside(c) \cup {l}
                 /\ ops' = [ops EXCEPT ![c] = @ + 1] /\ Enter(c, l)
            \/ l \in Inside(c) /\ Inside(c)' = Inside(c) \ {l}
                 /\ ops' = [ops EXCEPT ![c] = @ - 1]
            \/ Inside(c)' = Inside(c) /\ ops' = ops
<1> USE DEF Move
<1>1. CASE Enter(c, l)
  <2>1. l \notin Inside(c)
    BY <1>1 DEF Enter, MayEnter, Inside, At
  <2>2. route' = [route EXCEPT ![c][l] = Place("in", route[c][l][2] - 1)]
    BY <1>1 DEF Enter, GoIn, SessionTypes
  <2>3. /\ \A d \in Clients \ {c} : Inside(d)' = Inside(d)
        /\ Inside(c)' = Inside(c) \cup {l}
    BY <2>2, InsideMoves
  <2> QED
    BY <1>1, <2>1, <2>3 DEF Enter
<1>2. ASSUME l \in Inside(c), Leave(c, l)
      PROVE  /\ \A d \in Clients \ {c} : Inside(d)' = Inside(d)
             /\ Inside(c)' = Inside(c) \ {l} /\ ops' = [ops EXCEPT ![c] = @ - 1]
  <2>1. route' = [route EXCEPT ![c][l] = Place("out", route[c][l][2])]
    BY <1>2 DEF Leave, SessionTypes
  <2>2. /\ \A d \in Clients \ {c} : Inside(d)' = Inside(d)
        /\ Inside(c)' = Inside(c) \ {l}
    <3>1. "out" \notin {"in", "holds"}
      OBVIOUS
    <3> QED
      BY <2>1, <3>1, InsideMoves
  <2> QED
    BY <1>2, <2>2 DEF Leave
<1>3. ASSUME l \in Inside(c), Move(c, l, "holds"), UNCHANGED ops
      PROVE  /\ \A d \in Clients \ {c} : Inside(d)' = Inside(d)
             /\ Inside(c)' = Inside(c) /\ ops' = ops
  <2>1. route' = [route EXCEPT ![c][l] = Place("holds", route[c][l][2])]
    BY <1>3 DEF SessionTypes
  <2>2. /\ \A d \in Clients \ {c} : Inside(d)' = Inside(d)
        /\ Inside(c)' = Inside(c) \cup {l}
    BY <2>1, InsideMoves
  <2> QED
    BY <1>3, <2>2
<1>4. CASE TakePrepared(c, l)
  <2>1. l \in Inside(c)
    BY <1>4 DEF TakePrepared, Inside
  <2> QED
    BY <1>2, <1>3, <1>4, <2>1 DEF TakePrepared
<1>5. CASE Acquire(c, l)
  <2>1. l \in Inside(c) /\ Move(c, l, "holds") /\ UNCHANGED ops
    BY <1>5 DEF Acquire, Inside
  <2> QED
    BY <1>3, <2>1
<1>6. CASE AcquireRefused(c, l) \/ Release(c, l)
  <2>1. l \in Inside(c) /\ Leave(c, l)
    BY <1>6 DEF AcquireRefused, Release, Inside
  <2> QED
    BY <1>2, <2>1
<1>7. CASE RouteEnds(c, l)
  <2>1. l \notin Inside(c)
    BY <1>7 DEF RouteEnds, Inside, At
  <2>2. route' = [route EXCEPT ![c][l] = Place("over", route[c][l][2])]
    BY <1>7 DEF RouteEnds, SessionTypes
  <2>3. /\ \A d \in Clients \ {c} : Inside(d)' = Inside(d)
        /\ Inside(c)' = Inside(c) \ {l}
    <3>1. "over" \notin {"in", "holds"}
      OBVIOUS
    <3> QED
      BY <2>2, <3>1, InsideMoves
  <2> QED
    BY <1>7, <2>1, <2>3 DEF RouteEnds
<1> QED
  BY <1>1, <1>4, <1>5, <1>6, <1>7

\* Nobody goes in or out.
Still == \A d \in Clients : Inside(d)' = Inside(d)

\* The operations of a session are its routes inside, and the replacement of its
\* image: enter and leave count them one by one, and whoever renews the routes
\* finds all of them outside.
LEMMA CountedNext == GInv /\ [Next]_vars => Counted'
<1> SUFFICES ASSUME GInv, [Next]_vars PROVE Counted'
  OBVIOUS
<1> USE DEF GInv, Control
<1>r. ASSUME route' = route PROVE Still
  BY <1>r DEF Still, Inside, At
<1>1. ASSUME NEW c \in Clients, Begin(c) PROVE Counted'
  <2>1. CASE Upload(c)
    <3>1. Inside(c) = {} /\ ops' = ops /\ pc'[c] # "replacing" /\ pc[c] # "replacing"
      BY <2>1 DEF Upload, Open, Quiet, Stages, SessionTypes, Goto
    <3>2. Inside(c)' = {} /\ \A d \in Clients \ {c} : Inside(d)' = Inside(d)
      BY <2>1, InsideRenewed DEF Upload, Open
    <3>3. \A d \in Clients \ {c} : pc'[d] = pc[d]
      BY <2>1 DEF Upload, Open, Goto, SessionTypes
    <3> QED
      BY <3>1, <3>2, <3>3 DEF Counted
  <2>2. CASE ~Upload(c)
    <3>1. /\ ops' = ops /\ route' = route
          /\ \A d \in Clients : (pc'[d] = "replacing") <=> (pc[d] = "replacing")
      BY <1>1, <2>2 DEF Begin, NextImage, BeginWithoutSession, JoinWarm, Lock, Build, BuildFails,
                        UploadFails, ReadOnCPU, Goto, SessionTypes, inside, client
    <3> QED
      BY <3>1, <1>r DEF Counted, Still
  <2> QED
    BY <2>1, <2>2
<1>2. ASSUME NEW c \in Clients, Operation(c) PROVE Counted'
  <2>1. CASE PrepareBatch(c)
    <3>1. /\ ops' = ops /\ route' = route
          /\ \A d \in Clients : (pc'[d] = "replacing") <=> (pc[d] = "replacing")
      BY <2>1 DEF PrepareBatch, Goto, SessionTypes
    <3> QED
      BY <3>1, <1>r DEF Counted, Still
  <2>2. ASSUME NEW l \in Levels,
               \/ Enter(c, l) \/ TakePrepared(c, l) \/ Acquire(c, l)
               \/ AcquireRefused(c, l) \/ Release(c, l) \/ RouteEnds(c, l)
        PROVE Counted'
    <3>1. pc' = pc
      BY <2>2 DEF Enter, TakePrepared, Acquire, AcquireRefused, Release, RouteEnds, client
    <3>2. \A d \in Clients \ {c} : Inside(d)' = Inside(d) /\ ops'[d] = ops[d]
      BY <2>2, RouteSteps, SMTT(30) DEF SessionTypes
    <3>3. ops'[c] - Cardinality(Inside(c)') = ops[c] - Cardinality(Inside(c))
      <4>1. CASE l \notin Inside(c) /\ Inside(c)' = Inside(c) \cup {l}
                   /\ ops' = [ops EXCEPT ![c] = @ + 1]
        <5>1. Cardinality(Inside(c) \cup {l}) = Cardinality(Inside(c)) + 1
          BY <4>1, InsideFinite, FS_AddElement
        <5>2. ops[c] \in Int /\ ops'[c] = ops[c] + 1
          BY <4>1 DEF SessionTypes
        <5> QED
          BY <4>1, <5>1, <5>2, InsideFinite
      <4>2. CASE l \in Inside(c) /\ Inside(c)' = Inside(c) \ {l}
                   /\ ops' = [ops EXCEPT ![c] = @ - 1]
        <5>1. Cardinality(Inside(c) \ {l}) = Cardinality(Inside(c)) - 1
          BY <4>2, InsideFinite, FS_RemoveElement
        <5>2. ops[c] \in Int /\ ops'[c] = ops[c] - 1
          BY <4>2 DEF SessionTypes
        <5> QED
          BY <4>2, <5>1, <5>2, InsideFinite
      <4>3. CASE Inside(c)' = Inside(c) /\ ops' = ops
        BY <4>3
      <4> QED
        BY <2>2, <4>1, <4>2, <4>3, RouteSteps
    <3>4. ops'[c] \in Int /\ Cardinality(Inside(c)') \in Int /\ Cardinality(Inside(c)) \in Int
      <4>1. IsFiniteSet(Inside(c)')
        BY <2>2, RouteSteps, InsideFinite, FS_AddElement, FS_RemoveElement
      <4> QED
        BY <4>1, InsideFinite, FS_CardinalityType, TypesNext DEF SessionTypes
    <3> QED
      BY <3>1, <3>2, <3>3, <3>4 DEF Counted, SessionTypes
  <2> QED
    BY <1>2, <2>1, <2>2 DEF Operation
<1>3. ASSUME NEW c \in Clients, Ending(c) PROVE Counted'
  <2>1. /\ ops' = ops /\ route' = route
        /\ \A d \in Clients : (pc'[d] = "replacing") <=> (pc[d] = "replacing")
    <3>1. CASE ReturnRead(c)
      BY <3>1 DEF ReturnRead, StartClose, Goto, SessionTypes, inside
    <3>2. CASE FinishOps(c)
      BY <3>2 DEF FinishOps, client
    <3>3. CASE FinishDrain(c)
      BY <3>3 DEF FinishDrain, AfterClose, Goto, SessionTypes, inside
    <3> QED
      BY <1>3, <3>1, <3>2, <3>3 DEF Ending
  <2> QED
    BY <2>1, <1>r DEF Counted, Still
<1>4. ASSUME NEW c \in Clients, Streaming(c) PROVE Counted'
  <2>1. CASE RefreshDisabled(c) \/ RefreshAnew(c) \/ CloseStream(c)
    <3>1. /\ ops' = ops /\ route' = route
          /\ \A d \in Clients : (pc'[d] = "replacing") <=> (pc[d] = "replacing")
      BY <2>1 DEF RefreshDisabled, RefreshAnew, CloseStream, StartClose, Goto, SessionTypes, inside
    <3> QED
      BY <3>1, <1>r DEF Counted, Still
  <2>2. CASE RefreshInPlace(c) \/ ReplaceFails(c)
    <3>1. route' = route /\ \A d \in Clients \ {c} : pc'[d] = pc[d] /\ ops'[d] = ops[d]
      BY <2>2 DEF RefreshInPlace, ReplaceFails, Goto, SessionTypes
    <3>2. ops'[c] - (IF pc'[c] = "replacing" THEN 1 ELSE 0)
            = ops[c] - (IF pc[c] = "replacing" THEN 1 ELSE 0)
      BY <2>2 DEF RefreshInPlace, ReplaceFails, Goto, SessionTypes
    <3>3. ops[c] \in Int /\ ops'[c] \in Int
      BY TypesNext DEF SessionTypes
    <3> QED
      BY <3>1, <3>2, <3>3, <1>r, InsideFinite DEF Counted, Still
  <2>3. CASE ReplaceBase(c)
    <3>1. Inside(c) = {} /\ pc[c] = "replacing" /\ pc'[c] # "replacing" /\ ops'[c] = ops[c] - 1
      BY <2>3 DEF ReplaceBase, Open, Quiet, Stages, SessionTypes, Goto
    <3>2. Inside(c)' = {} /\ \A d \in Clients \ {c} : Inside(d)' = Inside(d)
      BY <2>3, InsideRenewed DEF ReplaceBase, Open
    <3>3. \A d \in Clients \ {c} : pc'[d] = pc[d] /\ ops'[d] = ops[d]
      BY <2>3 DEF ReplaceBase, Open, Goto, SessionTypes
    <3> QED
      BY <3>1, <3>2, <3>3, FS_EmptySet DEF Counted
  <2>4. CASE FrameEnds(c)
    <3>1. Inside(c) = {} /\ ops' = ops /\ pc'[c] # "replacing" /\ pc[c] # "replacing"
      BY <2>4 DEF FrameEnds, Inside, SessionTypes, Goto
    <3>2. Inside(c)' = {} /\ \A d \in Clients \ {c} : Inside(d)' = Inside(d)
      BY <2>4, InsideRenewed DEF FrameEnds
    <3>3. \A d \in Clients \ {c} : pc'[d] = pc[d]
      BY <2>4 DEF FrameEnds, Goto, SessionTypes
    <3> QED
      BY <3>1, <3>2, <3>3 DEF Counted
  <2> QED
    BY <1>4, <2>1, <2>2, <2>3, <2>4 DEF Streaming
<1>5. CASE StartWarm \/ WarmLocks \/ WarmBuilds \/ WarmEnds \/ UNCHANGED vars
  <2>1. /\ ops' = ops /\ route' = route
        /\ \A d \in Clients : (pc'[d] = "replacing") <=> (pc[d] = "replacing")
    BY <1>5 DEF StartWarm, WarmLocks, WarmBuilds, WarmEnds, SessionTypes, inside, client, vars
  <2> QED
    BY <2>1, <1>r DEF Counted, Still
<1> QED
  BY <1>1, <1>2, <1>3, <1>4, <1>5 DEF Next, Terminated

\* A session that is over has nobody inside: it drained only once its operations
\* were counted down, and nobody enters it since.
LEMMA QuietNext == GInv /\ [Next]_vars => Quiet'
<1> SUFFICES ASSUME GInv, [Next]_vars PROVE Quiet'
  OBVIOUS
<1> USE DEF GInv, Control
<1>r. ASSUME route' = route, prepared' = prepared,
             \A d \in Streams : (pc[d] = "reading") => (pc'[d] = "reading"),
             \A d \in Clients : (session'[d] \in {"none", "draining"})
                               => (session[d] \in {"none", "draining"})
      PROVE  Quiet'
  <2>1. \A d \in Clients : Inside(d)' = Inside(d)
    BY <1>r DEF Inside, At
  <2> SUFFICES ASSUME NEW d \in Clients
               PROVE  /\ d \in Streams => prepared'[d] = {}
                      /\ d \in Streams /\ pc'[d] # "reading" => Inside(d)' = {}
                      /\ session'[d] \in {"none", "draining"} =>
                           Inside(d)' = {} /\ prepared'[d] = {}
    BY DEF Quiet
  <2>2. d \in Streams => prepared'[d] = {}
    BY <1>r DEF Quiet
  <2>3. d \in Streams /\ pc'[d] # "reading" => Inside(d)' = {}
    BY <1>r, <2>1 DEF Quiet
  <2>4. session'[d] \in {"none", "draining"} => Inside(d)' = {} /\ prepared'[d] = {}
    BY <1>r, <2>1 DEF Quiet
  <2> QED
    BY <2>2, <2>3, <2>4
<1>n. ASSUME NEW c \in Clients, Inside(c)' = {}, prepared' = prepared,
             \A d \in Clients \ {c} : Inside(d)' = Inside(d) /\ pc'[d] = pc[d]
                                     /\ session'[d] = session[d],
             c \in Streams \/ session'[c] = "open"
      PROVE  Quiet'
  BY <1>n DEF Quiet
<1>1. ASSUME NEW c \in Clients, Begin(c) PROVE Quiet'
  <2>1. CASE Upload(c)
    <3>1. Inside(c)' = {} /\ \A d \in Clients \ {c} : Inside(d)' = Inside(d)
      BY <2>1, InsideRenewed DEF Upload, Open
    <3>2. /\ prepared' = prepared /\ session'[c] = "open"
          /\ \A d \in Clients \ {c} : pc'[d] = pc[d] /\ session'[d] = session[d]
      BY <2>1 DEF Upload, Open, Goto, SessionTypes
    <3> QED
      BY <3>1, <3>2, <1>n
  <2>2. CASE ~Upload(c)
    <3>1. /\ route' = route /\ prepared' = prepared /\ session' = session
          /\ \A d \in Streams : (pc[d] = "reading") => (pc'[d] = "reading")
      BY <1>1, <2>2 DEF Begin, NextImage, BeginWithoutSession, JoinWarm, Lock, Build, BuildFails,
                        UploadFails, ReadOnCPU, Goto, SessionTypes, inside, client, Clients
    <3> QED
      BY <3>1, <1>r
  <2> QED
    BY <2>1, <2>2
<1>2. ASSUME NEW c \in Clients, Operation(c) PROVE Quiet'
  <2>1. CASE PrepareBatch(c)
    <3>1. c \notin Streams /\ session[c] = "open"
      BY <2>1, ActorsAssumption DEF PrepareBatch, Stages
    <3>2. /\ route' = route /\ session' = session
          /\ \A d \in Clients \ {c} : pc'[d] = pc[d] /\ prepared'[d] = prepared[d]
      BY <2>1 DEF PrepareBatch, Goto, SessionTypes
    <3> QED
      BY <3>1, <3>2 DEF Quiet, Inside, At
  <2>2. ASSUME NEW l \in Levels,
               \/ Enter(c, l) \/ TakePrepared(c, l) \/ Acquire(c, l)
               \/ AcquireRefused(c, l) \/ Release(c, l) \/ RouteEnds(c, l)
        PROVE Quiet'
    <3>1. pc' = pc /\ session' = session
      BY <2>2 DEF Enter, TakePrepared, Acquire, AcquireRefused, Release, RouteEnds, client
    <3>2. \A d \in Clients : prepared'[d] \subseteq prepared[d]
      BY <2>2 DEF Enter, TakePrepared, Acquire, AcquireRefused, Release, RouteEnds, SessionTypes
    <3>3. \A d \in Clients \ {c} : Inside(d)' = Inside(d)
      BY <2>2, RouteSteps DEF SessionTypes
    <3>4. CASE Enter(c, l)
      <4>1. session[c] = "open" /\ (c \in Streams => pc[c] = "reading")
        BY <3>4 DEF Enter, MayEnter
      <4> QED
        BY <3>1, <3>2, <3>3, <4>1 DEF Quiet
    <3>5. CASE Inside(c)' \subseteq Inside(c)
      BY <3>1, <3>2, <3>3, <3>5 DEF Quiet
    <3> QED
      BY <2>2, <3>4, <3>5, RouteSteps
  <2> QED
    BY <1>2, <2>1, <2>2 DEF Operation
<1>3. ASSUME NEW c \in Clients, Ending(c) PROVE Quiet'
  <2>1. CASE ReturnRead(c)
    <3>1. /\ route' = route /\ prepared' = prepared
          /\ \A d \in Streams : (pc[d] = "reading") => (pc'[d] = "reading")
          /\ \A d \in Clients : (session'[d] \in {"none", "draining"})
                                => (session[d] \in {"none", "draining"})
      BY <2>1, ActorsAssumption DEF ReturnRead, StartClose, Goto, SessionTypes, inside, Clients
    <3> QED
      BY <3>1, <1>r
  <2>2. CASE FinishOps(c)
    <3>1. Inside(c) = {}
      BY <2>2, InsideFinite DEF FinishOps, Counted, Stages
    <3>2. /\ route' = route /\ pc' = pc /\ prepared'[c] = {}
          /\ \A d \in Clients \ {c} : session'[d] = session[d] /\ prepared'[d] = prepared[d]
      BY <2>2 DEF FinishOps, SessionTypes, client
    <3> QED
      BY <3>1, <3>2 DEF Quiet, Inside, At
  <2>3. CASE FinishDrain(c)
    <3>1. /\ route' = route /\ prepared' = prepared
          /\ \A d \in Streams : (pc[d] = "reading") => (pc'[d] = "reading")
          /\ \A d \in Clients : (session'[d] \in {"none", "draining"})
                                => (session[d] \in {"none", "draining"})
      BY <2>3 DEF FinishDrain, AfterClose, Goto, SessionTypes, inside, Clients
    <3> QED
      BY <3>1, <1>r
  <2> QED
    BY <1>3, <2>1, <2>2, <2>3 DEF Ending
<1>4. ASSUME NEW c \in Clients, Streaming(c) PROVE Quiet'
  <2>1. CASE ReplaceBase(c)
    <3>1. Inside(c)' = {} /\ \A d \in Clients \ {c} : Inside(d)' = Inside(d)
      BY <2>1, InsideRenewed DEF ReplaceBase, Open
    <3>2. /\ prepared' = prepared /\ session' = session /\ session[c] = "open"
          /\ \A d \in Clients \ {c} : pc'[d] = pc[d]
      BY <2>1 DEF ReplaceBase, Open, Goto, SessionTypes, Stages
    <3> QED
      BY <3>1, <3>2, <1>n
  <2>2. CASE FrameEnds(c)
    <3>1. Inside(c)' = {} /\ \A d \in Clients \ {c} : Inside(d)' = Inside(d)
      BY <2>2, InsideRenewed DEF FrameEnds
    <3>2. /\ prepared' = prepared /\ session' = session /\ c \in Streams
          /\ \A d \in Clients \ {c} : pc'[d] = pc[d]
      BY <2>2 DEF FrameEnds, Goto, SessionTypes
    <3> QED
      BY <3>1, <3>2, <1>n
  <2>3. CASE \/ RefreshDisabled(c) \/ RefreshInPlace(c) \/ ReplaceFails(c)
             \/ RefreshAnew(c) \/ CloseStream(c)
    <3>1. /\ route' = route /\ prepared' = prepared
          /\ \A d \in Streams : (pc[d] = "reading") => (pc'[d] = "reading")
          /\ \A d \in Clients : (session'[d] \in {"none", "draining"})
                                => (session[d] \in {"none", "draining"})
      BY <2>3 DEF RefreshDisabled, RefreshInPlace, ReplaceFails, RefreshAnew, CloseStream,
                  StartClose, Goto, SessionTypes, inside, Clients
    <3> QED
      BY <3>1, <1>r
  <2> QED
    BY <1>4, <2>1, <2>2, <2>3 DEF Streaming
<1>5. CASE StartWarm \/ WarmLocks \/ WarmBuilds \/ WarmEnds \/ UNCHANGED vars
  <2>1. /\ route' = route /\ prepared' = prepared /\ session' = session
        /\ \A d \in Streams : (pc[d] = "reading") => (pc'[d] = "reading")
    BY <1>5 DEF StartWarm, WarmLocks, WarmBuilds, WarmEnds, SessionTypes, inside, client, vars, Clients
  <2> QED
    BY <2>1, <1>r
<1> QED
  BY <1>1, <1>2, <1>3, <1>4, <1>5 DEF Next, Terminated

-----------------------------------------------------------------------------
(* The invariant, and the properties that follow from it.                  *)

\* At the start nobody holds, builds or reads anything.
LEMMA InitHolds == Init => GInv
<1> SUFFICES ASSUME Init PROVE GInv
  OBVIOUS
<1>1. SessionTypes
  <2>1. AllOver \in [Levels -> Places]
    BY DEF AllOver, Over, Place, Places
  <2>2. route \in [Clients -> [Levels -> Places]]
    BY <2>1 DEF Init
  <2>3. /\ pc \in [Clients -> Labels]
        /\ session \in [Clients -> {"none", "open", "closing", "draining"}]
    BY DEF Init, Labels
  <2>4. frame \in [Clients -> Int] /\ base \in [Clients -> Int] /\ ops \in [Clients -> Int]
    BY DEF Init
  <2>5. draining \in BOOLEAN /\ prepared \in [Clients -> SUBSET Levels]
    BY DEF Init
  <2> QED
    BY <2>2, <2>3, <2>4, <2>5 DEF SessionTypes
<1>2. LeaseHeld /\ Stages /\ Serving
  BY DEF Init, LeaseHeld, Stages, Serving
<1>3. \A c \in Clients : Inside(c) = {}
  BY DEF Init, Inside, At, AllOver, Over, Place
<1>4. Counted /\ Quiet
  BY <1>3, FS_EmptySet DEF Init, Counted, Quiet
<1> QED
  BY <1>1, <1>2, <1>4 DEF GInv, Control

\* The workspace mutex is the lease of at most one session, the operations of a
\* session are the routes inside it, and a session that is over has none.
THEOREM SessionInvariant == Spec => []GInv
<1>1. GInv /\ [Next]_vars => GInv'
  BY TypesNext, LeaseNext, StagesNext, ServingNext, CountedNext, QuietNext DEF GInv, Control
<1> QED
  BY <1>1, InitHolds, PTL DEF Spec

\* While a session is over none of its routes is inside: gpu_decode.go:1822-1828,
\* for every number of readers, streams, levels and contexts.
THEOREM NoStraddlingCorrect == Spec => []NoStraddling
<1>1. GInv => NoStraddling
  BY DEF GInv, Quiet, Inside, NoStraddling
<1> QED
  BY <1>1, SessionInvariant, PTL

\* An open session has the lease and a pool that refuses nobody, except while its
\* stream replaces the image.
THEOREM OpenServesCorrect == Spec => []OpenServes
<1>1. GInv => OpenServes
  BY DEF GInv, Control, LeaseHeld, Serving, OpenServes
<1> QED
  BY <1>1, SessionInvariant, PTL

\* A context on lease reads the image its own session uploaded, whole.
THEOREM ImageCorrect == Spec => []DeviceReadsOwnImage
<1>1. GInv => DeviceReadsOwnImage
  <2> SUFFICES ASSUME GInv, NEW c \in Clients, Out(c) > 0
               PROVE  lease = c /\ ladder = <<c, base[c]>>
    BY DEF DeviceReadsOwnImage
  <2> USE DEF GInv, Control
  <2>1. At(c, "holds") # {} \/ prepared[c] # {}
    <3>1. Cardinality({}) = 0
      BY FS_EmptySet
    <3> QED
      BY <3>1 DEF Out
  <2>2. session[c] # "none"
    BY <2>1 DEF Quiet, Inside
  <2>3. pc[c] \notin {"replacing", "reopening"}
    BY <2>1 DEF Quiet, Inside, Stages
  <2> QED
    BY <2>2, <2>3 DEF LeaseHeld, Serving
<1> QED
  BY <1>1, SessionInvariant, PTL

=============================================================================
