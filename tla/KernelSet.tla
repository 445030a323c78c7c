----------------------------- MODULE KernelSet -----------------------------
(***************************************************************************)
(* The compiled kernels that every route context of one device shares:     *)
(* gpuDecodeKernels in internal/detect/gpu_kernels.go and gpu_subgroup.go, *)
(* and the device cache of gpu_runtime.go.                                 *)
(*                                                                         *)
(* A kernel lives in a cell that is entered in the map under set.mu and    *)
(* filled once, outside the lock, by whoever comes first.  A background    *)
(* goroutine (the warmer) compiles the finder chains stage by stage; route *)
(* goroutines ask for the directional windows kernel, which falls back to  *)
(* a portable one; Close may run beside all of them.                       *)
(***************************************************************************)
EXTENDS Integers, Sequences, FiniteSets

CONSTANTS
  Readers,      \* goroutines that ask for the device and for kernels
  StageKernels, \* the kernels each stage compiles, in order
  Limits,       \* what the device's limits allow: a set of records
                \*   [launch, ballot : BOOLEAN], one chosen at the start
  MaxRequests,  \* bound: requests of one reader
  MaxFailures   \* bound: kernels that fail to compile
CONSTANTS Warmer, Closer, None

ASSUME ActorsAssumption == Warmer \notin Readers /\ Closer \notin Readers
ASSUME StagesAssumption ==
  \A s \in {"row", "pitch", "directional"} : Len(StageKernels[s]) \in Nat \ {0}
ASSUME LimitsAssumption == Limits \subseteq [launch : BOOLEAN, ballot : BOOLEAN]
ASSUME NoneAssumption ==
  None \notin {"device", "refused", "windowsBallot", "windowsScan", "unsupported", "unavailable"}
ASSUME KernelBoundsAssumption == MaxRequests \in Nat /\ MaxFailures \in Nat

\* The stages of warmFinderChains, in order.
Stages == <<"row", "pitch", "directional">>
StageNames == {"row", "pitch", "directional"}
KernelsOf(s) == {StageKernels[s][i] : i \in 1 .. Len(StageKernels[s])}
Names == {"windowsBallot", "windowsScan"} \cup UNION {KernelsOf(s) : s \in StageNames}
Actors == Readers \cup {Warmer}

VARIABLES
  cache,      \* the device cache: "unopened", "opening", "open", "rejected",
              \* "failed", "faulted"
  cell,       \* cell[n]: "absent", "new", "compiling", "built", "failed"
  alive,      \* compiled kernels not closed yet
  closed, toClose,          \* Close has begun; cells it has still to visit
  closer,     \* "open", "cells", "done"
  probe,      \* subgroupProbe: "unasked", "running", "yes", "no", "error"
  fallback,   \* ballotFallback holds an error
  ready,      \* stages whose flag is stored
  limits,     \* the limits of this device
  pc, want,   \* per actor: its place, and the kernel it fetches
  step,       \* the warmer's place: <<stage, kernel>>
  warm,       \* chainWarmDone: "off", "running", "done"
  made, got   \* requests made, and the last answer of each reader

deviceVars == <<cache, limits>>
cellVars   == <<cell, alive, closed, toClose>>
flagVars   == <<probe, fallback, ready>>
actorVars  == <<pc, want, step, warm, made, got>>
setVars == <<deviceVars, cellVars, closer, flagVars, actorVars>>

SetInit ==
  /\ cache = "unopened" /\ limits \in Limits
  /\ cell = [n \in Names |-> "absent"] /\ alive = {}
  /\ closed = FALSE /\ toClose = {} /\ closer = "open"
  /\ probe = "unasked" /\ fallback = FALSE /\ ready = {}
  /\ pc = [a \in Actors |-> "idle"] /\ want = [a \in Actors |-> None]
  /\ step = <<1, 1>> /\ warm = "off"
  /\ made = [r \in Readers |-> 0] /\ got = [r \in Readers |-> None]

Goto(a, label) == pc' = [pc EXCEPT ![a] = label]
Reply(r, what) == got' = [got EXCEPT ![r] = what]

-----------------------------------------------------------------------------
(* deviceFor: opened once, the first outcome sticks.                       *)

\* Mutant: a failed opening is tried again by the next reader.
OpenAgain(r) ==
  /\ pc[r] = "idle" /\ made[r] < MaxRequests
  /\ cache \in {"unopened", "failed"}
  /\ cache' = "opening" /\ Goto(r, "opening")
  /\ made' = [made EXCEPT ![r] = @ + 1]
  /\ UNCHANGED <<limits, cellVars, closer, flagVars, want, step, warm, got>>

\* The reader that comes first runs the once; the others wait for it.
OpenDevice(r) ==
  /\ pc[r] = "idle" /\ made[r] < MaxRequests
  /\ cache = "unopened"
  /\ cache' = "opening" /\ Goto(r, "opening")
  /\ made' = [made EXCEPT ![r] = @ + 1]
  /\ UNCHANGED <<limits, cellVars, closer, flagVars, want, step, warm, got>>

\* A device that is not a discrete GPU is closed again and refused.
DeviceOpened(r) ==
  /\ pc[r] = "opening"
  /\ cache' \in {"open", "rejected", "failed"}
  /\ Goto(r, "idle")
  /\ Reply(r, IF cache' = "open" THEN "device" ELSE "refused")
  /\ UNCHANGED <<limits, cellVars, closer, flagVars, want, step, warm, made>>

AskDevice(r) ==
  /\ pc[r] = "idle" /\ made[r] < MaxRequests
  /\ cache \notin {"unopened", "opening"} /\ got[r] # "device"
  /\ made' = [made EXCEPT ![r] = @ + 1]
  /\ Reply(r, IF cache = "open" THEN "device" ELSE "refused")
  /\ UNCHANGED <<deviceVars, cellVars, closer, flagVars, pc, want, step, warm>>

\* The device is lost: device.Err reports it to every later reader.  A loss
\* that no reader is left to notice is left out.
DeviceFaults ==
  /\ cache = "open" /\ closer = "open" /\ \E r \in Readers : got[r] = None
  /\ cache' = "faulted"
  /\ UNCHANGED <<limits, cellVars, closer, flagVars, actorVars>>

-----------------------------------------------------------------------------
(* kernelWith: find or enter the cell under set.mu, then fill it once.     *)

Lookup(a) ==
  /\ pc[a] = "fetch"
  /\ IF closed THEN Goto(a, "refused") /\ UNCHANGED cell
     ELSE /\ cell' = IF cell[want[a]] = "absent" THEN [cell EXCEPT ![want[a]] = "new"] ELSE cell
          /\ Goto(a, "once")
  /\ UNCHANGED <<deviceVars, alive, closed, toClose, closer, flagVars, want, step, warm,
                 made, got>>

FillOnce(a) ==
  /\ pc[a] = "once"
  /\ CASE cell[want[a]] = "new" ->
            cell' = [cell EXCEPT ![want[a]] = "compiling"] /\ Goto(a, "compile")
       [] cell[want[a]] = "built"  -> Goto(a, "granted") /\ UNCHANGED cell
       [] cell[want[a]] = "failed" -> Goto(a, "refused") /\ UNCHANGED cell
       [] cell[want[a]] = "compiling" -> FALSE
  /\ UNCHANGED <<deviceVars, alive, closed, toClose, closer, flagVars, want, step, warm,
                 made, got>>

Compile(a) ==
  /\ pc[a] = "compile"
  /\ \/ cell' = [cell EXCEPT ![want[a]] = "built"] /\ alive' = alive \cup {want[a]}
        /\ Goto(a, "granted")
     \/ /\ Cardinality({n \in Names : cell[n] = "failed"}) < MaxFailures
        /\ cell' = [cell EXCEPT ![want[a]] = "failed"] /\ UNCHANGED alive
        /\ Goto(a, "refused")
  /\ UNCHANGED <<deviceVars, closed, toClose, closer, flagVars, want, step, warm, made, got>>

-----------------------------------------------------------------------------
(* warmFinderChains: each stage stops at its first failure.                *)

StartWarming ==
  /\ cache = "open" /\ warm = "off" /\ ~closed
  /\ warm' = "running"
  /\ want' = [want EXCEPT ![Warmer] = StageKernels[Stages[1]][1]]
  /\ Goto(Warmer, "fetch")
  /\ UNCHANGED <<deviceVars, cellVars, closer, flagVars, step, made, got>>

WarmAt(s, k) ==
  /\ step' = <<s, k>>
  /\ IF s > Len(Stages)
     THEN warm' = "done" /\ Goto(Warmer, "idle") /\ want' = [want EXCEPT ![Warmer] = None]
     ELSE /\ want' = [want EXCEPT ![Warmer] = StageKernels[Stages[s]][k]]
          /\ Goto(Warmer, "fetch") /\ UNCHANGED warm

\* Mutant: a stage that fails is begun again.
WarmRetryingStage ==
  /\ pc[Warmer] \in {"granted", "refused"}
  /\ LET s == step[1]  k == step[2]  whole == k = Len(StageKernels[Stages[s]])
     IN /\ ready' = IF pc[Warmer] = "granted" /\ whole THEN ready \cup {Stages[s]} ELSE ready
        /\ CASE pc[Warmer] = "refused" -> WarmAt(s, 1)
             [] whole /\ pc[Warmer] = "granted" -> WarmAt(s + 1, 1)
             [] OTHER -> WarmAt(s, k + 1)
  /\ UNCHANGED <<deviceVars, cellVars, closer, probe, fallback, made, got>>

WarmNext ==
  /\ pc[Warmer] \in {"granted", "refused"}
  /\ LET s == step[1]  k == step[2]  whole == k = Len(StageKernels[Stages[s]])
     IN /\ ready' = IF pc[Warmer] = "granted" /\ whole THEN ready \cup {Stages[s]} ELSE ready
        /\ IF pc[Warmer] = "refused" \/ whole THEN WarmAt(s + 1, 1) ELSE WarmAt(s, k + 1)
  /\ UNCHANGED <<deviceVars, cellVars, closer, probe, fallback, made, got>>

-----------------------------------------------------------------------------
(* finderWindows: the ballot kernel where it is usable, else the portable  *)
(* one, with every failure kept in ballotFallback.                         *)

Fetch(r, n) == want' = [want EXCEPT ![r] = n] /\ Goto(r, "fetch")

AskWindows(r) ==
  /\ pc[r] = "idle" /\ got[r] \in {"device", "windowsBallot", "windowsScan"} /\ made[r] < MaxRequests
  /\ made' = [made EXCEPT ![r] = @ + 1]
  /\ CASE ~limits.launch -> Reply(r, "unsupported") /\ UNCHANGED <<want, pc>>
       [] limits.launch /\ limits.ballot -> Goto(r, "probe") /\ UNCHANGED <<want, got>>
       [] limits.launch /\ ~limits.ballot -> Fetch(r, "windowsScan") /\ UNCHANGED got
  /\ UNCHANGED <<deviceVars, cellVars, closer, flagVars, step, warm>>

\* subgroupLayoutUsable: the probe runs once and its verdict is kept.
Probe(r) ==
  /\ pc[r] = "probe"
  /\ CASE probe = "unasked" ->
            probe' = "running" /\ Goto(r, "probing") /\ UNCHANGED <<want, fallback>>
       [] probe = "yes" -> Fetch(r, "windowsBallot") /\ UNCHANGED <<probe, fallback>>
       [] probe = "no"  -> Fetch(r, "windowsScan") /\ UNCHANGED <<probe, fallback>>
       [] probe = "error" ->
            Fetch(r, "windowsScan") /\ fallback' = TRUE /\ UNCHANGED probe
       [] probe = "running" -> FALSE
  /\ UNCHANGED <<deviceVars, cellVars, closer, ready, step, warm, made, got>>

Probed(r) ==
  /\ pc[r] = "probing"
  /\ probe' \in {"yes", "no", "error"}
  /\ Goto(r, "probe")
  /\ UNCHANGED <<deviceVars, cellVars, closer, fallback, ready, want, step, warm, made, got>>

\* Mutant: a ballot kernel that fails to compile is replaced without a word.
FallBackSilently(r) ==
  /\ pc[r] = "refused" /\ want[r] = "windowsBallot"
  /\ Fetch(r, "windowsScan")
  /\ UNCHANGED <<deviceVars, cellVars, closer, flagVars, step, warm, made, got>>

FallBack(r) ==
  /\ pc[r] = "refused" /\ want[r] = "windowsBallot"
  /\ fallback' = TRUE
  /\ Fetch(r, "windowsScan")
  /\ UNCHANGED <<deviceVars, cellVars, closer, probe, ready, step, warm, made, got>>

WindowsAnswered(r) ==
  /\ \/ pc[r] = "granted" /\ Reply(r, want[r])
     \/ pc[r] = "refused" /\ want[r] # "windowsBallot" /\ Reply(r, "unavailable")
  /\ Goto(r, "idle") /\ want' = [want EXCEPT ![r] = None]
  /\ UNCHANGED <<deviceVars, cellVars, closer, flagVars, step, warm, made>>

-----------------------------------------------------------------------------
(* Close: mark the set, take the buffers, then visit every cell.           *)

BeginClose ==
  /\ closer = "open" /\ cache \in {"open", "faulted"}
  /\ closed' = TRUE
  /\ toClose' = {n \in Names : cell[n] # "absent"}
  /\ closer' = "cells"
  /\ UNCHANGED <<deviceVars, cell, alive, flagVars, actorVars>>

Visited(ns) ==
  /\ toClose' = toClose \ ns /\ alive' = alive \ ns
  /\ cell' = [n \in Names |-> IF n \in ns /\ cell[n] = "new" THEN "failed" ELSE cell[n]]

\* Mutant: a cell somebody is still filling is left to its goroutine.
CloseUnwaited ==
  /\ closer = "cells" /\ toClose # {}
  /\ Visited(toClose)
  /\ UNCHANGED <<deviceVars, closed, closer, flagVars, actorVars>>

\* The once of a cell waits for a compilation under way, or bars one.  The
\* cells that need no waiting are visited in one step: visits commute.
CloseCells ==
  /\ closer = "cells"
  /\ LET quiet == {n \in toClose : cell[n] # "compiling"}
     IN quiet # {} /\ Visited(quiet)
  /\ UNCHANGED <<deviceVars, closed, closer, flagVars, actorVars>>

Closed ==
  /\ closer = "cells" /\ toClose = {}
  /\ closer' = "done"
  /\ UNCHANGED <<deviceVars, cellVars, flagVars, actorVars>>

Terminated ==
  /\ \A a \in Actors : pc[a] = "idle"
  /\ closer \in {"open", "done"}
  /\ UNCHANGED setVars

CompileStep(a) == Lookup(a) \/ FillOnce(a) \/ Compile(a)
ReaderStep(r) ==
  \/ DeviceOpened(r) \/ Probe(r) \/ Probed(r) \/ FallBack(r) \/ WindowsAnswered(r)
CloserStep == CloseCells \/ Closed

SetNext ==
  \/ \E r \in Readers : OpenDevice(r) \/ AskDevice(r) \/ AskWindows(r) \/ ReaderStep(r)
  \/ \E a \in Actors : CompileStep(a)
  \/ DeviceFaults \/ StartWarming \/ WarmNext
  \/ BeginClose \/ CloserStep
  \/ Terminated

SetSpec ==
  /\ SetInit /\ [][SetNext]_setVars
  /\ \A r \in Readers : WF_setVars(ReaderStep(r))
  /\ \A a \in Actors : WF_setVars(CompileStep(a))
  /\ WF_setVars(WarmNext) /\ WF_setVars(CloserStep)

-----------------------------------------------------------------------------
\* Once Close has returned, no kernel is left on the
\* device, whoever was still compiling when it began (gpu_kernels.go:1369).
NothingSurvivesClose == closer = "done" => alive = {}

\* A reader that was given the portable kernel on a device whose limits and
\* layout allow the ballot one finds the reason recorded (gpu_kernels.go:510).
FallbackExplained ==
  \A r \in Readers :
    (got[r] = "windowsScan" /\ limits.ballot /\ probe # "no") => fallback

\* As long as the device has not failed since, no reader is refused it while
\* another one works on it: the first outcome is everybody's, and a failed
\* opening is not retried (gpu_runtime.go:44, 68).
AnswersAgree ==
  \A r, q \in Readers :
    (got[r] \in {"device", "windowsBallot", "windowsScan"} /\ got[q] = "refused")
      => cache = "faulted"

\* Every request is answered and Close returns, beside a compilation that may
\* fail at any point.
RequestsReturn ==
  /\ \A r \in Readers : (pc[r] # "idle") ~> (pc[r] = "idle")
  /\ (closer = "cells") ~> (closer = "done")
  /\ (warm = "running") ~> (warm = "done")
=============================================================================
