---------------------------- MODULE ContextPool ----------------------------
(***************************************************************************)
(* The pool of GPU route contexts: gpuRouteContextPool in                  *)
(* internal/detect/gpu_decode.go.                                          *)
(*                                                                         *)
(* Routes lease contexts, each able to hold a canvas up to its capacity.   *)
(* A request takes the smallest idle context that covers it, creates one   *)
(* when the device and host budgets allow, retires idle ones to make room, *)
(* waits on the condition variable, or is answered without a context (its  *)
(* route then runs on the CPU).  Creation drops the lock; the creating     *)
(* flag keeps it single-flight.  A closer drains the pool between decodes  *)
(* and closes it at the end.                                               *)
(*                                                                         *)
(* One action is one critical section of pool.mu.  A route that called     *)
(* cond.Wait is in "waiting" and stands still until a Broadcast.           *)
(***************************************************************************)
EXTENDS Integers, FiniteSets, FiniteSetsExt

CONSTANTS
  Routes,        \* the goroutines that lease contexts
  Capacities,    \* the padded canvas sizes requested, pairs <<width, height>>
  Ids,           \* context identities, reused once a context is closed
  Budget,        \* bytes of device memory for contexts
  BudgetKnown,   \* whether the adapter reports its memory
  HostBudget,    \* bytes of host scratch, 0 for no bound
  MaxGrowth,     \* bound: overflow bytes one context retains
  MaxRequests,   \* bound: requests of one route
  MaxDrains      \* bound: drain/reopen cycles of the closer

ASSUME CapacitiesAssumption == Capacities \subseteq (Nat \ {0}) \X (Nat \ {0})
ASSUME BudgetAssumption ==
  /\ Budget \in Nat /\ HostBudget \in Nat /\ BudgetKnown \in BOOLEAN
  /\ MaxGrowth \in Nat /\ MaxRequests \in Nat /\ MaxDrains \in Nat

CONSTANTS Closer,    \* the goroutine that drains and closes the pool
          Nobody     \* no capacity wanted

VARIABLES
  live,          \* identities of the contexts that exist
  free,          \* the idle ones
  capacity,      \* capacity[i] of context i
  grown,         \* bytes beyond its capacity folded into deviceBytes
  extra,         \* retainedExtraBytes, not folded yet
  held,          \* held[r]: the contexts route r leases
  planned,       \* device bytes of live contexts plus the creation in flight
  hostPlanned,
  outstanding,
  creating, exhausted, draining, closed,   \* the pool's flags
  pc,            \* "idle", "loop", "closing", "creating", "retrying", "discard"
  want, patient, \* the request: capacity, and whether it may park
  waiting,       \* goroutines parked on the condition variable
  made,          \* requests made so far
  closer, drains \* the closer's place, and the drains it has begun

counters == <<planned, hostPlanned, outstanding>>
flags    == <<creating, exhausted, draining, closed>>
contexts == <<live, free, capacity, grown, extra, held>>
request  == <<want, patient, made>>
vars == <<contexts, counters, flags, pc, request, waiting, closer, drains>>

Area(c) == c[1] * c[2]
Covers(i, c) == capacity[i][1] >= c[1] /\ capacity[i][2] >= c[2]

\* gpuRouteContextDeviceBytes and gpuRouteContextHostBytes, up to a factor.
DeviceBytes(c) == Area(c)
HostBytes(c)   == Area(c)

Need(r)     == DeviceBytes(want[r])
HostNeed(r) == HostBytes(want[r])
ContextBytes(i) == DeviceBytes(capacity[i]) + grown[i]

Broadcast == waiting' = {}
Goto(r, label) == pc' = [pc EXCEPT ![r] = label]

-----------------------------------------------------------------------------
Init ==
  /\ live = {} /\ free = {}
  /\ capacity = [i \in Ids |-> <<1, 1>>]
  /\ grown = [i \in Ids |-> 0] /\ extra = [i \in Ids |-> 0]
  /\ held = [r \in Routes |-> {}]
  /\ planned = 0 /\ hostPlanned = 0 /\ outstanding = 0
  /\ creating = FALSE /\ exhausted = FALSE /\ draining = FALSE /\ closed = FALSE
  /\ pc = [r \in Routes |-> "idle"]
  /\ want = [r \in Routes |-> Nobody]
  /\ patient = [r \in Routes |-> TRUE]
  /\ waiting = {}
  /\ made = [r \in Routes |-> 0]
  /\ closer = "open" /\ drains = 0

\* Mutant: a caller that holds leases parks like any other.
RequestPatient(r) ==
  /\ pc[r] = "idle" /\ made[r] < MaxRequests
  /\ \E c \in Capacities : want' = [want EXCEPT ![r] = c]
  /\ patient' = [patient EXCEPT ![r] = TRUE]
  /\ made' = [made EXCEPT ![r] = @ + 1]
  /\ Goto(r, "loop")
  /\ UNCHANGED <<contexts, counters, flags, waiting, closer, drains>>

\* acquireWaiting is entered.  A caller that means to hold several leases asks
\* with wait = FALSE (warmRouteContexts, PrepareCurrentPyramidBatch).
Request(r) ==
  /\ pc[r] = "idle" /\ made[r] < MaxRequests
  /\ \E c \in Capacities : want' = [want EXCEPT ![r] = c]
  /\ \E wait \in {held[r] = {}, FALSE} : patient' = [patient EXCEPT ![r] = wait]
  /\ made' = [made EXCEPT ![r] = @ + 1]
  /\ Goto(r, "loop")
  /\ UNCHANGED <<contexts, counters, flags, waiting, closer, drains>>

-----------------------------------------------------------------------------
(* One turn of the acquire loop, from Lock to Unlock or Wait.              *)

InLoop(r) == pc[r] = "loop" /\ r \notin waiting

Admissible(r) == ~closed /\ ~draining /\ (BudgetKnown => Need(r) <= Budget)
Fitting(r)    == {i \in free : Covers(i, want[r])}
HostFits(n)   == HostBudget = 0 \/ hostPlanned + n <= HostBudget
Creatable(r)  == HostFits(HostNeed(r)) /\ ~exhausted
OverBudget(r) == BudgetKnown /\ planned + Need(r) > Budget
FitsAnyLive(r) == \E i \in live : Covers(i, want[r])

\* takeSmallestFree: the idle contexts go smallest first.
SmallestFree(S) ==
  /\ S # {} /\ S \subseteq free
  /\ \A i \in S, j \in free \ S : Area(capacity[i]) <= Area(capacity[j])

\* The contexts of S that may have gone last.
LastOf(S) == {i \in S : \A j \in S : Area(capacity[j]) <= Area(capacity[i])}

DeviceSum(S) == MapThenSumSet(ContextBytes, S)
HostSum(S)   == MapThenSumSet(LAMBDA i : HostBytes(capacity[i]), S)

\* S goes until the device, or the host, has room for the request, or nothing idle
\* is left.
DeviceHasRoom(r, S) == planned - DeviceSum(S) + Need(r) <= Budget
HostHasRoom(r, S)   == hostPlanned - HostSum(S) + HostNeed(r) <= HostBudget

RetiredForBytes(r, S) ==
  /\ SmallestFree(S)
  /\ DeviceHasRoom(r, S) \/ S = free
  /\ \E last \in LastOf(S) : ~DeviceHasRoom(r, S \ {last})

RetiredForHost(r, S) ==
  /\ SmallestFree(S)
  /\ HostHasRoom(r, S) \/ S = free
  /\ \E last \in LastOf(S) : ~HostHasRoom(r, S \ {last})

\* dropLiveLocked: the contexts are gone, their bytes with them, and creation
\* may probe again.
DropLive(S) ==
  /\ live' = live \ S
  /\ planned' = planned - DeviceSum(S)
  /\ hostPlanned' = hostPlanned - HostSum(S)
  /\ exhausted' = FALSE

\* Every way to be answered without a context: the pool is closed or draining,
\* the route lost, its canvas never fits the device.
Refuse(r) ==
  /\ InLoop(r)
  /\ \/ ~Admissible(r)
     \/ patient[r]           \* quit() may be true; warming and batching pass nil
  /\ Goto(r, "idle")
  /\ UNCHANGED <<contexts, counters, flags, request, waiting, closer, drains>>

TakeFree(r) ==
  /\ InLoop(r) /\ Admissible(r)
  /\ \E i \in Fitting(r) :
       /\ \A j \in Fitting(r) : Area(capacity[i]) <= Area(capacity[j])
       /\ free' = free \ {i}
       /\ held' = [held EXCEPT ![r] = @ \cup {i}]
  /\ outstanding' = outstanding + 1
  /\ Goto(r, "idle")
  /\ UNCHANGED <<live, capacity, grown, extra, planned, hostPlanned, flags, request,
                 waiting, closer, drains>>

\* Admitted, but the pool is full: retire just enough idle contexts.
RetireForBytes(r) ==
  /\ InLoop(r) /\ Admissible(r) /\ Fitting(r) = {}
  /\ Creatable(r) /\ ~creating /\ OverBudget(r)
  /\ \E S \in SUBSET free :
       /\ RetiredForBytes(r, S)
       /\ free' = free \ S
       /\ DropLive(S)
  /\ Goto(r, "closing")
  /\ UNCHANGED <<capacity, grown, extra, held, outstanding, creating, draining, closed,
                 request, waiting, closer, drains>>

\* The host scratch of idle contexts too small for this canvas is recoverable.
RetireForHost(r) ==
  /\ InLoop(r) /\ Admissible(r) /\ Fitting(r) = {}
  /\ ~HostFits(HostNeed(r)) /\ ~exhausted /\ ~FitsAnyLive(r)
  /\ \E S \in SUBSET free :
       /\ RetiredForHost(r, S)
       /\ free' = free \ S
       /\ DropLive(S)
  /\ Goto(r, "closing")
  /\ UNCHANGED <<capacity, grown, extra, held, outstanding, creating, draining, closed,
                 request, waiting, closer, drains>>

\* The retired contexts are closed without the lock.
CloseRetired(r) ==
  /\ pc[r] = "closing"
  /\ Goto(r, "loop")
  /\ UNCHANGED <<contexts, counters, flags, request, waiting, closer, drains>>

\* Nothing live can cover the request and nothing may be created.
NoContext(r) ==
  /\ InLoop(r) /\ Admissible(r) /\ Fitting(r) = {}
  /\ ~Creatable(r) /\ ~FitsAnyLive(r)
  /\ exhausted \/ free = {}
  /\ Goto(r, "idle")
  /\ UNCHANGED <<contexts, counters, flags, request, waiting, closer, drains>>

\* The two places the loop parks: no idle context is left to retire, or another
\* creation or a leased context will serve the request.
MustWait(r) ==
  IF Creatable(r) /\ ~creating THEN OverBudget(r) /\ free = {}
                               ELSE Creatable(r) \/ FitsAnyLive(r)

Park(r) ==
  /\ InLoop(r) /\ Admissible(r) /\ Fitting(r) = {} /\ MustWait(r)
  /\ IF patient[r] THEN waiting' = waiting \cup {r} /\ UNCHANGED pc
                   ELSE Goto(r, "idle") /\ UNCHANGED waiting
  /\ UNCHANGED <<contexts, counters, flags, request, closer, drains>>

-----------------------------------------------------------------------------
(* createUnlocked: the reservation is taken before the lock is dropped.    *)

StartCreating(r) ==
  /\ creating' = TRUE
  /\ planned' = planned + Need(r)
  /\ hostPlanned' = hostPlanned + HostNeed(r)
  /\ Goto(r, "creating")
  /\ UNCHANGED <<contexts, outstanding, exhausted, draining, closed, request, waiting,
                 closer, drains>>

StartCreate(r) ==
  /\ InLoop(r) /\ Admissible(r) /\ Fitting(r) = {}
  /\ Creatable(r) /\ ~creating /\ ~OverBudget(r)
  /\ StartCreating(r)

\* The device built the context: it is leased, unless the pool was closed or
\* drained meanwhile.
Created(r) ==
  /\ pc[r] \in {"creating", "retrying"}
  /\ ~closed /\ ~draining
  /\ \E i \in Ids \ live :
       /\ live' = live \cup {i}
       /\ capacity' = [capacity EXCEPT ![i] = want[r]]
       /\ grown' = [grown EXCEPT ![i] = 0]
       /\ extra' = [extra EXCEPT ![i] = 0]
       /\ held' = [held EXCEPT ![r] = @ \cup {i}]
  /\ creating' = FALSE /\ exhausted' = FALSE
  /\ outstanding' = outstanding + 1
  /\ Broadcast
  /\ Goto(r, "idle")
  /\ UNCHANGED <<free, planned, hostPlanned, draining, closed, request, closer, drains>>

CreatedTooLate(r) ==
  /\ pc[r] \in {"creating", "retrying"}
  /\ closed \/ draining
  /\ Goto(r, "discard")
  /\ UNCHANGED <<contexts, counters, flags, request, waiting, closer, drains>>

\* What every failed creation does under the lock.
RollBack(r) ==
  /\ creating' = FALSE
  /\ planned' = planned - Need(r)
  /\ hostPlanned' = hostPlanned - HostNeed(r)
  /\ Broadcast

Discard(r) ==
  /\ pc[r] = "discard"
  /\ RollBack(r)
  /\ Goto(r, "idle")
  /\ UNCHANGED <<contexts, outstanding, exhausted, draining, closed, request, closer,
                 drains>>

\* Mutant: the retired contexts stay on the free list.
RetryKeepingFree(r) ==
  /\ pc[r] = "creating" /\ free # {}
  /\ DropLive(free)
  /\ Goto(r, "retrying")
  /\ UNCHANGED <<free, capacity, grown, extra, held, outstanding, creating, draining,
                 closed, request, waiting, closer, drains>>

\* Out of device memory: every idle context goes and the creation is retried
\* once; a second failure, or one with nothing idle, latches the pool.
OutOfMemoryRetry(r) ==
  /\ pc[r] = "creating" /\ free # {}
  /\ DropLive(free)
  /\ free' = {}
  /\ Goto(r, "retrying")
  /\ UNCHANGED <<capacity, grown, extra, held, outstanding, creating, draining, closed,
                 request, waiting, closer, drains>>

OutOfMemory(r) ==
  /\ \/ pc[r] = "creating" /\ free = {}
     \/ pc[r] = "retrying"
  /\ RollBack(r)
  /\ exhausted' = TRUE
  /\ Goto(r, "loop")
  /\ UNCHANGED <<contexts, outstanding, draining, closed, request, closer, drains>>

\* Any other device error fails the route and leaves the pool as it is.
CreateFails(r) ==
  /\ pc[r] = "creating"
  /\ RollBack(r)
  /\ Goto(r, "idle")
  /\ UNCHANGED <<contexts, outstanding, exhausted, draining, closed, request, closer,
                 drains>>

-----------------------------------------------------------------------------
\* A leased context may retain device memory beyond its capacity.
Grow(r) ==
  /\ \E i \in held[r] :
       /\ grown[i] + extra[i] < MaxGrowth
       /\ extra' = [extra EXCEPT ![i] = @ + 1]
  /\ UNCHANGED <<live, free, capacity, grown, held, counters, flags, pc, request,
                 waiting, closer, drains>>

\* Mutants: the growth is never budgeted; nobody is woken.
ReleaseUnfolded(r) ==
  /\ pc[r] = "idle" /\ ~closed
  /\ \E i \in held[r] :
       /\ held' = [held EXCEPT ![r] = @ \ {i}]
       /\ extra' = [extra EXCEPT ![i] = 0]
       /\ grown' = [grown EXCEPT ![i] = @ + extra[i]]
       /\ free' = free \cup {i}
  /\ outstanding' = outstanding - 1
  /\ Broadcast
  /\ UNCHANGED <<live, capacity, planned, hostPlanned, flags, pc, request, closer, drains>>

ReleaseSilent(r) ==
  /\ pc[r] = "idle" /\ ~closed
  /\ \E i \in held[r] :
       /\ held' = [held EXCEPT ![r] = @ \ {i}]
       /\ extra' = [extra EXCEPT ![i] = 0]
       /\ grown' = [grown EXCEPT ![i] = @ + extra[i]]
       /\ free' = free \cup {i}
       /\ planned' = planned + extra[i]
  /\ outstanding' = outstanding - 1
  /\ UNCHANGED <<live, capacity, hostPlanned, flags, pc, request, waiting, closer, drains>>

Release(r) ==
  /\ pc[r] = "idle"
  /\ \E i \in held[r] :
       /\ held' = [held EXCEPT ![r] = @ \ {i}]
       /\ extra' = [extra EXCEPT ![i] = 0]
       /\ grown' = [grown EXCEPT ![i] = @ + extra[i]]
       /\ IF closed
            THEN /\ live' = live \ {i}
                 /\ planned' = planned - ContextBytes(i)
                 /\ hostPlanned' = hostPlanned - HostBytes(capacity[i])
                 /\ exhausted' = FALSE
                 /\ UNCHANGED free
            ELSE /\ free' = free \cup {i}
                 /\ planned' = planned + extra[i]
                 /\ UNCHANGED <<live, hostPlanned, exhausted>>
  /\ outstanding' = outstanding - 1
  /\ Broadcast
  /\ UNCHANGED <<capacity, creating, draining, closed, pc, request, closer, drains>>

Route(r) ==
  \/ Request(r) \/ Refuse(r) \/ TakeFree(r) \/ RetireForBytes(r) \/ RetireForHost(r)
  \/ CloseRetired(r) \/ NoContext(r) \/ Park(r) \/ StartCreate(r) \/ Created(r)
  \/ CreatedTooLate(r) \/ Discard(r) \/ OutOfMemoryRetry(r) \/ OutOfMemory(r)
  \/ CreateFails(r) \/ Grow(r) \/ Release(r)

-----------------------------------------------------------------------------
(* The closer: beginDrain, drain, reopen, and at last Close.               *)

BeginDrain ==
  /\ closer = "open" /\ drains < MaxDrains
  /\ draining' = TRUE
  /\ drains' = drains + 1
  /\ closer' = "draining"
  /\ Broadcast
  /\ UNCHANGED <<contexts, counters, creating, exhausted, closed, pc, request>>

BeginClose ==
  /\ closer = "open"
  /\ closed' = TRUE
  /\ closer' = "closing"
  /\ Broadcast
  /\ UNCHANGED <<contexts, counters, creating, exhausted, draining, pc, request, drains>>

\* Mutant: a creation in flight is not waited for.
QuietLeases == outstanding = 0

Quiet == outstanding = 0 /\ ~creating

\* for pool.outstanding > 0 || pool.creating { pool.cond.Wait() }
AwaitQuiet ==
  /\ closer \in {"draining", "closing"} /\ Closer \notin waiting
  /\ ~Quiet
  /\ waiting' = waiting \cup {Closer}
  /\ UNCHANGED <<contexts, counters, flags, pc, request, closer, drains>>

Drained ==
  /\ closer = "draining" /\ Closer \notin waiting /\ Quiet
  /\ closer' = "drained"
  /\ UNCHANGED <<contexts, counters, flags, pc, request, waiting, drains>>

Reopen ==
  /\ closer = "drained"
  /\ draining' = FALSE /\ exhausted' = FALSE
  /\ closer' = "open"
  /\ UNCHANGED <<contexts, counters, creating, closed, pc, request, waiting, drains>>

CloseAll ==
  /\ closer = "closing" /\ Closer \notin waiting /\ Quiet
  /\ free' = {} /\ live' = {} /\ planned' = 0
  /\ closer' = "closed"
  /\ UNCHANGED <<capacity, grown, extra, held, hostPlanned, outstanding, flags, pc,
                 request, waiting, drains>>

CloserStep == BeginDrain \/ BeginClose \/ AwaitQuiet \/ Drained \/ Reopen \/ CloseAll

\* The last decode is over and the workspace is gone.
Terminated ==
  /\ closer = "closed"
  /\ \A r \in Routes : pc[r] = "idle" /\ made[r] = MaxRequests
  /\ UNCHANGED vars

Next == (\E r \in Routes : Route(r)) \/ CloserStep \/ Terminated

\* A route that asked goes on until it is answered, and releases what it leases;
\* a closer that began a drain goes on with it.
Answering(r) ==
  \/ Refuse(r) \/ TakeFree(r) \/ RetireForBytes(r) \/ RetireForHost(r)
  \/ CloseRetired(r) \/ NoContext(r) \/ Park(r) \/ StartCreate(r) \/ Created(r)
  \/ CreatedTooLate(r) \/ Discard(r) \/ OutOfMemoryRetry(r) \/ OutOfMemory(r)
  \/ CreateFails(r)

Fairness ==
  /\ \A r \in Routes : WF_vars(Answering(r)) /\ WF_vars(Release(r))
  /\ WF_vars(AwaitQuiet \/ Drained \/ Reopen \/ CloseAll)

Spec == Init /\ [][Next]_vars /\ Fairness

-----------------------------------------------------------------------------
Creators == {r \in Routes : pc[r] \in {"creating", "retrying", "discard"}}
Leased   == UNION {held[r] : r \in Routes}

(***************************************************************************)
(* Properties.                                                             *)
(***************************************************************************)

\* A context is idle or leased by exactly one route, never both, and the count
\* the closer waits for is the number of leases.
LeasesExclusive ==
  /\ \A r, q \in Routes : r # q => held[r] \cap held[q] = {}
  /\ Leased \cap free = {}
  /\ live = Leased \cup free
  /\ outstanding = Cardinality(Leased)

\* "folding it here keeps planned equal to the sum of the live contexts'
\* deviceBytes" (gpu_decode.go:1140-1146), plus the creation in flight, and what
\* the pool creates fits the budgets: only growth may exceed the device's.
BytesAccounted ==
  /\ planned = DeviceSum(live) + MapThenSumSet(Need, Creators)
  /\ closer # "closed" =>
       hostPlanned = HostSum(live) + MapThenSumSet(HostNeed, Creators)
  /\ BudgetKnown =>
       planned - MapThenSumSet(LAMBDA i : grown[i], live) <= Budget
  /\ HostBudget # 0 => hostPlanned <= HostBudget

\* After a drain nobody leases a context and none is being created, until the
\* pool is reopened: the ladder can be rebuilt under it.
DrainedMeansQuiet ==
  closer \in {"drained", "closed"} => Leased = {} /\ Creators = {}

\* Every request is answered: with a context, or by sending the route to the
\* CPU.
RequestsAnswered == \A r \in Routes : (pc[r] # "idle") ~> (pc[r] = "idle")

\* A drain ends, and so does Close.
ClosersReturn == (closer \in {"draining", "closing"}) ~> (closer \in {"drained", "closed"})
=============================================================================
