------------------------ MODULE ContextPoolProofs ------------------------
(***************************************************************************)
(* Proofs about the route-context pool, for every set of routes and of     *)
(* context identities, every budget and every bound.                       *)
(***************************************************************************)
EXTENDS ContextPool, FiniteSetsExt, FiniteSetTheorems, WellFoundedInduction, TLAPS

Labels == {"idle", "loop", "closing", "creating", "retrying", "discard"}

\* The types of what the proofs read.
LeaseTypes ==
  /\ held \in [Routes -> SUBSET Ids] /\ free \subseteq Ids
  /\ pc \in [Routes -> Labels]
  /\ IsFiniteSet(Leased)
  /\ creating \in BOOLEAN /\ draining \in BOOLEAN /\ closed \in BOOLEAN

\* Creation is single-flight although it drops the lock.
SingleFlight ==
  /\ creating = (Creators # {})
  /\ \A r, q \in Creators : r = q

\* A drain bars new leases until the pool is reopened, and Close for good.
Barred ==
  /\ closer \in {"draining", "drained"} => draining
  /\ closer \in {"closing", "closed"} => closed

PInv == LeaseTypes /\ LeasesExclusive /\ SingleFlight /\ Barred /\ DrainedMeansQuiet

leaseVars == <<live, free, held, outstanding>>

(***************************************************************************)
(* The bytes, as sums of functions over sets of contexts.                  *)
(***************************************************************************)
\* The sum of f over S, and the equation its partial sums satisfy.
Sum(f, S) == MapThenSumSet(LAMBDA x : f[x], S)

First(s) == CHOOSE x \in s : TRUE
PartialSums(f, S, F) ==
  F = [s \in SUBSET S |-> IF s = {} THEN 0 ELSE f[First(s)] + F[s \ {First(s)}]]

DeviceOf == [i \in Ids |-> ContextBytes(i)]
HostOf   == [i \in Ids |-> HostBytes(capacity[i])]

Sizes == (Nat \ {0}) \X (Nat \ {0})

\* Whoever is being answered has asked for a size; a context has one.
ByteTypes ==
  /\ IsFiniteSet(live)
  /\ capacity \in [Ids -> Sizes]
  /\ grown \in [Ids -> Nat] /\ extra \in [Ids -> Nat]
  /\ want \in [Routes -> Capacities \cup {Nobody}]
  /\ \A r \in Routes : pc[r] # "idle" => want[r] \in Capacities
  /\ planned \in Int /\ hostPlanned \in Int

\* What is planned is what the live contexts hold and what the one creation in
\* flight has reserved, to the byte.
PlannedExact ==
  /\ Creators = {} => planned = Sum(DeviceOf, live)
  /\ \A r \in Creators : planned = Sum(DeviceOf, live) + Need(r)

HostExact ==
  closer # "closed" =>
    /\ Creators = {} => hostPlanned = Sum(HostOf, live)
    /\ \A r \in Creators : hostPlanned = Sum(HostOf, live) + HostNeed(r)

WithinBudgets ==
  /\ BudgetKnown => planned - Sum(grown, live) <= Budget
  /\ HostBudget # 0 => hostPlanned <= HostBudget

BInv == ByteTypes /\ PlannedExact /\ HostExact /\ WithinBudgets

-----------------------------------------------------------------------------
\* A lease more, or one less, changes the set of leased contexts by just that.
LEMMA LeaseAdds ==
  ASSUME LeaseTypes, NEW r \in Routes, NEW i, i \notin Leased,
         held' = [held EXCEPT ![r] = @ \cup {i}]
  PROVE  /\ Leased' = Leased \cup {i}
         /\ IsFiniteSet(Leased')
         /\ Cardinality(Leased') = Cardinality(Leased) + 1
<1>1. Leased' = Leased \cup {i}
  BY DEF Leased, LeaseTypes
<1> QED
  BY <1>1, FS_AddElement DEF LeaseTypes

\* A released context was this route's alone, so the set loses it.
LEMMA LeaseRemoves ==
  ASSUME LeaseTypes, LeasesExclusive, NEW r \in Routes, NEW i \in held[r],
         held' = [held EXCEPT ![r] = @ \ {i}]
  PROVE  /\ Leased' = Leased \ {i}
         /\ i \in Leased
         /\ IsFiniteSet(Leased')
         /\ Cardinality(Leased') = Cardinality(Leased) - 1
<1>1. i \in Leased
  BY DEF Leased
<1>2. \A q \in Routes : i \in held[q] => q = r
  BY DEF LeasesExclusive
<1>3. Leased' = Leased \ {i}
  BY <1>2 DEF Leased, LeaseTypes
<1> QED
  BY <1>1, <1>3, FS_RemoveElement DEF LeaseTypes

-----------------------------------------------------------------------------
\* One step per action that touches a lease; the others leave all four alone.
LEMMA LeasesNext == PInv /\ [Next]_vars => LeasesExclusive' /\ IsFiniteSet(Leased)'
<1> SUFFICES ASSUME PInv, [Next]_vars
             PROVE  LeasesExclusive' /\ IsFiniteSet(Leased)'
  OBVIOUS
<1> USE DEF PInv
<1>1. ASSUME NEW r \in Routes, TakeFree(r)
      PROVE  LeasesExclusive' /\ IsFiniteSet(Leased)'
  <2>1. PICK i \in Fitting(r) : /\ free' = free \ {i}
                                /\ held' = [held EXCEPT ![r] = @ \cup {i}]
    BY <1>1 DEF TakeFree
  <2>2. i \in free /\ i \notin Leased
    BY <2>1 DEF Fitting, LeasesExclusive
  <2>3. /\ Leased' = Leased \cup {i} /\ IsFiniteSet(Leased')
        /\ Cardinality(Leased') = Cardinality(Leased) + 1
    BY <2>1, <2>2, LeaseAdds
  <2>4. \A q, p \in Routes : q # p => held'[q] \cap held'[p] = {}
    BY <2>1, <2>2 DEF LeasesExclusive, LeaseTypes, Leased
  <2> QED
    BY <1>1, <2>1, <2>2, <2>3, <2>4 DEF TakeFree, LeasesExclusive
<1>2. ASSUME NEW r \in Routes, Created(r)
      PROVE  LeasesExclusive' /\ IsFiniteSet(Leased)'
  <2>1. PICK i \in Ids \ live : /\ live' = live \cup {i}
                                /\ held' = [held EXCEPT ![r] = @ \cup {i}]
    BY <1>2 DEF Created
  <2>2. i \notin free /\ i \notin Leased
    BY <2>1 DEF LeasesExclusive
  <2>3. /\ Leased' = Leased \cup {i} /\ IsFiniteSet(Leased')
        /\ Cardinality(Leased') = Cardinality(Leased) + 1
    BY <2>1, <2>2, LeaseAdds
  <2>4. \A q, p \in Routes : q # p => held'[q] \cap held'[p] = {}
    BY <2>1, <2>2 DEF LeasesExclusive, LeaseTypes, Leased
  <2> QED
    BY <1>2, <2>1, <2>2, <2>3, <2>4 DEF Created, LeasesExclusive
<1>3. ASSUME NEW r \in Routes, Release(r)
      PROVE  LeasesExclusive' /\ IsFiniteSet(Leased)'
  <2>1. PICK i \in held[r] :
          /\ held' = [held EXCEPT ![r] = @ \ {i}]
          /\ \/ live' = live \ {i} /\ UNCHANGED free
             \/ free' = free \cup {i} /\ UNCHANGED live
    BY <1>3 DEF Release
  <2>2. /\ Leased' = Leased \ {i} /\ i \in Leased /\ IsFiniteSet(Leased')
        /\ Cardinality(Leased') = Cardinality(Leased) - 1
    BY <2>1, LeaseRemoves
  <2>3. \A q, p \in Routes : q # p => held'[q] \cap held'[p] = {}
    BY <2>1 DEF LeasesExclusive, LeaseTypes
  <2> QED
    BY <1>3, <2>1, <2>2, <2>3 DEF Release, LeasesExclusive
<1>4. ASSUME NEW r \in Routes,
             RetireForBytes(r) \/ RetireForHost(r) \/ OutOfMemoryRetry(r)
      PROVE  LeasesExclusive' /\ IsFiniteSet(Leased)'
  <2>1. PICK S \in SUBSET free :
          free' = free \ S /\ live' = live \ S /\ UNCHANGED <<held, outstanding>>
    <3>1. CASE RetireForBytes(r) \/ RetireForHost(r)
      BY <3>1 DEF RetireForBytes, RetireForHost, DropLive
    <3>2. CASE OutOfMemoryRetry(r)
      <4>1. free' = free \ free /\ live' = live \ free /\ UNCHANGED <<held, outstanding>>
        BY <3>2 DEF OutOfMemoryRetry, DropLive
      <4> QED
        BY <4>1
    <3> QED
      BY <1>4, <3>1, <3>2
  <2>2. Leased' = Leased
    BY <2>1 DEF Leased
  <2> QED
    BY <2>1, <2>2 DEF LeasesExclusive, LeaseTypes
<1>5. ASSUME CloseAll PROVE LeasesExclusive' /\ IsFiniteSet(Leased)'
  <2>1. Leased = {} /\ Leased' = Leased
    BY <1>5, FS_EmptySet DEF CloseAll, Quiet, LeasesExclusive, LeaseTypes, Leased
  <2> QED
    BY <1>5, <2>1 DEF CloseAll, LeasesExclusive, LeaseTypes
<1>6. ASSUME UNCHANGED leaseVars PROVE LeasesExclusive' /\ IsFiniteSet(Leased)'
  BY <1>6 DEF leaseVars, LeasesExclusive, LeaseTypes, Leased
<1>7. ASSUME NEW r \in Routes, Route(r),
             ~(TakeFree(r) \/ Created(r) \/ Release(r) \/ RetireForBytes(r)
                 \/ RetireForHost(r) \/ OutOfMemoryRetry(r))
      PROVE  UNCHANGED leaseVars
  BY <1>7 DEF Route, Request, Refuse, CloseRetired, NoContext, Park, StartCreate,
     StartCreating, CreatedTooLate, Discard, RollBack, OutOfMemory, CreateFails, Grow,
     leaseVars, contexts, counters
<1>8. ASSUME CloserStep \/ UNCHANGED vars, ~CloseAll PROVE UNCHANGED leaseVars
  BY <1>8 DEF CloserStep, BeginDrain, BeginClose, AwaitQuiet, Drained, Reopen, vars,
     leaseVars, contexts, counters
<1> QED
  BY <1>1, <1>2, <1>3, <1>4, <1>5, <1>6, <1>7, <1>8 DEF Next, Terminated

-----------------------------------------------------------------------------
\* The labels and the flags keep their types.
LEMMA FlagsNext ==
  PInv /\ [Next]_vars => /\ pc' \in [Routes -> Labels]
                         /\ creating' \in BOOLEAN
                         /\ draining' \in BOOLEAN /\ closed' \in BOOLEAN
<1> SUFFICES ASSUME PInv, [Next]_vars
             PROVE  /\ pc' \in [Routes -> Labels]
                    /\ creating' \in BOOLEAN
                    /\ draining' \in BOOLEAN /\ closed' \in BOOLEAN
  OBVIOUS
<1> USE DEF PInv, LeaseTypes
<1>1. ASSUME NEW r \in Routes, Route(r)
      PROVE  /\ pc' = pc \/ \E l \in Labels : pc' = [pc EXCEPT ![r] = l]
             /\ creating' \in BOOLEAN /\ UNCHANGED <<draining, closed>>
  <2>1. CASE Request(r) \/ Refuse(r) \/ TakeFree(r) \/ CloseRetired(r) \/ NoContext(r)
    BY <2>1 DEF Request, Refuse, TakeFree, CloseRetired, NoContext, Goto, Labels, flags
  <2>2. CASE RetireForBytes(r) \/ RetireForHost(r) \/ OutOfMemoryRetry(r)
    BY <2>2 DEF RetireForBytes, RetireForHost, OutOfMemoryRetry, Goto, Labels
  <2>3. CASE Park(r) \/ Grow(r) \/ Release(r)
    BY <2>3 DEF Park, Grow, Release, Goto, Labels, flags
  <2>4. CASE StartCreate(r) \/ Created(r) \/ CreatedTooLate(r)
    BY <2>4 DEF StartCreate, StartCreating, Created, CreatedTooLate, Goto, Labels, flags
  <2>5. CASE Discard(r) \/ OutOfMemory(r) \/ CreateFails(r)
    BY <2>5 DEF Discard, OutOfMemory, CreateFails, RollBack, Goto, Labels
  <2> QED
    BY <1>1, <2>1, <2>2, <2>3, <2>4, <2>5 DEF Route
<1>2. CASE \E r \in Routes : Route(r)
  BY <1>1, <1>2
<1>3. CASE CloserStep
  BY <1>3 DEF CloserStep, BeginDrain, BeginClose, AwaitQuiet, Drained, Reopen, CloseAll,
     flags
<1>4. CASE UNCHANGED vars
  BY <1>4 DEF vars, flags
<1> QED
  BY <1>2, <1>3, <1>4 DEF Next, Terminated

\* What is leased and what is idle stay context identities.
LEMMA LeaseTypesNext == PInv /\ [Next]_vars => LeaseTypes'
<1> SUFFICES ASSUME PInv, [Next]_vars
             PROVE  held' \in [Routes -> SUBSET Ids] /\ free' \subseteq Ids
  BY FlagsNext, LeasesNext DEF LeaseTypes
<1> USE DEF PInv, LeaseTypes
<1>1. ASSUME NEW r \in Routes, Route(r)
      PROVE  /\ held' = held \/ \E S \in SUBSET Ids : held' = [held EXCEPT ![r] = S]
             /\ free' \subseteq Ids
  <2>1. CASE TakeFree(r)
    <3>1. PICK i \in Fitting(r) : /\ held' = [held EXCEPT ![r] = @ \cup {i}]
                                  /\ free' = free \ {i}
      BY <2>1 DEF TakeFree
    <3> QED
      BY <3>1, <2>1 DEF Fitting
  <2>2. CASE Created(r)
    <3>1. PICK i \in Ids \ live : held' = [held EXCEPT ![r] = @ \cup {i}]
      BY <2>2 DEF Created
    <3>2. UNCHANGED free
      BY <2>2 DEF Created
    <3> QED
      BY <3>1, <3>2
  <2>3. CASE Release(r)
    <3>1. PICK i \in held[r] : /\ held' = [held EXCEPT ![r] = @ \ {i}]
                               /\ free' = free \cup {i} \/ UNCHANGED free
      BY <2>3 DEF Release
    <3> QED
      BY <3>1
  <2>4. CASE RetireForBytes(r) \/ RetireForHost(r) \/ OutOfMemoryRetry(r)
    BY <2>4 DEF RetireForBytes, RetireForHost, OutOfMemoryRetry
  <2>5. CASE ~(TakeFree(r) \/ Created(r) \/ Release(r)
               \/ RetireForBytes(r) \/ RetireForHost(r) \/ OutOfMemoryRetry(r))
    BY <1>1, <2>5 DEF Route, Request, Refuse, CloseRetired, NoContext, Park, StartCreate,
       StartCreating, CreatedTooLate, Discard, OutOfMemory, CreateFails, Grow, contexts
  <2> QED
    BY <2>1, <2>2, <2>3, <2>4, <2>5
<1>2. CASE \E r \in Routes : Route(r)
  BY <1>1, <1>2
<1>3. CASE CloserStep \/ UNCHANGED vars
  BY <1>3 DEF CloserStep, BeginDrain, BeginClose, AwaitQuiet, Drained, Reopen, CloseAll,
     vars, contexts
<1> QED
  BY <1>2, <1>3 DEF Next, Terminated

-----------------------------------------------------------------------------
\* Who creates.  Starting needs the flag down; every way out of a creation that
\* lowers it is the one creator's; nothing else changes who creates.
LEMMA CreatorsNext ==
  ASSUME PInv, NEW r \in Routes, Route(r)
  PROVE  \/ /\ StartCreate(r)
            /\ Creators = {} /\ Creators' = {r} /\ creating' = TRUE
         \/ /\ Created(r) \/ Discard(r) \/ OutOfMemory(r) \/ CreateFails(r)
            /\ Creators = {r} /\ Creators' = {} /\ creating' = FALSE
         \/ /\ ~(StartCreate(r) \/ Created(r) \/ Discard(r) \/ OutOfMemory(r)
                   \/ CreateFails(r))
            /\ Creators' = Creators /\ creating' = creating
<1> USE DEF PInv
<1>1. CASE StartCreate(r)
  <2>1. Creators = {}
    BY <1>1 DEF StartCreate, SingleFlight
  <2>2. Creators' = {r}
    BY <1>1, <2>1 DEF StartCreate, StartCreating, Goto, Creators, LeaseTypes, Labels
  <2> QED
    BY <1>1, <2>1, <2>2 DEF StartCreate, StartCreating
<1>2. CASE Created(r) \/ Discard(r) \/ OutOfMemory(r) \/ CreateFails(r)
  <2>1. /\ r \in Creators /\ creating' = FALSE
        /\ \E l \in {"idle", "loop"} : pc' = [pc EXCEPT ![r] = l]
    BY <1>2 DEF Created, Discard, OutOfMemory, CreateFails, RollBack, Goto, Creators
  <2>2. Creators = {r}
    BY <2>1 DEF SingleFlight
  <2>3. Creators' = {}
    BY <2>1, <2>2 DEF Creators, LeaseTypes
  <2> QED
    BY <1>2, <2>1, <2>2, <2>3
<1>3. ASSUME ~(StartCreate(r) \/ Created(r) \/ Discard(r) \/ OutOfMemory(r)
                 \/ CreateFails(r))
      PROVE  Creators' = Creators /\ creating' = creating
  <2>1. CASE CreatedTooLate(r) \/ OutOfMemoryRetry(r)
    <3>1. /\ r \in Creators /\ creating' = creating
          /\ \E l \in {"discard", "retrying"} : pc' = [pc EXCEPT ![r] = l]
      BY <2>1 DEF CreatedTooLate, OutOfMemoryRetry, Goto, Creators, flags
    <3> QED
      BY <3>1 DEF Creators, LeaseTypes
  <2>2. CASE ~(CreatedTooLate(r) \/ OutOfMemoryRetry(r))
    <3>1. /\ creating' = creating
          /\ \/ pc' = pc
             \/ /\ r \notin Creators
                /\ \E l \in {"idle", "loop", "closing"} : pc' = [pc EXCEPT ![r] = l]
      <4>1. CASE Request(r) \/ Refuse(r) \/ TakeFree(r) \/ CloseRetired(r) \/ NoContext(r)
        BY <4>1 DEF Request, Refuse, TakeFree, CloseRetired, NoContext, Goto, InLoop,
           Creators, flags
      <4>2. CASE RetireForBytes(r) \/ RetireForHost(r) \/ Park(r) \/ Release(r)
        BY <4>2 DEF RetireForBytes, RetireForHost, Park, Release, Goto, InLoop, Creators,
           flags
      <4>3. CASE Grow(r)
        BY <4>3 DEF Grow, flags
      <4> QED
        BY <1>3, <2>2, <4>1, <4>2, <4>3 DEF Route
    <3> QED
      BY <3>1 DEF Creators, LeaseTypes
  <2> QED
    BY <2>1, <2>2
<1> QED
  BY <1>1, <1>2, <1>3

\* So creation stays single-flight.
LEMMA SingleFlightNext == PInv /\ [Next]_vars => SingleFlight'
<1> SUFFICES ASSUME PInv, [Next]_vars PROVE SingleFlight'
  OBVIOUS
<1>1. ASSUME NEW r \in Routes, Route(r) PROVE SingleFlight'
  <2>1. CASE Creators' = {r} /\ creating' = TRUE
    BY <2>1 DEF SingleFlight
  <2>2. CASE Creators' = {} /\ creating' = FALSE
    BY <2>2 DEF SingleFlight
  <2>3. CASE Creators' = Creators /\ creating' = creating
    BY <2>3 DEF PInv, SingleFlight
  <2> QED
    BY <1>1, <2>1, <2>2, <2>3, CreatorsNext
<1>2. ASSUME CloserStep \/ UNCHANGED vars PROVE SingleFlight'
  BY <1>2 DEF CloserStep, BeginDrain, BeginClose, AwaitQuiet, Drained, Reopen, CloseAll,
     vars, flags, PInv, SingleFlight, Creators
<1> QED
  BY <1>1, <1>2 DEF Next, Terminated

-----------------------------------------------------------------------------
\* Only the closer moves the flags that bar new leases.
LEMMA RoutesLeaveFlags ==
  ASSUME NEW r \in Routes, Route(r)
  PROVE  UNCHANGED <<closer, draining, closed>>
<1>1. CASE Request(r) \/ Refuse(r) \/ TakeFree(r) \/ CloseRetired(r) \/ NoContext(r)
  BY <1>1 DEF Request, Refuse, TakeFree, CloseRetired, NoContext, flags
<1>2. CASE RetireForBytes(r) \/ RetireForHost(r) \/ OutOfMemoryRetry(r)
  BY <1>2 DEF RetireForBytes, RetireForHost, OutOfMemoryRetry
<1>3. CASE Park(r) \/ Grow(r) \/ Release(r)
  BY <1>3 DEF Park, Grow, Release, flags
<1>4. CASE StartCreate(r) \/ Created(r) \/ CreatedTooLate(r)
  BY <1>4 DEF StartCreate, StartCreating, Created, CreatedTooLate, flags
<1>5. CASE Discard(r) \/ OutOfMemory(r) \/ CreateFails(r)
  BY <1>5 DEF Discard, OutOfMemory, CreateFails
<1> QED
  BY <1>1, <1>2, <1>3, <1>4, <1>5 DEF Route

\* So they bar whatever the closer's place says they bar.
LEMMA BarredNext == PInv /\ [Next]_vars => Barred'
<1> SUFFICES ASSUME PInv, [Next]_vars PROVE Barred'
  OBVIOUS
<1> USE DEF PInv, Barred
<1>1. CASE \E r \in Routes : Route(r)
  BY <1>1, RoutesLeaveFlags
<1>2. CASE CloserStep \/ UNCHANGED vars
  BY <1>2 DEF CloserStep, BeginDrain, BeginClose, AwaitQuiet, Drained, Reopen, CloseAll,
     vars, flags
<1> QED
  BY <1>1, <1>2 DEF Next, Terminated

\* The closer finds the pool quiet when it says so, and from then on no route can
\* take, create or publish a context.
LEMMA DrainedNext == PInv /\ [Next]_vars => DrainedMeansQuiet'
<1> SUFFICES ASSUME PInv, [Next]_vars PROVE DrainedMeansQuiet'
  OBVIOUS
<1> USE DEF PInv
<1>1. CASE Drained \/ CloseAll
  <2>1. Quiet /\ UNCHANGED <<held, pc>>
    BY <1>1 DEF Drained, CloseAll, contexts
  <2>2. Leased = {}
    BY <2>1, FS_EmptySet DEF Quiet, LeasesExclusive, LeaseTypes
  <2>3. Creators = {}
    BY <2>1 DEF Quiet, SingleFlight
  <2> QED
    BY <2>1, <2>2, <2>3 DEF DrainedMeansQuiet, Leased, Creators
<1>2. CASE BeginDrain \/ BeginClose \/ AwaitQuiet \/ Reopen
  BY <1>2 DEF BeginDrain, BeginClose, AwaitQuiet, Reopen, DrainedMeansQuiet
<1>3. ASSUME NEW r \in Routes, Route(r), closer' \in {"drained", "closed"}
      PROVE  Leased' = {} /\ Creators' = {}
  <2>1. closer' = closer
    BY <1>3, RoutesLeaveFlags
  <2>2. Leased = {} /\ Creators = {} /\ (closed \/ draining)
    BY <1>3, <2>1 DEF DrainedMeansQuiet, Barred
  <2>3. held[r] = {} /\ r \notin Creators /\ ~Admissible(r)
    BY <2>2 DEF Leased, Admissible
  <2>4. ~(TakeFree(r) \/ StartCreate(r) \/ Created(r) \/ CreatedTooLate(r) \/ Discard(r)
          \/ OutOfMemoryRetry(r) \/ OutOfMemory(r) \/ CreateFails(r) \/ Release(r)
          \/ RetireForBytes(r) \/ RetireForHost(r))
    BY <2>3 DEF TakeFree, StartCreate, Created, CreatedTooLate, Discard, OutOfMemoryRetry,
       OutOfMemory, CreateFails, Release, RetireForBytes, RetireForHost, Creators
  <2>5. /\ UNCHANGED held
        /\ pc' = pc \/ \E l \in {"idle", "loop"} : pc' = [pc EXCEPT ![r] = l]
    BY <1>3, <2>4 DEF Route, Request, Refuse, CloseRetired, NoContext, Park, Grow, Goto,
       contexts
  <2>6. Creators' = {}
    BY <2>2, <2>5 DEF Creators, LeaseTypes
  <2> QED
    BY <2>2, <2>5, <2>6 DEF Leased
<1>4. CASE UNCHANGED vars
  BY <1>4 DEF vars, contexts, DrainedMeansQuiet, Leased, Creators
<1> QED
  BY <1>1, <1>2, <1>3, <1>4 DEF Next, CloserStep, Terminated, DrainedMeansQuiet

-----------------------------------------------------------------------------
(* Sums over finite sets: MapThenSumSet is a recursive function over the    *)
(* subsets of its set, which takes the elements one by one in an order of   *)
(* its own.  Induction over the subsets of a finite set is stated for a set *)
(* of subsets, so that first-order provers can use it.                      *)

\* A set of natural numbers has a least one.
LEMMA NatMinimum ==
  ASSUME NEW T \in SUBSET Nat, T # {}
  PROVE  \E m \in T : \A n \in T : m <= n
<1> DEFINE R == {p \in Nat \X Nat : p[1] < p[2]}
<1>1. IsWellFoundedOn(R, Nat)
  BY NatLessThanWellFounded DEF OpToRel
<1> HIDE DEF R
<1>2. PICK m \in T : \A n \in T : ~ (<<n, m>> \in R)
  BY <1>1, WFMin
<1>3. \A n \in T : ~ (n < m)
  BY <1>2 DEF R
<1> QED
  BY <1>3

\* What holds of a set as soon as it holds of the set without any one of its
\* elements holds of every finite set.
LEMMA SubsetInduction ==
  ASSUME NEW S, IsFiniteSet(S), NEW P,
         \A s \in SUBSET S : (\A x \in s : s \ {x} \in P) => s \in P
  PROVE  \A s \in SUBSET S : s \in P
<1> SUFFICES ASSUME NEW t \in SUBSET S, t \notin P PROVE FALSE
  OBVIOUS
<1>1. \A s \in SUBSET S : IsFiniteSet(s) /\ Cardinality(s) \in Nat
  BY FS_Subset, FS_CardinalityType
<1> DEFINE sizes == {Cardinality(s) : s \in (SUBSET S) \ P}
<1>2. sizes \in SUBSET Nat /\ sizes # {}
  BY <1>1
<1>3. PICK n \in sizes : \A m \in sizes : n <= m
  BY <1>2, NatMinimum
<1>4. PICK s \in (SUBSET S) \ P : Cardinality(s) = n
  BY <1>3
<1>5. ASSUME NEW x \in s PROVE s \ {x} \in P
  <2>1. Cardinality(s \ {x}) = Cardinality(s) - 1
    BY <1>1, FS_RemoveElement
  <2>2. ~ (n <= Cardinality(s \ {x}))
    BY <1>1, <1>4, <2>1
  <2> QED
    BY <1>3, <2>2
<1> QED
  BY <1>4, <1>5

\* Partial sums are the same whatever set they are taken from.
LEMMA PartialSumsAgree ==
  ASSUME NEW f, NEW S, NEW T, IsFiniteSet(S), NEW F, NEW G,
         PartialSums(f, S, F), PartialSums(f, T, G)
  PROVE  \A s \in SUBSET (S \cap T) : F[s] = G[s]
<1> DEFINE P == {s \in SUBSET (S \cap T) : F[s] = G[s]}
<1>1. IsFiniteSet(S \cap T)
  BY FS_Subset
<1>2. ASSUME NEW s \in SUBSET (S \cap T), \A x \in s : s \ {x} \in P PROVE s \in P
  <2>1. /\ F[s] = IF s = {} THEN 0 ELSE f[First(s)] + F[s \ {First(s)}]
        /\ G[s] = IF s = {} THEN 0 ELSE f[First(s)] + G[s \ {First(s)}]
    BY DEF PartialSums
  <2>2. s # {} => First(s) \in s
    BY DEF First
  <2> QED
    BY <1>2, <2>1, <2>2
<1> HIDE DEF P
<1>3. \A s \in SUBSET (S \cap T) : s \in P
  BY <1>1, <1>2, SubsetInduction
<1> QED
  BY <1>3 DEF P

\* Every finite set has its partial sums.
LEMMA PartialSumsExist ==
  ASSUME NEW f, NEW S, IsFiniteSet(S)
  PROVE  \E F : PartialSums(f, S, F)
<1> DEFINE P == {s \in SUBSET S : \E F : PartialSums(f, s, F)}
           Of(s) == CHOOSE F : PartialSums(f, s, F)
<1>1. ASSUME NEW s \in SUBSET S, \A x \in s : s \ {x} \in P PROVE s \in P
  <2> DEFINE rest(u) == u \ {First(u)}
             F == [u \in SUBSET s |-> IF u = {} THEN 0
                                      ELSE f[First(u)] + Of(rest(u))[rest(u)]]
  <2>1. ASSUME NEW u \in SUBSET s, u # s PROVE PartialSums(f, u, Of(u))
    <3>1. PICK x \in s : x \notin u
      BY <2>1
    <3>2. PICK G : PartialSums(f, s \ {x}, G)
      BY <1>1
    <3> DEFINE H == [v \in SUBSET u |-> G[v]]
    <3>3. PartialSums(f, u, H)
      <4>1. ASSUME NEW v \in SUBSET u
            PROVE  H[v] = IF v = {} THEN 0 ELSE f[First(v)] + H[v \ {First(v)}]
        BY <3>1, <3>2 DEF PartialSums
      <4> QED
        BY <4>1 DEF PartialSums
    <3> QED
      BY <3>3
  <2>2. ASSUME NEW u \in SUBSET s, u # {} PROVE F[rest(u)] = Of(rest(u))[rest(u)]
    <3>1. First(u) \in u
      BY <2>2 DEF First
    <3>2. rest(u) \in SUBSET s /\ rest(u) # s /\ IsFiniteSet(rest(u))
      BY <3>1, FS_Subset
    <3> DEFINE w == rest(u)
    <3>3. PartialSums(f, w, Of(w))
      BY <2>1, <3>2
    <3> HIDE DEF Of
    <3>4. CASE w = {}
      BY <3>2, <3>3, <3>4 DEF PartialSums
    <3>5. CASE w # {}
      <4>1. First(w) \in w
        BY <3>5 DEF First
      <4>2. rest(w) \in SUBSET w /\ rest(w) # s /\ IsFiniteSet(rest(w))
        BY <3>2, <4>1, FS_Subset
      <4>3. PartialSums(f, rest(w), Of(rest(w)))
        BY <2>1, <3>2, <4>2
      <4>4. Of(w)[rest(w)] = Of(rest(w))[rest(w)]
        <5> DEFINE T == rest(w)
        <5> HIDE DEF w, T
        <5>1. IsFiniteSet(w) /\ T \subseteq w
          BY <3>2, <4>2 DEF w, T
        <5>2. PartialSums(f, w, Of(w)) /\ PartialSums(f, T, Of(T))
          BY <3>3, <4>3 DEF w, T
        <5>3. \A v \in SUBSET (w \cap T) : Of(w)[v] = Of(T)[v]
          BY <5>1, <5>2, PartialSumsAgree
        <5>4. Of(w)[T] = Of(T)[T]
          BY <5>1, <5>3
        <5> QED
          BY <5>4 DEF w, T
      <4>5. Of(w)[w] = f[First(w)] + Of(w)[rest(w)]
        BY <3>3, <3>5 DEF PartialSums
      <4> QED
        BY <3>2, <3>5, <4>4, <4>5
    <3> QED
      BY <3>4, <3>5
  <2>3. PartialSums(f, s, F)
    <3> HIDE DEF Of
    <3>1. \A u \in SUBSET s :
            F[u] = IF u = {} THEN 0 ELSE f[First(u)] + F[u \ {First(u)}]
      BY <2>2
    <3> QED
      BY <3>1 DEF PartialSums
  <2> QED
    BY <2>3
<1> HIDE DEF P
<1>2. \A s \in SUBSET S : s \in P
  BY <1>1, SubsetInduction
<1> QED
  BY <1>2 DEF P

-----------------------------------------------------------------------------
\* The community module's sum is the last of the partial sums.
LEMMA SumIsPartial ==
  ASSUME NEW f, NEW S, IsFiniteSet(S)
  PROVE  \E F : PartialSums(f, S, F) /\ Sum(f, S) = F[S]
<1> DEFINE F == CHOOSE G : PartialSums(f, S, G)
<1>1. Sum(f, S) = F[S]
  BY DEF Sum, MapThenSumSet, MapThenFoldSet, PartialSums, First
<1>2. PartialSums(f, S, F)
  BY PartialSumsExist
<1> QED
  BY <1>1, <1>2

\* The first element and the rest of them.
LEMMA SumFirst ==
  ASSUME NEW f, NEW S, IsFiniteSet(S)
  PROVE  /\ S = {} => Sum(f, S) = 0
         /\ S # {} => /\ First(S) \in S
                      /\ Sum(f, S) = f[First(S)] + Sum(f, S \ {First(S)})
<1>1. PICK F : PartialSums(f, S, F) /\ Sum(f, S) = F[S]
  BY SumIsPartial
<1>2. CASE S = {}
  BY <1>1, <1>2 DEF PartialSums
<1>3. CASE S # {}
  <2> DEFINE T == S \ {First(S)}
  <2>1. First(S) \in S
    BY <1>3 DEF First
  <2>2. IsFiniteSet(T) /\ T \subseteq S
    BY FS_Subset
  <2>3. F[S] = f[First(S)] + F[T]
    BY <1>1, <1>3 DEF PartialSums
  <2> HIDE DEF T
  <2>4. PICK G : PartialSums(f, T, G) /\ Sum(f, T) = G[T]
    BY <2>2, SumIsPartial
  <2>5. \A s \in SUBSET (S \cap T) : F[s] = G[s]
    BY <1>1, <2>4, PartialSumsAgree
  <2>6. F[T] = G[T]
    BY <2>2, <2>5
  <2> QED
    BY <1>1, <1>3, <2>1, <2>3, <2>4, <2>6 DEF T
<1> QED
  BY <1>2, <1>3

\* A sum of integers is one, and a sum of natural numbers is one.
LEMMA SumType ==
  ASSUME NEW f, NEW S, IsFiniteSet(S), \A x \in S : f[x] \in Int
  PROVE  /\ Sum(f, S) \in Int
         /\ (\A x \in S : f[x] >= 0) => Sum(f, S) >= 0
<1> DEFINE P == {s \in SUBSET S : /\ Sum(f, s) \in Int
                                  /\ (\A x \in S : f[x] >= 0) => Sum(f, s) >= 0}
<1>1. ASSUME NEW s \in SUBSET S, \A x \in s : s \ {x} \in P PROVE s \in P
  <2>1. IsFiniteSet(s)
    BY FS_Subset
  <2>2. CASE s = {}
    <3>1. Sum(f, s) = 0
      BY <2>1, <2>2, SumFirst
    <3> QED
      BY <3>1
  <2>3. CASE s # {}
    <3>1. First(s) \in s /\ Sum(f, s) = f[First(s)] + Sum(f, s \ {First(s)})
      BY <2>1, <2>3, SumFirst
    <3>2. s \ {First(s)} \in P /\ f[First(s)] \in Int
      BY <1>1, <3>1
    <3> QED
      BY <3>1, <3>2
  <2> QED
    BY <2>2, <2>3
<1> HIDE DEF P
<1>2. \A s \in SUBSET S : s \in P
  BY <1>1, SubsetInduction
<1> QED
  BY <1>2 DEF P

\* The order does not matter: any element may be taken first.
LEMMA SumRemove ==
  ASSUME NEW f, NEW S, IsFiniteSet(S), \A x \in S : f[x] \in Int, NEW e \in S
  PROVE  Sum(f, S) = f[e] + Sum(f, S \ {e})
<1> DEFINE P == {s \in SUBSET S : \A x \in s : Sum(f, s) = f[x] + Sum(f, s \ {x})}
<1>1. \A s \in SUBSET S : IsFiniteSet(s) /\ Sum(f, s) \in Int
  <2> SUFFICES ASSUME NEW s \in SUBSET S PROVE IsFiniteSet(s) /\ Sum(f, s) \in Int
    OBVIOUS
  <2>1. IsFiniteSet(s) /\ \A x \in s : f[x] \in Int
    BY FS_Subset
  <2> QED
    BY <2>1, SumType
<1>2. ASSUME NEW s \in SUBSET S, \A x \in s : s \ {x} \in P, NEW x \in s
      PROVE  Sum(f, s) = f[x] + Sum(f, s \ {x})
  <2> DEFINE y == First(s)
  <2>1. y \in s /\ Sum(f, s) = f[y] + Sum(f, s \ {y})
    BY <1>1, SumFirst
  <2> HIDE DEF y
  <2>2. CASE x = y
    BY <2>1, <2>2
  <2>3. CASE x # y
    <3>1. Sum(f, s \ {y}) = f[x] + Sum(f, (s \ {y}) \ {x})
      BY <1>2, <2>1, <2>3
    <3>2. Sum(f, s \ {x}) = f[y] + Sum(f, (s \ {x}) \ {y})
      BY <1>2, <2>1, <2>3
    <3>3. (s \ {x}) \ {y} = (s \ {y}) \ {x}
      OBVIOUS
    <3>4. /\ f[x] \in Int /\ f[y] \in Int
          /\ Sum(f, (s \ {x}) \ {y}) \in Int
      BY <1>1, <2>1
    <3> DEFINE r == Sum(f, (s \ {x}) \ {y})
    <3>5. Sum(f, s) = f[y] + (f[x] + r)
      BY <2>1, <3>1, <3>3
    <3>6. Sum(f, s \ {x}) = f[y] + r /\ r \in Int
      BY <3>2, <3>4
    <3> HIDE DEF r
    <3> QED
      BY <3>4, <3>5, <3>6
  <2> QED
    BY <2>2, <2>3
<1>3. \A s \in SUBSET S : (\A x \in s : s \ {x} \in P) => s \in P
  BY <1>2
<1> HIDE DEF P
<1>4. \A s \in SUBSET S : s \in P
  BY <1>3, SubsetInduction
<1> QED
  BY <1>4 DEF P

\* An element more.
LEMMA SumAdd ==
  ASSUME NEW f, NEW S, IsFiniteSet(S), \A x \in S : f[x] \in Int,
         NEW e, e \notin S, f[e] \in Int
  PROVE  Sum(f, S \cup {e}) = Sum(f, S) + f[e]
<1> DEFINE T == S \cup {e}
<1>1. IsFiniteSet(T) /\ e \in T /\ T \ {e} = S /\ \A x \in T : f[x] \in Int
  BY FS_AddElement
<1> HIDE DEF T
<1>2. Sum(f, T) = f[e] + Sum(f, S)
  BY <1>1, SumRemove
<1>3. Sum(f, S) \in Int
  BY SumType
<1> QED
  BY <1>2, <1>3 DEF T

\* Terms that are pointwise no larger have a sum no larger.
LEMMA SumMonotone ==
  ASSUME NEW f, NEW g, NEW S, IsFiniteSet(S),
         \A x \in S : f[x] \in Int /\ g[x] \in Int /\ f[x] <= g[x]
  PROVE  Sum(f, S) <= Sum(g, S)
<1> DEFINE P == {s \in SUBSET S : Sum(f, s) <= Sum(g, s)}
<1>1. ASSUME NEW s \in SUBSET S, \A x \in s : s \ {x} \in P PROVE s \in P
  <2>1. IsFiniteSet(s)
    BY FS_Subset
  <2>2. CASE s = {}
    <3>1. Sum(f, s) = 0 /\ Sum(g, s) = 0
      BY <2>1, <2>2, SumFirst
    <3> QED
      BY <3>1
  <2>3. CASE s # {}
    <3> DEFINE x == First(s)
               t == s \ {First(s)}
    <3>1. /\ x \in s /\ Sum(f, s) = f[x] + Sum(f, t)
          /\ Sum(g, s) = g[x] + Sum(g, t)
      BY <2>1, <2>3, SumFirst
    <3>2. t \in P /\ f[x] \in Int /\ g[x] \in Int /\ f[x] <= g[x]
      BY <1>1, <3>1
    <3>3. IsFiniteSet(t) /\ \A z \in t : f[z] \in Int /\ g[z] \in Int
      BY <2>1, FS_Subset
    <3>4. Sum(f, t) \in Int /\ Sum(g, t) \in Int
      BY <3>3, SumType
    <3> QED
      BY <3>1, <3>2, <3>4
  <2> QED
    BY <2>2, <2>3
<1> HIDE DEF P
<1>2. \A s \in SUBSET S : s \in P
  BY <1>1, SubsetInduction
<1> QED
  BY <1>2 DEF P

\* Equal terms have equal sums.
LEMMA SumSame ==
  ASSUME NEW f, NEW g, NEW S, IsFiniteSet(S), \A x \in S : f[x] \in Int /\ f[x] = g[x]
  PROVE  Sum(f, S) = Sum(g, S)
<1>1. Sum(f, S) <= Sum(g, S) /\ Sum(g, S) <= Sum(f, S)
  <2>1. \A x \in S : f[x] <= g[x] /\ g[x] <= f[x] /\ g[x] \in Int
    OBVIOUS
  <2> QED
    BY <2>1, SumMonotone
<1>2. Sum(f, S) \in Int /\ Sum(g, S) \in Int
  BY SumType
<1> QED
  BY <1>1, <1>2

\* What is left when part of the set goes.
LEMMA SumDiff ==
  ASSUME NEW f, NEW S, IsFiniteSet(S), \A x \in S : f[x] \in Int, NEW T \in SUBSET S
  PROVE  Sum(f, S \ T) = Sum(f, S) - Sum(f, T)
<1> DEFINE P == {t \in SUBSET T : Sum(f, S \ t) = Sum(f, S) - Sum(f, t)}
<1>1. ASSUME NEW t \in SUBSET T, \A x \in t : t \ {x} \in P PROVE t \in P
  <2>1. IsFiniteSet(t)
    BY FS_Subset
  <2>2. \A s \in SUBSET S : Sum(f, s) \in Int /\ IsFiniteSet(s)
    <3> SUFFICES ASSUME NEW s \in SUBSET S PROVE Sum(f, s) \in Int /\ IsFiniteSet(s)
      OBVIOUS
    <3>1. IsFiniteSet(s) /\ \A x \in s : f[x] \in Int
      BY FS_Subset
    <3> QED
      BY <3>1, SumType
  <2>3. CASE t = {}
    <3>1. Sum(f, t) = 0 /\ S \ t = S
      BY <2>1, <2>3, SumFirst
    <3> QED
      BY <2>2, <3>1
  <2>4. ASSUME NEW x \in t PROVE Sum(f, S \ t) = Sum(f, S) - Sum(f, t)
    <3> DEFINE u == t \ {x}
    <3>1. Sum(f, S \ u) = Sum(f, S) - Sum(f, u)
      BY <1>1
    <3>2. Sum(f, t) = f[x] + Sum(f, u)
      BY <2>1, SumRemove
    <3>3. Sum(f, S \ u) = f[x] + Sum(f, S \ t)
      <4>1. (S \ u) \ {x} = S \ t /\ x \in S \ u
        OBVIOUS
      <4>2. IsFiniteSet(S \ u) /\ \A z \in S \ u : f[z] \in Int
        BY <2>2
      <4> HIDE DEF u
      <4> QED
        BY <4>1, <4>2, SumRemove
    <3>4. /\ Sum(f, S \ t) \in Int /\ Sum(f, S) \in Int /\ Sum(f, u) \in Int
          /\ f[x] \in Int
      BY <2>2
    <3> QED
      BY <3>1, <3>2, <3>3, <3>4
  <2> QED
    BY <2>3, <2>4
<1>2. IsFiniteSet(T)
  BY FS_Subset
<1> HIDE DEF P
<1>3. T \in P
  BY <1>1, <1>2, SubsetInduction
<1> QED
  BY <1>3 DEF P

\* A sum of one term.
LEMMA SumOfOne ==
  ASSUME NEW f, NEW e, f[e] \in Int
  PROVE  Sum(f, {e}) = f[e]
<1>1. IsFiniteSet({e}) /\ {e} \ {e} = {} /\ IsFiniteSet({})
  BY FS_Singleton, FS_EmptySet
<1>2. Sum(f, {e}) = f[e] + Sum(f, {e} \ {e})
  BY <1>1, SumRemove
<1>3. Sum(f, {}) = 0
  BY <1>1, SumFirst
<1> QED
  BY <1>1, <1>2, <1>3

-----------------------------------------------------------------------------
\* A canvas has a natural number of pixels.
LEMMA AreaType == \A c \in Sizes : Area(c) \in Nat
<1> SUFFICES ASSUME NEW c \in Sizes PROVE Area(c) \in Nat
  OBVIOUS
<1>1. c[1] \in Nat /\ c[2] \in Nat
  BY DEF Sizes
<1>2. \A m, n \in Nat : m * n \in Nat
  OBVIOUS
<1> QED
  BY <1>1, <1>2 DEF Area

\* The terms of every sum are natural numbers, and what grew is part of what a
\* context holds.
LEMMA TermTypes ==
  ASSUME ByteTypes
  PROVE  /\ DeviceOf \in [Ids -> Nat] /\ HostOf \in [Ids -> Nat]
         /\ \A i \in Ids : /\ DeviceOf[i] = Area(capacity[i]) + grown[i]
                           /\ HostOf[i] = Area(capacity[i])
                           /\ Area(capacity[i]) \in Nat /\ grown[i] \in Nat
         /\ \A r \in Routes : pc[r] # "idle" => Need(r) \in Nat /\ HostNeed(r) \in Nat
<1>1. \A i \in Ids : Area(capacity[i]) \in Nat /\ grown[i] \in Nat
  BY AreaType DEF ByteTypes
<1>2. \A r \in Routes : pc[r] # "idle" => Area(want[r]) \in Nat
  BY AreaType, CapacitiesAssumption DEF ByteTypes, Sizes
<1>3. \A i \in Ids : DeviceOf[i] = Area(capacity[i]) + grown[i]
  BY DEF DeviceOf, ContextBytes, DeviceBytes
<1>4. \A i \in Ids : HostOf[i] = Area(capacity[i])
  BY DEF HostOf, HostBytes
<1>5. DeviceOf \in [Ids -> Nat]
  BY <1>1, <1>3 DEF DeviceOf
<1>6. HostOf \in [Ids -> Nat]
  BY <1>1, <1>4 DEF HostOf
<1> QED
  BY <1>1, <1>2, <1>3, <1>4, <1>5, <1>6 DEF Need, HostNeed, DeviceBytes, HostBytes

\* The pool's sums are those of SetSums: both add the elements in the same order.
LEMMA PoolSums ==
  ASSUME ByteTypes, NEW S \in SUBSET Ids, IsFiniteSet(S)
  PROVE  /\ DeviceSum(S) = Sum(DeviceOf, S)
         /\ HostSum(S) = Sum(HostOf, S)
         /\ MapThenSumSet(LAMBDA i : grown[i], S) = Sum(grown, S)
<1>1. DeviceSum(S) = Sum(DeviceOf, S)
  <2> DEFINE Adds(F) == F = [s \in SUBSET S |->
                   IF s = {} THEN 0 ELSE ContextBytes(First(s)) + F[s \ {First(s)}]]
  <2>1. DeviceSum(S) = (CHOOSE F : Adds(F))[S]
    BY DEF DeviceSum, MapThenSumSet, MapThenFoldSet, First
  <2>2. \A s \in SUBSET S : s # {} => ContextBytes(First(s)) = DeviceOf[First(s)]
    BY DEF First, DeviceOf
  <2>3. \A F : Adds(F) <=> PartialSums(DeviceOf, S, F)
    BY <2>2 DEF PartialSums
  <2> HIDE DEF Adds
  <2>4. \E F : Adds(F)
    BY <2>3, PartialSumsExist
  <2>5. PartialSums(DeviceOf, S, CHOOSE F : Adds(F))
    BY <2>3, <2>4
  <2> QED
    BY <2>1, <2>5, SumIsPartial, PartialSumsAgree
<1>2. HostSum(S) = Sum(HostOf, S)
  <2> DEFINE Adds(F) == F = [s \in SUBSET S |->
            IF s = {} THEN 0 ELSE HostBytes(capacity[First(s)]) + F[s \ {First(s)}]]
  <2>1. HostSum(S) = (CHOOSE F : Adds(F))[S]
    BY DEF HostSum, MapThenSumSet, MapThenFoldSet, First
  <2>2. \A s \in SUBSET S : s # {} => HostBytes(capacity[First(s)]) = HostOf[First(s)]
    BY DEF First, HostOf
  <2>3. \A F : Adds(F) <=> PartialSums(HostOf, S, F)
    BY <2>2 DEF PartialSums
  <2> HIDE DEF Adds
  <2>4. \E F : Adds(F)
    BY <2>3, PartialSumsExist
  <2>5. PartialSums(HostOf, S, CHOOSE F : Adds(F))
    BY <2>3, <2>4
  <2> QED
    BY <2>1, <2>5, SumIsPartial, PartialSumsAgree
<1>3. MapThenSumSet(LAMBDA i : grown[i], S) = Sum(grown, S)
  BY DEF Sum
<1> QED
  BY <1>1, <1>2, <1>3

\* Any set of live contexts has sums.
LEMMA LiveSums ==
  ASSUME PInv, ByteTypes, NEW S \in SUBSET live
  PROVE  /\ S \in SUBSET Ids /\ IsFiniteSet(S)
         /\ Sum(DeviceOf, S) \in Nat /\ Sum(HostOf, S) \in Nat
         /\ Sum(grown, S) \in Nat /\ Sum(grown, S) <= Sum(DeviceOf, S)
<1>1. live \subseteq Ids
  BY DEF PInv, LeasesExclusive, LeaseTypes, Leased
<1>2. S \in SUBSET Ids /\ IsFiniteSet(S)
  BY <1>1, FS_Subset DEF ByteTypes
<1>3. \A i \in S : /\ DeviceOf[i] \in Nat /\ HostOf[i] \in Nat /\ grown[i] \in Nat
                   /\ grown[i] <= DeviceOf[i]
  BY <1>2, TermTypes
<1>4. Sum(DeviceOf, S) \in Int /\ Sum(DeviceOf, S) >= 0
  BY <1>2, <1>3, SumType
<1>5. Sum(HostOf, S) \in Int /\ Sum(HostOf, S) >= 0
  BY <1>2, <1>3, SumType
<1>6. Sum(grown, S) \in Int /\ Sum(grown, S) >= 0
  BY <1>2, <1>3, SumType
<1>7. Sum(grown, S) <= Sum(DeviceOf, S)
  BY <1>2, <1>3, SumMonotone
<1> QED
  BY <1>2, <1>4, <1>5, <1>6, <1>7

-----------------------------------------------------------------------------
\* A request is written by its own route, and never while that route creates.
LEMMA RequestsNext ==
  PInv /\ ByteTypes /\ [Next]_vars =>
    /\ want' \in [Routes -> Capacities \cup {Nobody}]
    /\ \A r \in Routes : pc'[r] # "idle" => want'[r] \in Capacities
    /\ \A r \in Creators : want'[r] = want[r]
<1> SUFFICES ASSUME PInv, ByteTypes, [Next]_vars
             PROVE  /\ want' \in [Routes -> Capacities \cup {Nobody}]
                    /\ \A r \in Routes : pc'[r] # "idle" => want'[r] \in Capacities
                    /\ \A r \in Creators : want'[r] = want[r]
  OBVIOUS
<1> USE DEF PInv, LeaseTypes, ByteTypes
<1>1. ASSUME NEW q \in Routes, Request(q)
      PROVE  /\ want' \in [Routes -> Capacities \cup {Nobody}]
             /\ \A r \in Routes : pc'[r] # "idle" => want'[r] \in Capacities
             /\ \A r \in Creators : want'[r] = want[r]
  <2>1. PICK c \in Capacities : want' = [want EXCEPT ![q] = c]
    BY <1>1 DEF Request
  <2>2. q \notin Creators /\ pc' = [pc EXCEPT ![q] = "loop"]
    BY <1>1 DEF Request, Creators, Goto
  <2> QED
    BY <2>1, <2>2 DEF Creators
<1>2. ASSUME NEW q \in Routes, Route(q), ~Request(q)
      PROVE  /\ want' = want
             /\ \/ pc' = pc
                \/ pc[q] # "idle" /\ \E l \in Labels : pc' = [pc EXCEPT ![q] = l]
  <2>1. CASE Refuse(q) \/ TakeFree(q) \/ CloseRetired(q) \/ NoContext(q)
    BY <2>1 DEF Refuse, TakeFree, CloseRetired, NoContext, Goto, Labels, InLoop, request
  <2>2. CASE RetireForBytes(q) \/ RetireForHost(q) \/ OutOfMemoryRetry(q)
    BY <2>2 DEF RetireForBytes, RetireForHost, OutOfMemoryRetry, Goto, Labels, InLoop,
       request
  <2>3. CASE Park(q) \/ Grow(q) \/ Release(q)
    BY <2>3 DEF Park, Grow, Release, Goto, Labels, InLoop, request
  <2>4. CASE StartCreate(q) \/ Created(q) \/ CreatedTooLate(q)
    BY <2>4 DEF StartCreate, StartCreating, Created, CreatedTooLate, Goto, Labels, InLoop,
       request
  <2>5. CASE Discard(q) \/ OutOfMemory(q) \/ CreateFails(q)
    BY <2>5 DEF Discard, OutOfMemory, CreateFails, Goto, Labels, request
  <2> QED
    BY <1>2, <2>1, <2>2, <2>3, <2>4, <2>5 DEF Route
<1>3. CASE \E q \in Routes : Route(q)
  <2>1. PICK q \in Routes : Route(q)
    BY <1>3
  <2>2. CASE ~Request(q)
    <3>1. want' = want /\ \A r \in Routes : pc'[r] # "idle" => pc[r] # "idle"
      BY <1>2, <2>1, <2>2
    <3> QED
      BY <3>1
  <2> QED
    BY <1>1, <2>1, <2>2
<1>4. CASE CloserStep \/ UNCHANGED vars
  <2>1. want' = want /\ pc' = pc
    BY <1>4 DEF CloserStep, BeginDrain, BeginClose, AwaitQuiet, Drained, Reopen, CloseAll,
       vars, request
  <2> QED
    BY <2>1
<1> QED
  BY <1>3, <1>4 DEF Next, Terminated

\* The types, as far as the bytes go.
LEMMA ByteTypesNext ==
  ASSUME PInv, BInv, [Next]_vars, IsFiniteSet(live'),
         capacity' = capacity \/ \E i \in Ids, c \in Sizes : capacity' = [capacity EXCEPT ![i] = c],
         grown' \in [Ids -> Nat], extra' \in [Ids -> Nat],
         planned' \in Int, hostPlanned' \in Int
  PROVE  ByteTypes'
<1>1. capacity' \in [Ids -> Sizes]
  BY DEF BInv, ByteTypes
<1> QED
  BY <1>1, RequestsNext DEF BInv, ByteTypes

\* Who creates goes on needing what it needed.
LEMMA CreatorsKeepNeed ==
  ASSUME PInv, BInv, [Next]_vars
  PROVE  \A r \in Creators : /\ Need(r)' = Need(r) /\ HostNeed(r)' = HostNeed(r)
                             /\ Need(r) \in Int /\ HostNeed(r) \in Int
<1>1. \A r \in Creators : want'[r] = want[r]
  BY RequestsNext DEF BInv
<1>2. \A r \in Creators : r \in Routes /\ pc[r] # "idle"
  BY DEF Creators
<1>3. \A r \in Creators : Need(r) \in Nat /\ HostNeed(r) \in Nat
  BY <1>2, TermTypes DEF BInv
<1> QED
  BY <1>1, <1>3 DEF Need, HostNeed, DeviceBytes, HostBytes, Area

\* A step that moves no byte and makes nobody a creator, or another.
LEMMA BytesStay ==
  ASSUME PInv, BInv, [Next]_vars, UNCHANGED <<live, capacity, grown, planned, hostPlanned>>,
         extra' \in [Ids -> Nat],
         Creators' = Creators, closer = "closed" => closer' = "closed"
  PROVE  BInv'
<1>1. ByteTypes'
  BY ByteTypesNext DEF BInv, ByteTypes
<1>2. DeviceOf' = DeviceOf /\ HostOf' = HostOf
  BY DEF DeviceOf, HostOf, ContextBytes, DeviceBytes, HostBytes, Area
<1>3. \A r \in Creators : Need(r)' = Need(r) /\ HostNeed(r)' = HostNeed(r)
  BY CreatorsKeepNeed
<1>4. PlannedExact'
  BY <1>2, <1>3 DEF BInv, PlannedExact
<1>5. HostExact'
  BY <1>2, <1>3 DEF BInv, HostExact
<1>6. WithinBudgets'
  BY DEF BInv, WithinBudgets
<1> QED
  BY <1>1, <1>4, <1>5, <1>6 DEF BInv

\* The reservation is taken before the lock is dropped, from what the budgets
\* leave.
LEMMA BytesReserved ==
  ASSUME PInv, BInv, [Next]_vars, NEW r \in Routes, StartCreate(r),
         Creators = {}, Creators' = {r}
  PROVE  BInv'
<1>1. /\ planned' = planned + Need(r) /\ hostPlanned' = hostPlanned + HostNeed(r)
      /\ UNCHANGED <<live, capacity, grown, extra, want, closer>>
  BY DEF StartCreate, StartCreating, contexts, request
<1>2. Need(r) \in Nat /\ HostNeed(r) \in Nat
  BY TermTypes DEF BInv, StartCreate, InLoop
<1>3. ByteTypes'
  BY <1>1, <1>2, ByteTypesNext DEF BInv, ByteTypes
<1>4. DeviceOf' = DeviceOf /\ HostOf' = HostOf /\ Need(r)' = Need(r) /\ HostNeed(r)' = HostNeed(r)
  BY <1>1 DEF DeviceOf, HostOf, ContextBytes, DeviceBytes, HostBytes, Area, Need, HostNeed
<1>5. PlannedExact'
  BY <1>1, <1>4 DEF BInv, PlannedExact
<1>6. HostExact'
  BY <1>1, <1>4 DEF BInv, HostExact
<1>7. WithinBudgets'
  <2>1. Sum(grown, live) \in Nat
    BY LiveSums DEF BInv
  <2>2. BudgetKnown => planned + Need(r) <= Budget
    BY <1>2, BudgetAssumption DEF StartCreate, OverBudget, BInv, ByteTypes
  <2>3. HostBudget # 0 => hostPlanned + HostNeed(r) <= HostBudget
    BY DEF StartCreate, Creatable, HostFits
  <2>4. BudgetKnown => planned' - Sum(grown', live') <= Budget
    BY <1>1, <1>2, <2>1, <2>2, BudgetAssumption DEF BInv, ByteTypes
  <2> QED
    BY <1>1, <2>3, <2>4 DEF WithinBudgets
<1> QED
  BY <1>3, <1>5, <1>6, <1>7 DEF BInv

\* A failed creation gives back what it had reserved.
LEMMA BytesGivenBack ==
  ASSUME PInv, BInv, [Next]_vars, NEW r \in Routes,
         Discard(r) \/ OutOfMemory(r) \/ CreateFails(r), Creators = {r}, Creators' = {}
  PROVE  BInv'
<1>1. /\ planned' = planned - Need(r) /\ hostPlanned' = hostPlanned - HostNeed(r)
      /\ UNCHANGED <<live, capacity, grown, extra, closer>>
  BY DEF Discard, OutOfMemory, CreateFails, RollBack, contexts
<1>2. Need(r) \in Nat /\ HostNeed(r) \in Nat
  BY TermTypes DEF BInv, Creators
<1>3. ByteTypes'
  BY <1>1, <1>2, ByteTypesNext DEF BInv, ByteTypes
<1>4. DeviceOf' = DeviceOf /\ HostOf' = HostOf
  BY <1>1 DEF DeviceOf, HostOf, ContextBytes, DeviceBytes, HostBytes, Area
<1>5. Sum(DeviceOf, live) \in Nat /\ Sum(HostOf, live) \in Nat /\ Sum(grown, live) \in Nat
  BY LiveSums DEF BInv
<1>6. PlannedExact'
  BY <1>1, <1>2, <1>4, <1>5 DEF BInv, PlannedExact
<1>7. HostExact'
  BY <1>1, <1>2, <1>4, <1>5 DEF BInv, HostExact
<1>8. WithinBudgets'
  BY <1>1, <1>2, <1>5, BudgetAssumption DEF BInv, ByteTypes, WithinBudgets
<1> QED
  BY <1>3, <1>6, <1>7, <1>8 DEF BInv

\* The context that was built takes over its reservation to the byte.
LEMMA BytesPublished ==
  ASSUME PInv, BInv, [Next]_vars, NEW r \in Routes, Created(r),
         Creators = {r}, Creators' = {}
  PROVE  BInv'
<1>1. PICK i \in Ids \ live :
        /\ live' = live \cup {i} /\ capacity' = [capacity EXCEPT ![i] = want[r]]
        /\ grown' = [grown EXCEPT ![i] = 0] /\ extra' = [extra EXCEPT ![i] = 0]
  BY DEF Created
<1>2. UNCHANGED <<planned, hostPlanned, closer>>
  BY DEF Created
<1>3. pc[r] # "idle" /\ want[r] \in Sizes
  BY CapacitiesAssumption DEF Creators, BInv, ByteTypes, Sizes
<1>4. ByteTypes'
  <2>1. IsFiniteSet(live')
    BY <1>1, FS_AddElement DEF BInv, ByteTypes
  <2> QED
    BY <1>1, <1>2, <1>3, <2>1, ByteTypesNext DEF BInv, ByteTypes
<1>5. /\ \A j \in live : DeviceOf'[j] = DeviceOf[j] /\ HostOf'[j] = HostOf[j]
                         /\ grown'[j] = grown[j]
      /\ DeviceOf'[i] = Need(r) /\ HostOf'[i] = HostNeed(r) /\ grown'[i] = 0
      /\ Need(r) \in Nat /\ HostNeed(r) \in Nat
  <2>1. live \subseteq Ids /\ i \notin live /\ i \in Ids
    BY <1>1, LiveSums DEF BInv
  <2>2. /\ capacity'[i] = want[r] /\ grown'[i] = 0
        /\ \A j \in live : capacity'[j] = capacity[j] /\ grown'[j] = grown[j]
    BY <1>1, <2>1 DEF BInv, ByteTypes
  <2>3. Area(want[r]) \in Nat
    BY <1>3, AreaType
  <2>4. \A j \in Ids : DeviceOf[j] = Area(capacity[j]) + grown[j] /\ HostOf[j] = Area(capacity[j])
    BY TermTypes DEF BInv
  <2>5. \A j \in Ids : /\ DeviceOf'[j] = Area(capacity'[j]) + grown'[j]
                       /\ HostOf'[j] = Area(capacity'[j])
    BY DEF DeviceOf, HostOf, ContextBytes, DeviceBytes, HostBytes, Area
  <2>6. /\ \A j \in live : DeviceOf'[j] = DeviceOf[j] /\ HostOf'[j] = HostOf[j]
                           /\ grown'[j] = grown[j]
    BY <2>1, <2>2, <2>4, <2>5
  <2>7. DeviceOf'[i] = Area(want[r]) + 0 /\ HostOf'[i] = Area(want[r])
    BY <2>1, <2>2, <2>5
  <2> QED
    BY <2>2, <2>3, <2>6, <2>7 DEF Need, HostNeed, DeviceBytes, HostBytes
<1>6. \A j \in live : DeviceOf[j] \in Int /\ HostOf[j] \in Int /\ grown[j] \in Int
  <2>1. live \subseteq Ids
    BY LiveSums DEF BInv
  <2> QED
    BY <2>1, TermTypes DEF BInv
<1>7. IsFiniteSet(live) /\ i \notin live
  BY <1>1 DEF BInv, ByteTypes
<1>8. Sum(DeviceOf', live') = Sum(DeviceOf, live) + Need(r)
  <2>1. Sum(DeviceOf', live) = Sum(DeviceOf, live)
    BY <1>5, <1>6, <1>7, SumSame
  <2>2. Sum(DeviceOf', live \cup {i}) = Sum(DeviceOf', live) + DeviceOf'[i]
    BY <1>5, <1>6, <1>7, SumAdd
  <2> QED
    BY <1>1, <1>5, <2>1, <2>2
<1>9. Sum(HostOf', live') = Sum(HostOf, live) + HostNeed(r)
  <2>1. Sum(HostOf', live) = Sum(HostOf, live)
    BY <1>5, <1>6, <1>7, SumSame
  <2>2. Sum(HostOf', live \cup {i}) = Sum(HostOf', live) + HostOf'[i]
    BY <1>5, <1>6, <1>7, SumAdd
  <2> QED
    BY <1>1, <1>5, <2>1, <2>2
<1>10. Sum(grown', live') = Sum(grown, live)
  <2>1. Sum(grown', live) = Sum(grown, live)
    BY <1>5, <1>6, <1>7, SumSame
  <2>2. Sum(grown', live \cup {i}) = Sum(grown', live) + grown'[i]
    BY <1>5, <1>6, <1>7, SumAdd
  <2>3. Sum(grown, live) \in Int
    BY <1>6, <1>7, SumType
  <2> QED
    BY <1>1, <1>5, <2>1, <2>2, <2>3
<1>11. PlannedExact'
  BY <1>2, <1>8 DEF BInv, PlannedExact
<1>12. HostExact'
  BY <1>2, <1>9 DEF BInv, HostExact
<1>13. WithinBudgets'
  BY <1>2, <1>10 DEF BInv, WithinBudgets
<1> QED
  BY <1>4, <1>11, <1>12, <1>13 DEF BInv

\* dropLiveLocked takes back what the retired contexts held.
LEMMA BytesDropped ==
  ASSUME PInv, BInv, [Next]_vars, NEW S \in SUBSET live, DropLive(S),
         UNCHANGED <<capacity, grown, extra, closer>>, Creators' = Creators
  PROVE  BInv'
<1>1. /\ live' = live \ S /\ planned' = planned - Sum(DeviceOf, S)
      /\ hostPlanned' = hostPlanned - Sum(HostOf, S)
  BY LiveSums, PoolSums DEF DropLive, BInv
<1>2. /\ Sum(DeviceOf, S) \in Nat /\ Sum(HostOf, S) \in Nat
      /\ Sum(grown, S) \in Nat /\ Sum(grown, S) <= Sum(DeviceOf, S)
      /\ live \subseteq Ids /\ IsFiniteSet(live)
  BY LiveSums DEF BInv
<1>3. ByteTypes'
  <2>1. IsFiniteSet(live')
    BY <1>1, <1>2, FS_Subset
  <2> QED
    BY <1>1, <1>2, <2>1, ByteTypesNext DEF BInv, ByteTypes
<1>4. DeviceOf' = DeviceOf /\ HostOf' = HostOf
  BY DEF DeviceOf, HostOf, ContextBytes, DeviceBytes, HostBytes, Area
<1>5. \A r \in Creators : Need(r)' = Need(r) /\ HostNeed(r)' = HostNeed(r)
                          /\ Need(r) \in Int /\ HostNeed(r) \in Int
  BY CreatorsKeepNeed
<1>6. \A i \in live : DeviceOf[i] \in Int /\ HostOf[i] \in Int /\ grown[i] \in Int
  BY <1>2, TermTypes DEF BInv
<1>7. /\ Sum(DeviceOf, live \ S) = Sum(DeviceOf, live) - Sum(DeviceOf, S)
      /\ Sum(HostOf, live \ S) = Sum(HostOf, live) - Sum(HostOf, S)
      /\ Sum(grown, live \ S) = Sum(grown, live) - Sum(grown, S)
  <2>1. Sum(DeviceOf, live \ S) = Sum(DeviceOf, live) - Sum(DeviceOf, S)
    BY <1>2, <1>6, SumDiff
  <2>2. Sum(HostOf, live \ S) = Sum(HostOf, live) - Sum(HostOf, S)
    BY <1>2, <1>6, SumDiff
  <2>3. Sum(grown, live \ S) = Sum(grown, live) - Sum(grown, S)
    BY <1>2, <1>6, SumDiff
  <2> QED
    BY <2>1, <2>2, <2>3
<1>8. Sum(DeviceOf, live) \in Nat /\ Sum(HostOf, live) \in Nat /\ Sum(grown, live) \in Nat
  BY LiveSums DEF BInv
<1>9. PlannedExact'
  <2>1. Sum(DeviceOf', live') = Sum(DeviceOf, live) - Sum(DeviceOf, S)
    BY <1>1, <1>4, <1>7
  <2>2. Creators = {} => planned' = Sum(DeviceOf', live')
    BY <1>1, <2>1 DEF BInv, PlannedExact
  <2>3. ASSUME NEW r \in Creators PROVE planned' = Sum(DeviceOf', live') + Need(r)
    <3>1. planned = Sum(DeviceOf, live) + Need(r) /\ Need(r) \in Int
      BY <1>5 DEF BInv, PlannedExact
    <3> QED
      BY <1>1, <1>2, <1>8, <2>1, <3>1
  <2> QED
    BY <1>5, <2>2, <2>3 DEF PlannedExact
<1>10. HostExact'
  <2>1. Sum(HostOf', live') = Sum(HostOf, live) - Sum(HostOf, S)
    BY <1>1, <1>4, <1>7
  <2>2. closer # "closed" /\ Creators = {} => hostPlanned' = Sum(HostOf', live')
    BY <1>1, <2>1 DEF BInv, HostExact
  <2>3. ASSUME NEW r \in Creators, closer # "closed"
        PROVE  hostPlanned' = Sum(HostOf', live') + HostNeed(r)
    <3>1. hostPlanned = Sum(HostOf, live) + HostNeed(r) /\ HostNeed(r) \in Int
      BY <1>5, <2>3 DEF BInv, HostExact
    <3> QED
      BY <1>1, <1>2, <1>8, <2>1, <3>1
  <2> QED
    BY <1>5, <2>2, <2>3 DEF HostExact
<1>11. WithinBudgets'
  BY <1>1, <1>2, <1>7, <1>8, BudgetAssumption DEF BInv, ByteTypes, WithinBudgets
<1> QED
  BY <1>3, <1>9, <1>10, <1>11 DEF BInv

\* release folds what the context retained beyond its capacity into its bytes and
\* the pool's alike; once the pool is closed the context goes, with all of it.
LEMMA BytesReleased ==
  ASSUME PInv, BInv, [Next]_vars, NEW r \in Routes, Release(r), Creators' = Creators
  PROVE  BInv'
<1>1. PICK i \in held[r] :
        /\ extra' = [extra EXCEPT ![i] = 0]
        /\ grown' = [grown EXCEPT ![i] = @ + extra[i]]
        /\ \/ /\ live' = live \ {i}
              /\ planned' = planned - ContextBytes(i)
              /\ hostPlanned' = hostPlanned - HostBytes(capacity[i])
           \/ /\ planned' = planned + extra[i]
              /\ UNCHANGED <<live, hostPlanned>>
  BY DEF Release
<1>2. UNCHANGED <<capacity, closer>>
  BY DEF Release
<1>3. i \in live /\ live \subseteq Ids /\ i \in Ids
  <2>1. i \in Leased
    BY DEF Leased
  <2> QED
    BY <2>1, LiveSums DEF BInv, PInv, LeasesExclusive
<1> DEFINE rest == live \ {i}
<1>4. /\ ContextBytes(i) = DeviceOf[i] /\ HostBytes(capacity[i]) = HostOf[i]
      /\ DeviceOf[i] \in Nat /\ HostOf[i] \in Nat /\ grown[i] \in Nat /\ extra[i] \in Nat
      /\ grown[i] <= DeviceOf[i]
  <2>1. ContextBytes(i) = DeviceOf[i] /\ HostBytes(capacity[i]) = HostOf[i]
    BY <1>3 DEF DeviceOf, HostOf
  <2> QED
    BY <1>3, <2>1, TermTypes DEF BInv, ByteTypes
<1>5. /\ HostOf' = HostOf
      /\ \A j \in rest : DeviceOf'[j] = DeviceOf[j] /\ grown'[j] = grown[j]
      /\ DeviceOf'[i] = DeviceOf[i] + extra[i] /\ grown'[i] = grown[i] + extra[i]
  <2>1. HostOf' = HostOf
    BY <1>2 DEF HostOf, HostBytes, Area
  <2>2. grown'[i] = grown[i] + extra[i] /\ \A j \in rest : grown'[j] = grown[j]
    BY <1>1, <1>3 DEF BInv, ByteTypes
  <2>3. \A j \in Ids : /\ DeviceOf[j] = Area(capacity[j]) + grown[j]
                       /\ Area(capacity[j]) \in Nat
    BY TermTypes DEF BInv
  <2>4. \A j \in Ids : DeviceOf'[j] = Area(capacity[j]) + grown'[j]
    BY <1>2 DEF DeviceOf, ContextBytes, DeviceBytes, Area
  <2>5. DeviceOf'[i] = DeviceOf[i] + extra[i]
    BY <1>3, <1>4, <2>2, <2>3, <2>4
  <2> QED
    BY <1>3, <2>1, <2>2, <2>3, <2>4, <2>5
<1>6. /\ \A j \in live : DeviceOf[j] \in Int /\ HostOf[j] \in Int /\ grown[j] \in Int
      /\ IsFiniteSet(live) /\ IsFiniteSet(rest)
  <2>1. IsFiniteSet(live) /\ IsFiniteSet(rest)
    BY FS_Subset DEF BInv, ByteTypes
  <2> QED
    BY <1>3, <2>1, TermTypes DEF BInv
<1>7. \A j \in live : DeviceOf'[j] \in Int /\ grown'[j] \in Int
  BY <1>4, <1>5, <1>6
<1>8. /\ Sum(DeviceOf, live) = DeviceOf[i] + Sum(DeviceOf, rest)
      /\ Sum(HostOf, live) = HostOf[i] + Sum(HostOf, rest)
      /\ Sum(grown, live) = grown[i] + Sum(grown, rest)
  <2>1. Sum(DeviceOf, live) = DeviceOf[i] + Sum(DeviceOf, rest)
    BY <1>3, <1>6, SumRemove
  <2>2. Sum(HostOf, live) = HostOf[i] + Sum(HostOf, rest)
    BY <1>3, <1>6, SumRemove
  <2>3. Sum(grown, live) = grown[i] + Sum(grown, rest)
    BY <1>3, <1>6, SumRemove
  <2> QED
    BY <2>1, <2>2, <2>3
<1>9. Sum(DeviceOf', rest) = Sum(DeviceOf, rest) /\ Sum(grown', rest) = Sum(grown, rest)
  <2>1. /\ \A j \in rest : DeviceOf[j] \in Int /\ DeviceOf[j] = DeviceOf'[j]
        /\ \A j \in rest : grown[j] \in Int /\ grown[j] = grown'[j]
    BY <1>5, <1>6
  <2>2. Sum(DeviceOf, rest) = Sum(DeviceOf', rest)
    BY <1>6, <2>1, SumSame
  <2>3. Sum(grown, rest) = Sum(grown', rest)
    BY <1>6, <2>1, SumSame
  <2> QED
    BY <2>2, <2>3
<1>10. /\ Sum(DeviceOf', live) = DeviceOf'[i] + Sum(DeviceOf', rest)
       /\ Sum(grown', live) = grown'[i] + Sum(grown', rest)
  <2>1. Sum(DeviceOf', live) = DeviceOf'[i] + Sum(DeviceOf', rest)
    BY <1>3, <1>6, <1>7, SumRemove
  <2>2. Sum(grown', live) = grown'[i] + Sum(grown', rest)
    BY <1>3, <1>6, <1>7, SumRemove
  <2> QED
    BY <2>1, <2>2
<1>11. /\ Sum(DeviceOf, rest) \in Nat /\ Sum(HostOf, rest) \in Nat
       /\ Sum(grown, rest) \in Nat
  BY LiveSums DEF BInv
<1>12. IsFiniteSet(live')
  BY <1>1, <1>6
<1> HIDE DEF rest
<1> DEFINE gain == planned' - planned
           loss == hostPlanned' - hostPlanned
<1>13. /\ planned \in Int /\ hostPlanned \in Int
       /\ gain \in Int /\ loss \in Int /\ loss <= 0
       /\ planned' = planned + gain /\ hostPlanned' = hostPlanned + loss
  <2>1. planned \in Int /\ hostPlanned \in Int
    BY DEF BInv, ByteTypes
  <2> QED
    BY <1>1, <1>4, <2>1
<1>14. /\ Sum(DeviceOf', live') = Sum(DeviceOf, live) + gain
       /\ Sum(HostOf', live') = Sum(HostOf, live) + loss
       /\ gain - (Sum(grown', live') - Sum(grown, live)) <= 0
       /\ Sum(grown', live') \in Int
  <2>1. CASE /\ live' = live \ {i}
             /\ planned' = planned - ContextBytes(i)
             /\ hostPlanned' = hostPlanned - HostBytes(capacity[i])
    <3>1. gain = 0 - DeviceOf[i] /\ loss = 0 - HostOf[i]
      BY <1>4, <1>13, <2>1
    <3>2. /\ Sum(DeviceOf', live') = Sum(DeviceOf, rest)
          /\ Sum(HostOf', live') = Sum(HostOf, rest)
          /\ Sum(grown', live') = Sum(grown, rest)
      BY <1>5, <1>9, <2>1 DEF rest
    <3> HIDE DEF gain, loss
    <3> QED
      BY <1>4, <1>8, <1>11, <3>1, <3>2
  <2>2. CASE planned' = planned + extra[i] /\ UNCHANGED <<live, hostPlanned>>
    <3>1. gain = extra[i] /\ loss = 0
      BY <1>4, <1>13, <2>2
    <3>2. /\ Sum(DeviceOf', live') = (DeviceOf[i] + extra[i]) + Sum(DeviceOf, rest)
          /\ Sum(HostOf', live') = Sum(HostOf, live)
          /\ Sum(grown', live') = (grown[i] + extra[i]) + Sum(grown, rest)
      BY <1>5, <1>9, <1>10, <2>2
    <3> HIDE DEF gain, loss
    <3> QED
      BY <1>4, <1>8, <1>11, <3>1, <3>2
  <2> QED
    BY <1>1, <2>1, <2>2
<1> HIDE DEF gain, loss
<1>15. \A q \in Creators : Need(q)' = Need(q) /\ HostNeed(q)' = HostNeed(q)
                           /\ Need(q) \in Int /\ HostNeed(q) \in Int
  BY CreatorsKeepNeed
<1>16. Sum(DeviceOf, live) \in Nat /\ Sum(HostOf, live) \in Nat /\ Sum(grown, live) \in Nat
  BY LiveSums DEF BInv
<1>17. PlannedExact'
  <2>1. Creators = {} => planned' = Sum(DeviceOf', live')
    BY <1>13, <1>14 DEF BInv, PlannedExact
  <2>2. ASSUME NEW q \in Creators PROVE planned' = Sum(DeviceOf', live') + Need(q)
    <3>1. planned = Sum(DeviceOf, live) + Need(q) /\ Need(q) \in Int
      BY <1>15 DEF BInv, PlannedExact
    <3> QED
      BY <1>13, <1>14, <1>16, <3>1
  <2> QED
    BY <1>15, <2>1, <2>2 DEF PlannedExact
<1>18. HostExact'
  <2>1. closer # "closed" /\ Creators = {} => hostPlanned' = Sum(HostOf', live')
    BY <1>13, <1>14 DEF BInv, HostExact
  <2>2. ASSUME NEW q \in Creators, closer # "closed"
        PROVE  hostPlanned' = Sum(HostOf', live') + HostNeed(q)
    <3>1. hostPlanned = Sum(HostOf, live) + HostNeed(q) /\ HostNeed(q) \in Int
      BY <1>15, <2>2 DEF BInv, HostExact
    <3> QED
      BY <1>13, <1>14, <1>16, <3>1
  <2> QED
    BY <1>2, <1>15, <2>1, <2>2 DEF HostExact
<1>19. WithinBudgets'
  <2>1. BudgetKnown => planned - Sum(grown, live) <= Budget
    BY DEF BInv, WithinBudgets
  <2>2. HostBudget # 0 => hostPlanned <= HostBudget
    BY DEF BInv, WithinBudgets
  <2>3. BudgetKnown => planned' - Sum(grown', live') <= Budget
    BY <1>13, <1>14, <1>16, <2>1, BudgetAssumption
  <2>4. HostBudget # 0 => hostPlanned' <= HostBudget
    BY <1>13, <2>2, BudgetAssumption
  <2> QED
    BY <2>3, <2>4 DEF WithinBudgets
<1>20. ByteTypes'
  <2>1. grown' \in [Ids -> Nat] /\ extra' \in [Ids -> Nat]
    BY <1>1, <1>3, <1>4 DEF BInv, ByteTypes
  <2>2. planned' \in Int /\ hostPlanned' \in Int
    BY <1>13
  <2> QED
    BY <1>2, <1>12, <2>1, <2>2, ByteTypesNext
<1> QED
  BY <1>17, <1>18, <1>19, <1>20 DEF BInv

\* Close empties the pool; only the host's count is left as it was.
LEMMA BytesClosed ==
  ASSUME PInv, BInv, [Next]_vars, CloseAll
  PROVE  BInv'
<1>1. /\ live' = {} /\ planned' = 0 /\ closer' = "closed"
      /\ UNCHANGED <<capacity, grown, extra, hostPlanned, pc>>
  BY DEF CloseAll
<1>2. Creators' = {}
  BY <1>1 DEF CloseAll, Quiet, PInv, SingleFlight, Creators
<1>3. IsFiniteSet({})
  BY FS_EmptySet
<1>4. Sum(DeviceOf', {}) = 0 /\ Sum(grown', {}) = 0
  BY <1>3, SumFirst
<1>5. ByteTypes'
  BY <1>1, <1>3, ByteTypesNext DEF BInv, ByteTypes
<1>6. PlannedExact' /\ HostExact'
  BY <1>1, <1>2, <1>4 DEF PlannedExact, HostExact
<1>7. WithinBudgets'
  BY <1>1, <1>4, BudgetAssumption DEF BInv, WithinBudgets
<1> QED
  BY <1>5, <1>6, <1>7 DEF BInv

\* One step per action that moves a byte.
LEMMA BytesNext == PInv /\ BInv /\ [Next]_vars => BInv'
<1> SUFFICES ASSUME PInv, BInv, [Next]_vars PROVE BInv'
  OBVIOUS
<1>1. ASSUME NEW r \in Routes, Route(r) PROVE BInv'
  <2>1. CASE StartCreate(r)
    <3>1. Creators = {} /\ Creators' = {r}
      BY <1>1, <2>1, CreatorsNext DEF Created, Discard, OutOfMemory, CreateFails,
         StartCreate, InLoop
    <3> QED
      BY <2>1, <3>1, BytesReserved
  <2>2. CASE Created(r) \/ Discard(r) \/ OutOfMemory(r) \/ CreateFails(r)
    <3>1. Creators = {r} /\ Creators' = {}
      BY <1>1, <2>2, CreatorsNext DEF Created, Discard, OutOfMemory, CreateFails,
         StartCreate, InLoop
    <3> QED
      BY <2>2, <3>1, BytesPublished, BytesGivenBack
  <2>3. ASSUME ~(StartCreate(r) \/ Created(r) \/ Discard(r) \/ OutOfMemory(r)
                   \/ CreateFails(r))
        PROVE  BInv'
    <3>1. Creators' = Creators /\ closer' = closer
      BY <1>1, <2>3, CreatorsNext, RoutesLeaveFlags
    <3>2. CASE RetireForBytes(r) \/ RetireForHost(r) \/ OutOfMemoryRetry(r)
      <4>1. PICK S \in SUBSET free : DropLive(S) /\ UNCHANGED <<capacity, grown, extra>>
        <5>1. CASE RetireForBytes(r)
          BY <5>1 DEF RetireForBytes
        <5>2. CASE RetireForHost(r)
          BY <5>2 DEF RetireForHost
        <5>3. CASE OutOfMemoryRetry(r)
          <6>1. DropLive(free) /\ UNCHANGED <<capacity, grown, extra>>
            BY <5>3 DEF OutOfMemoryRetry
          <6> QED
            BY <6>1
        <5> QED
          BY <3>2, <5>1, <5>2, <5>3
      <4>2. S \in SUBSET live
        BY DEF PInv, LeasesExclusive
      <4> QED
        BY <3>1, <4>1, <4>2, BytesDropped
    <3>3. CASE Release(r)
      BY <3>1, <3>3, BytesReleased
    <3>4. CASE Grow(r)
      <4>1. PICK i \in held[r] : extra' = [extra EXCEPT ![i] = @ + 1]
        BY <3>4 DEF Grow
      <4>2. i \in Ids /\ extra \in [Ids -> Nat]
        BY DEF PInv, LeaseTypes, BInv, ByteTypes
      <4>3. extra' \in [Ids -> Nat]
        BY <4>1, <4>2
      <4>4. UNCHANGED <<live, capacity, grown, planned, hostPlanned>>
        BY <3>4 DEF Grow, counters
      <4> QED
        BY <3>1, <4>3, <4>4, BytesStay
    <3>5. CASE ~(RetireForBytes(r) \/ RetireForHost(r) \/ OutOfMemoryRetry(r)
                 \/ Release(r) \/ Grow(r))
      <4>1. UNCHANGED <<live, capacity, grown, extra, planned, hostPlanned>>
        BY <1>1, <2>3, <3>5 DEF Route, Request, Refuse, TakeFree, CloseRetired, NoContext,
           Park, CreatedTooLate, contexts, counters
      <4> QED
        BY <3>1, <4>1, BytesStay DEF BInv, ByteTypes
    <3> QED
      BY <3>2, <3>3, <3>4, <3>5
  <2> QED
    BY <2>1, <2>2, <2>3
<1>2. ASSUME CloserStep \/ UNCHANGED vars, ~CloseAll PROVE BInv'
  <2>1. /\ UNCHANGED <<live, capacity, grown, extra, planned, hostPlanned, pc>>
        /\ closer = "closed" => closer' = "closed"
    BY <1>2 DEF CloserStep, BeginDrain, BeginClose, AwaitQuiet, Drained, Reopen, vars,
       contexts, counters
  <2>2. Creators' = Creators
    BY <2>1 DEF Creators
  <2> QED
    BY <2>1, <2>2, BytesStay DEF BInv, ByteTypes
<1> QED
  BY <1>1, <1>2, BytesClosed DEF Next, Terminated

-----------------------------------------------------------------------------
\* newGPURouteContextPool starts with no context.
LEMMA PoolInit == Init => PInv
<1> SUFFICES ASSUME Init PROVE PInv
  OBVIOUS
<1>1. Leased = {} /\ Creators = {}
  BY DEF Init, Leased, Creators
<1>2. IsFiniteSet(Leased) /\ Cardinality(Leased) = 0
  BY <1>1, FS_EmptySet
<1>3. LeaseTypes
  BY <1>2 DEF Init, LeaseTypes, Labels
<1>4. LeasesExclusive
  BY <1>1, <1>2 DEF Init, LeasesExclusive
<1>5. SingleFlight /\ Barred /\ DrainedMeansQuiet
  BY <1>1 DEF Init, SingleFlight, Barred, DrainedMeansQuiet
<1> QED
  BY <1>3, <1>4, <1>5 DEF PInv

\* The inductive invariant: creation's single flight and the barring flags are
\* what the two results below need of the steps between a reservation and its
\* publication.
THEOREM PoolInvariant == Spec => []PInv
<1>1. PInv /\ [Next]_vars => PInv'
  BY LeasesNext, LeaseTypesNext, SingleFlightNext, BarredNext, DrainedNext DEF PInv
<1> QED
  BY PoolInit, <1>1, PTL DEF Spec

\* A context is idle or leased by one route, and outstanding is the number of
\* leases: acquire, createUnlocked, release, the retirements and Close together.
THEOREM LeasesExclusiveCorrect == Spec => []LeasesExclusive
<1>1. PInv => LeasesExclusive
  BY DEF PInv
<1> QED
  BY PoolInvariant, <1>1, PTL

\* When drain or Close has returned no route leases a context and none is being
\* created, until reopen: creation holds neither the lock nor a lease, and is
\* waited for or discards what it built.
THEOREM DrainIsQuiet == Spec => []DrainedMeansQuiet
<1>1. PInv => DrainedMeansQuiet
  BY DEF PInv
<1> QED
  BY PoolInvariant, <1>1, PTL

-----------------------------------------------------------------------------
\* An empty pool has planned nothing.
LEMMA BytesInit == Init => BInv
<1> SUFFICES ASSUME Init PROVE BInv
  OBVIOUS
<1>1. IsFiniteSet({}) /\ Creators = {}
  BY FS_EmptySet DEF Init, Creators
<1>2. Sum(DeviceOf, {}) = 0 /\ Sum(HostOf, {}) = 0 /\ Sum(grown, {}) = 0
  BY <1>1, SumFirst
<1>3. ByteTypes
  BY <1>1 DEF Init, ByteTypes, Sizes
<1>4. PlannedExact /\ HostExact
  BY <1>1, <1>2 DEF Init, PlannedExact, HostExact
<1>5. WithinBudgets
  BY <1>2, BudgetAssumption DEF Init, WithinBudgets
<1> QED
  BY <1>3, <1>4, <1>5 DEF BInv

\* In the property's words: at most one creation is in flight, so the sum of what
\* the creators need is its need or nothing.
LEMMA BytesExplained == PInv /\ BInv => BytesAccounted
<1> SUFFICES ASSUME PInv, BInv PROVE BytesAccounted
  OBVIOUS
<1>1. /\ live \in SUBSET Ids /\ IsFiniteSet(live)
      /\ Sum(DeviceOf, live) \in Nat /\ Sum(HostOf, live) \in Nat
  BY LiveSums DEF BInv
<1>2. /\ DeviceSum(live) = Sum(DeviceOf, live) /\ HostSum(live) = Sum(HostOf, live)
      /\ MapThenSumSet(LAMBDA i : grown[i], live) = Sum(grown, live)
  BY <1>1, PoolSums DEF BInv
<1> DEFINE needOf == [r \in Routes |-> Need(r)]
           hostNeedOf == [r \in Routes |-> HostNeed(r)]
<1>3. IsFiniteSet(Creators)
  <2>1. CASE Creators = {}
    BY <2>1, FS_EmptySet
  <2>2. CASE Creators # {}
    <3>1. PICK r \in Creators : Creators = {r}
      BY <2>2 DEF PInv, SingleFlight
    <3> QED
      BY <3>1, FS_Singleton
  <2> QED
    BY <2>1, <2>2
<1>4. MapThenSumSet(Need, Creators) = Sum(needOf, Creators)
  <2> DEFINE Adds(F) == F = [s \in SUBSET Creators |->
                   IF s = {} THEN 0 ELSE Need(First(s)) + F[s \ {First(s)}]]
  <2>1. MapThenSumSet(Need, Creators) = (CHOOSE F : Adds(F))[Creators]
    BY DEF MapThenSumSet, MapThenFoldSet, First
  <2>2. \A s \in SUBSET Creators : s # {} => Need(First(s)) = needOf[First(s)]
    BY DEF First, Creators
  <2>3. \A F : Adds(F) <=> PartialSums(needOf, Creators, F)
    BY <2>2 DEF PartialSums
  <2> HIDE DEF Adds, needOf
  <2>4. \E F : Adds(F)
    BY <1>3, <2>3, PartialSumsExist
  <2>5. PartialSums(needOf, Creators, CHOOSE F : Adds(F))
    BY <2>3, <2>4
  <2> QED
    BY <1>3, <2>1, <2>5, SumIsPartial, PartialSumsAgree
<1>5. MapThenSumSet(HostNeed, Creators) = Sum(hostNeedOf, Creators)
  <2> DEFINE Adds(F) == F = [s \in SUBSET Creators |->
                   IF s = {} THEN 0 ELSE HostNeed(First(s)) + F[s \ {First(s)}]]
  <2>1. MapThenSumSet(HostNeed, Creators) = (CHOOSE F : Adds(F))[Creators]
    BY DEF MapThenSumSet, MapThenFoldSet, First
  <2>2. \A s \in SUBSET Creators : s # {} => HostNeed(First(s)) = hostNeedOf[First(s)]
    BY DEF First, Creators
  <2>3. \A F : Adds(F) <=> PartialSums(hostNeedOf, Creators, F)
    BY <2>2 DEF PartialSums
  <2> HIDE DEF Adds, hostNeedOf
  <2>4. \E F : Adds(F)
    BY <1>3, <2>3, PartialSumsExist
  <2>5. PartialSums(hostNeedOf, Creators, CHOOSE F : Adds(F))
    BY <2>3, <2>4
  <2> QED
    BY <1>3, <2>1, <2>5, SumIsPartial, PartialSumsAgree
<1>6. CASE Creators = {}
  <2>1. Sum(needOf, Creators) = 0 /\ Sum(hostNeedOf, Creators) = 0
    BY <1>3, <1>6, SumFirst
  <2>2. planned = Sum(DeviceOf, live) /\ (closer # "closed" => hostPlanned = Sum(HostOf, live))
    BY <1>6 DEF BInv, PlannedExact, HostExact
  <2> HIDE DEF needOf, hostNeedOf
  <2> QED
    BY <1>1, <1>2, <1>4, <1>5, <2>1, <2>2 DEF BytesAccounted, BInv, WithinBudgets
<1>7. ASSUME NEW r \in Creators PROVE BytesAccounted
  <2>1. Creators = {r} /\ r \in Routes /\ pc[r] # "idle"
    BY DEF PInv, SingleFlight, Creators
  <2>2. /\ needOf[r] = Need(r) /\ hostNeedOf[r] = HostNeed(r)
        /\ Need(r) \in Int /\ HostNeed(r) \in Int
    <3>1. Need(r) \in Nat /\ HostNeed(r) \in Nat
      BY <2>1, TermTypes DEF BInv
    <3> QED
      BY <2>1, <3>1
  <2> HIDE DEF needOf, hostNeedOf
  <2>3. Sum(needOf, Creators) = Need(r) /\ Sum(hostNeedOf, Creators) = HostNeed(r)
    BY <2>1, <2>2, SumOfOne
  <2>4. /\ planned = Sum(DeviceOf, live) + Need(r)
        /\ closer # "closed" => hostPlanned = Sum(HostOf, live) + HostNeed(r)
    BY DEF BInv, PlannedExact, HostExact
  <2> QED
    BY <1>2, <1>4, <1>5, <2>3, <2>4 DEF BytesAccounted, BInv, WithinBudgets
<1> QED
  BY <1>6, <1>7

\* "folding it here keeps planned equal to the sum of the live contexts'
\* deviceBytes" (gpu_decode.go:1140-1146): whatever is created, retried, retired,
\* grown and released, the pool's two counters are the bytes of what lives and of
\* the one creation in flight, and only growth may exceed the device's budget.
THEOREM BytesAccountedCorrect == Spec => []BytesAccounted
<1>1. PInv /\ BInv /\ [Next]_vars => BInv'
  BY BytesNext
<1> QED
  BY PoolInvariant, BytesInit, <1>1, BytesExplained, PTL DEF Spec
=============================================================================
