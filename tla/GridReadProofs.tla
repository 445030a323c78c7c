--------------------------- MODULE GridReadProofs ---------------------------
(***************************************************************************)
(* The readings of a located detector, for every number of requests that   *)
(* break off.  The pixels of the grid being read stay within reach, and so *)
(* do those of the shared grid while a variant is to come; every answer    *)
(* comes from the grid and the variant it was asked for, and the tables    *)
(* that outlive a request are whole whenever they are trusted.  The latter *)
(* two rest on what the command lists do to the buffers, as                *)
(* EffectsAssumption states it and TLC evaluates it.                       *)
(***************************************************************************)
EXTENDS GridRead, FiniteSetTheorems, TLAPS

Grids == {None, Old, Shared, "first", "second"}
Steps == {"free", "leased", "sample", "end", "missed", "keep", "cache", "fused", "walk",
          "uncovered", "observe", "hostObserve", "admission", "admit", "admitFixed",
          "deferred", "deferredFixed", "correct", "host", "hostCorrect", "merge", "hostMerge"}
ReaderTypes ==
  [at : Steps, traced : BOOLEAN, variants : {1, 2}, sampler : BOOLEAN,
   blocks : BOOLEAN, breaks : Nat, turn : {1, 2}, matrix : Grids,
   resampled : BOOLEAN, fetched : SUBSET Grids, cached : Grids,
   sure : BOOLEAN, agrees : BOOLEAN]
ResidentTypes ==
  [grid : Grids, retained : [Slots -> Grids], next : Slots,
   control : {None, "v1", "v2"}, rows : BOOLEAN, dirty : BOOLEAN]

TypeOK == reader \in ReaderTypes /\ resident \in ResidentTypes

Reading     == ~ At({"free", "leased", "sample", "end"})
Undisturbed == Reading /\ reader.breaks = 0

\* The host has the grid's pixels, or the device still holds them somewhere.
Readable(grid) == grid \in reader.fetched \/ Places(grid) # {}

\* The grid the current request is about, the grid later variants come back to,
\* and where the latter is until the first variant has resampled.
MatrixReadable == Undisturbed => Readable(reader.matrix)
SharedReadable == Undisturbed /\ reader.turn = 1 => Readable(Shared)
SharedInPlace ==
  Undisturbed /\ reader.turn = 1 /\ ~reader.resampled
    => Shared \in reader.fetched \/ resident.grid = Shared

\* Only a resample the host has seen is read again under the next variant.
CachedFetched == reader.cached # None => reader.cached \in reader.fetched

IInv == TypeOK /\ MatrixReadable /\ SharedReadable /\ SharedInPlace /\ CachedFetched

-----------------------------------------------------------------------------
\* A reader that reads nothing.
LEMMA NoReaderTypes ==
  /\ NoReader \in ReaderTypes
  /\ NoReader.at = "free" /\ NoReader.cached = None
<1>1. None \in Grids /\ {} \in SUBSET Grids /\ "free" \in Steps
  BY DEF Grids, Steps
<1>2. NoReader \in ReaderTypes
  BY <1>1 DEF NoReader, ReaderTypes
<1> QED
  BY <1>2 DEF NoReader

\* What follows a fetch is a step of the reading.
LEMMA WithTypes ==
  ASSUME reader \in ReaderTypes, At(DOMAIN With)
  PROVE  /\ With[reader.at] \in Steps \ {"free", "leased", "sample", "end"}
         /\ Without[reader.at] \in Steps \ {"free", "leased", "sample", "end"}
         /\ reader.at \notin {"free", "leased", "sample", "end"}
<1>1. DOMAIN With = {"keep", "cache", "observe", "admit", "deferred", "host", "merge"}
  BY DEF With
<1>2. Attempt \in Steps \ {"free", "leased", "sample", "end"}
  BY DEF Attempt, Steps
<1>3. CASE reader.at = "keep"
  BY <1>2, <1>3 DEF With, Without, Steps
<1>4. CASE reader.at = "cache"
  BY <1>2, <1>4 DEF With, Without, Steps
<1>5. CASE reader.at = "observe"
  BY <1>2, <1>5 DEF With, Without, Steps
<1>6. CASE reader.at = "admit"
  BY <1>2, <1>6 DEF With, Without, Steps
<1>7. CASE reader.at = "deferred"
  BY <1>2, <1>7 DEF With, Without, Steps
<1>8. CASE reader.at = "host"
  BY <1>2, <1>8 DEF With, Without, Steps
<1>9. CASE reader.at = "merge"
  BY <1>2, <1>9 DEF With, Without, Steps
<1> QED
  BY <1>1, <1>3, <1>4, <1>5, <1>6, <1>7, <1>8, <1>9 DEF At

\* Outside a reading only the types matter.
LEMMA IdleKeeps ==
  ASSUME TypeOK', reader'.cached # None => reader'.cached \in reader'.fetched,
         reader'.at \in {"free", "leased", "sample", "end"}
  PROVE  IInv'
BY DEF IInv, MatrixReadable, SharedReadable, SharedInPlace, CachedFetched, Undisturbed,
       Reading, At

\* A step of a reading that leaves the grids where they are, whatever it makes
\* of the parameters and the tables.
SameGrids ==
  /\ resident'.grid = resident.grid /\ resident'.retained = resident.retained
  /\ resident'.next = resident.next
LEMMA CalmKeeps ==
  ASSUME IInv, TypeOK', SameGrids, Reading,
         reader'.turn = reader.turn, reader'.matrix = reader.matrix,
         reader'.resampled = reader.resampled,
         reader.fetched \subseteq reader'.fetched,
         reader'.breaks >= reader.breaks,
         reader'.cached # None => reader'.cached \in reader'.fetched
  PROVE  IInv'
<1>1. reader.breaks \in Nat /\ reader'.breaks \in Nat
  BY DEF IInv, TypeOK, ReaderTypes
<1>2. Undisturbed' => Undisturbed
  BY <1>1 DEF Undisturbed
<1>3. \A g : Readable(g) => Readable(g)'
  BY DEF Readable, Places, SameGrids
<1>4. MatrixReadable'
  BY <1>2, <1>3 DEF IInv, MatrixReadable
<1>5. SharedReadable'
  BY <1>2, <1>3 DEF IInv, SharedReadable
<1>6. SharedInPlace'
  BY <1>2 DEF IInv, SharedInPlace, SameGrids
<1> QED
  BY <1>4, <1>5, <1>6 DEF IInv, CachedFetched

\* A step that only moves on.
LEMMA GoKeeps ==
  ASSUME IInv, Reading, NEW at \in Steps, Go(at), resident' \in ResidentTypes, SameGrids
  PROVE  IInv'
<1>1. reader \in ReaderTypes /\ reader' = [reader EXCEPT !.at = at]
  BY DEF IInv, TypeOK, Go
<1>2. /\ reader' \in ReaderTypes
      /\ reader'.turn = reader.turn /\ reader'.matrix = reader.matrix
      /\ reader'.resampled = reader.resampled /\ reader'.fetched = reader.fetched
      /\ reader'.breaks = reader.breaks /\ reader'.cached = reader.cached
      /\ reader.breaks \in Nat
  BY <1>1 DEF ReaderTypes
<1>3. reader'.cached # None => reader'.cached \in reader'.fetched
  BY <1>2 DEF IInv, CachedFetched
<1> QED
  BY <1>2, <1>3, CalmKeeps DEF TypeOK

\* A reader one more of whose requests has broken off.
Broken(at, sampler, blocks) ==
  [reader EXCEPT !.at = at, !.sampler = sampler, !.blocks = blocks, !.breaks = @ + 1]
LEMMA BrokenTypes ==
  ASSUME reader \in ReaderTypes, NEW at \in Steps,
         NEW sampler \in BOOLEAN, NEW blocks \in BOOLEAN
  PROVE  LET broken == Broken(at, sampler, blocks)
         IN  /\ broken \in ReaderTypes
             /\ broken.turn = reader.turn /\ broken.matrix = reader.matrix
             /\ broken.resampled = reader.resampled /\ broken.fetched = reader.fetched
             /\ broken.breaks > 0 /\ broken.breaks >= reader.breaks
             /\ broken.cached = reader.cached /\ broken.at = at
<1>1. reader.breaks \in Nat
  BY DEF ReaderTypes
<1> DEFINE more == reader.breaks + 1
<1>2. more \in Nat /\ more > 0 /\ more >= reader.breaks
  BY <1>1
<1>3. Broken(at, sampler, blocks) = [reader EXCEPT !.at = at, !.sampler = sampler,
                                                  !.blocks = blocks, !.breaks = more]
  BY DEF Broken
<1> HIDE DEF more
<1> QED
  BY <1>2, <1>3 DEF ReaderTypes

\* A step after which one request more has broken off.
LEMMA BreakKeeps ==
  ASSUME IInv, Reading, NEW at \in Steps, resident' \in ResidentTypes,
         reader' = [reader EXCEPT !.at = at, !.breaks = @ + 1], SameGrids
  PROVE  IInv'
<1>1. reader \in ReaderTypes
  BY DEF IInv, TypeOK
<1>2. /\ reader' \in ReaderTypes
      /\ reader'.turn = reader.turn /\ reader'.matrix = reader.matrix
      /\ reader'.resampled = reader.resampled /\ reader'.fetched = reader.fetched
      /\ reader'.breaks >= reader.breaks /\ reader'.cached = reader.cached
  <2>1. /\ reader.sampler \in BOOLEAN /\ reader.blocks \in BOOLEAN
        /\ reader' = Broken(at, reader.sampler, reader.blocks)
    BY <1>1 DEF ReaderTypes, Broken
  <2>2. at \in Steps
    OBVIOUS
  <2> DEFINE broken == Broken(at, reader.sampler, reader.blocks)
  <2>3. /\ broken \in ReaderTypes
        /\ broken.turn = reader.turn /\ broken.matrix = reader.matrix
        /\ broken.resampled = reader.resampled /\ broken.fetched = reader.fetched
        /\ broken.breaks >= reader.breaks /\ broken.cached = reader.cached
    BY <1>1, <2>1, <2>2, BrokenTypes
  <2>4. reader' = broken
    BY <2>1
  <2> HIDE DEF broken
  <2> QED
    BY <2>3, <2>4, Zenon
<1>3. reader'.cached # None => reader'.cached \in reader'.fetched
  BY <1>2 DEF IInv, CachedFetched
<1> QED
  BY <1>2, <1>3, CalmKeeps DEF TypeOK

\* A step that learns of the metadata and the fixed patterns.
LEMMA ObservedKeeps ==
  ASSUME IInv, Reading, NEW at \in Steps, Observed(at), resident' \in ResidentTypes, SameGrids
  PROVE  IInv'
<1>1. reader \in ReaderTypes
  BY DEF IInv, TypeOK
<1>2. PICK sure \in BOOLEAN, agrees \in BOOLEAN :
        reader' = [reader EXCEPT !.at = at, !.sure = sure, !.agrees = agrees]
  BY DEF Observed
<1>3. /\ reader' \in ReaderTypes
      /\ reader'.turn = reader.turn /\ reader'.matrix = reader.matrix
      /\ reader'.resampled = reader.resampled /\ reader'.fetched = reader.fetched
      /\ reader'.breaks = reader.breaks /\ reader'.cached = reader.cached
      /\ reader.breaks \in Nat
  BY <1>1, <1>2 DEF ReaderTypes
<1>4. reader'.cached # None => reader'.cached \in reader'.fetched
  BY <1>3 DEF IInv, CachedFetched
<1> QED
  BY <1>3, <1>4, CalmKeeps DEF TypeOK

\* What a request may change of the device's state.
LEMMA ParametersTypes ==
  ASSUME IInv, NEW control \in {None, "v1", "v2"}, NEW rows \in BOOLEAN, NEW dirty \in BOOLEAN,
         resident' = [resident EXCEPT !.control = control, !.rows = rows, !.dirty = dirty]
  PROVE  resident' \in ResidentTypes /\ SameGrids
BY DEF IInv, TypeOK, ResidentTypes, SameGrids

\* And nothing of it.
LEMMA UntouchedTypes ==
  ASSUME IInv, UNCHANGED resident
  PROVE  resident' \in ResidentTypes /\ SameGrids
BY DEF IInv, TypeOK, SameGrids

\* A request that never reaches the device.
LEMMA IdlyKeeps ==
  ASSUME IInv, Reading, NEW at \in Steps, Idly(at)
  PROVE  IInv'
BY UntouchedTypes, GoKeeps DEF Idly

\* A request that broke off.
LEMMA LostKeeps ==
  ASSUME IInv, Reading, NEW op, NEW dirties, NEW at \in Steps, Lost(op, dirties, at)
  PROVE  IInv'
<1>1. reader' = [reader EXCEPT !.at = at, !.breaks = @ + 1]
  BY DEF Lost
<1>2. resident \in ResidentTypes
  BY DEF IInv, TypeOK
<1>3. resident' \in ResidentTypes /\ SameGrids
  <2>1. resident' = [resident EXCEPT !.control = IF dirties = "corrects" THEN @ ELSE None,
                                     !.dirty = IF dirties = "walks" THEN @ ELSE TRUE]
    BY DEF Lost
  <2> QED
    BY <1>2, <2>1 DEF ResidentTypes, SameGrids
<1> QED
  BY <1>1, <1>3, BreakKeeps

-----------------------------------------------------------------------------
(* The requests of a reading. *)

\* The request the device decides by itself.
LEMMA DecodeFusedKeeps ==
  ASSUME IInv, DecodeFused
  PROVE  IInv'
<1>1. Reading
  BY DEF DecodeFused, Reading, At
<1>2. {"walk", "end", "missed", "uncovered"} \subseteq Steps
  BY DEF Steps
<1> DEFINE op == Flagged("decode", resident.rows, resident.dirty)
<1>3. CASE Declines("walk")
  BY <1>1, <1>2, <1>3, IdlyKeeps DEF Declines
<1>4. CASE /\ resident' = [resident EXCEPT !.control = None, !.rows = TRUE, !.dirty = FALSE]
           /\ \E at \in {"end", "missed", "uncovered"} : Go(at)
  <2>1. resident' \in ResidentTypes /\ SameGrids
    BY <1>4, ParametersTypes
  <2> QED
    BY <1>1, <1>2, <1>4, <2>1, GoKeeps
<1>5. CASE Lost(op, "decodes", "walk")
  BY <1>1, <1>2, <1>5, LostKeeps
<1> QED
  BY <1>3, <1>4, <1>5 DEF DecodeFused

\* The walk on the device.
LEMMA WalkKeeps ==
  ASSUME IInv, Walk
  PROVE  IInv'
<1>1. Reading
  BY DEF Walk, Reading, At
<1>2. {"admission", "missed", "observe"} \subseteq Steps
  BY DEF Steps
<1> DEFINE op == Flagged("walk", resident.rows, FALSE)
           walked(control) == [resident EXCEPT !.control = control, !.rows = TRUE]
<1>3. CASE Declines("observe")
  BY <1>1, <1>2, <1>3, IdlyKeeps DEF Declines
<1>4. CASE \/ resident' = walked(Variant[reader.turn]) /\ Observed("admission")
           \/ resident' = walked(None) /\ Go("missed")
           \/ resident' = walked(None) /\ Go("observe")
  <2>1. resident' \in ResidentTypes /\ SameGrids
    <3>1. Variant[reader.turn] \in {None, "v1", "v2"}
      BY DEF IInv, TypeOK, ReaderTypes, Variant
    <3>2. PICK control \in {None, "v1", "v2"} : resident' = walked(control)
      BY <1>4, <3>1
    <3> QED
      BY <3>2 DEF IInv, TypeOK, ResidentTypes, SameGrids
  <2> QED
    BY <1>1, <1>2, <1>4, <2>1, GoKeeps, ObservedKeeps
<1>5. CASE Lost(op, "walks", "observe")
  BY <1>1, <1>2, <1>5, LostKeeps
<1> QED
  BY <1>3, <1>4, <1>5 DEF Walk

\* The correction on the device.
LEMMA CorrectOnDeviceKeeps ==
  ASSUME IInv, CorrectOnDevice
  PROVE  IInv'
<1>1. Reading
  BY DEF CorrectOnDevice, Reading, At
<1>2. {"end", "merge"} \subseteq Steps /\ Declined \in Steps
  BY DEF Steps, Declined
<1> DEFINE op == Flagged(IF resident.control = Variant[reader.turn] THEN "correct" ELSE "hosted",
                         TRUE, resident.dirty)
<1>3. CASE Idly(Declined)
  BY <1>1, <1>2, <1>3, IdlyKeeps
<1>4. CASE /\ resident' = [resident EXCEPT !.dirty = FALSE]
           /\ Go("end") \/ Go("merge")
  <2>1. resident' \in ResidentTypes /\ SameGrids
    BY <1>4 DEF IInv, TypeOK, ResidentTypes, SameGrids
  <2> QED
    BY <1>1, <1>2, <1>4, <2>1, GoKeeps
<1>5. CASE Lost(op, "corrects", Declined)
  BY <1>1, <1>2, <1>5, LostKeeps
<1> QED
  BY <1>3, <1>4, <1>5 DEF CorrectOnDevice

\* The host's part: observation, admission, fixed patterns, correction, merge.
LEMMA HostKeeps ==
  ASSUME IInv, \/ HostObserve \/ Admission \/ AdmitFixed \/ DeferredFixed
               \/ HostCorrect \/ HostMerge
  PROVE  IInv'
<1>1. Reading
  BY DEF HostObserve, Admission, AdmitFixed, DeferredFixed, HostCorrect, HostMerge, Reading, At
<1>2. {"admission", "missed", "correct", "host", "admit", "merge", "end"} \subseteq Steps
  BY DEF Steps
<1>3. CASE HostObserve
  <2>1. resident' \in ResidentTypes /\ SameGrids
    BY <1>3, UntouchedTypes DEF HostObserve
  <2> QED
    BY <1>1, <1>2, <1>3, <2>1, GoKeeps, ObservedKeeps DEF HostObserve
<1>4. CASE Admission
  BY <1>1, <1>2, <1>4, IdlyKeeps DEF Admission
<1>5. CASE AdmitFixed
  BY <1>1, <1>2, <1>5, IdlyKeeps DEF AdmitFixed
<1>6. CASE DeferredFixed
  BY <1>1, <1>2, <1>6, IdlyKeeps DEF DeferredFixed
<1>7. CASE HostCorrect \/ HostMerge
  <2>1. resident' \in ResidentTypes /\ SameGrids
    BY <1>7, UntouchedTypes DEF HostCorrect, HostMerge, Corrected
  <2> QED
    BY <1>1, <1>2, <1>7, <2>1, GoKeeps DEF HostCorrect, HostMerge
<1> QED
  BY <1>3, <1>4, <1>5, <1>6, <1>7

\* The pixels of the grid being read cross to the host, or do not.
LEMMA FetchKeeps ==
  ASSUME IInv, Fetch \/ FetchFails \/ HasPixels
  PROVE  IInv'
<1>1. /\ With[reader.at] \in Steps /\ Without[reader.at] \in Steps /\ Reading
      /\ reader \in ReaderTypes
  BY WithTypes DEF IInv, TypeOK, Fetch, FetchFails, HasPixels, Reading, At
<1>2. CASE Fetch
  <2>1. /\ reader' = [reader EXCEPT !.fetched = @ \cup {reader.matrix}, !.cached = NowCached,
                                    !.at = With[reader.at]]
        /\ UNCHANGED resident
    BY <1>2 DEF Fetch
  <2>2. NowCached \in {reader.cached, reader.matrix}
    BY DEF NowCached
  <2>3. /\ reader' \in ReaderTypes
        /\ reader'.turn = reader.turn /\ reader'.matrix = reader.matrix
        /\ reader'.resampled = reader.resampled
        /\ reader'.fetched = reader.fetched \cup {reader.matrix}
        /\ reader'.breaks = reader.breaks /\ reader'.cached = NowCached
        /\ reader.breaks \in Nat
    BY <1>1, <2>1, <2>2 DEF ReaderTypes
  <2>4. reader'.cached # None => reader'.cached \in reader'.fetched
    BY <2>2, <2>3 DEF IInv, CachedFetched
  <2> QED
    BY <1>1, <2>1, <2>3, <2>4, UntouchedTypes, CalmKeeps DEF TypeOK
<1>3. CASE FetchFails
  <2>1. resident' \in ResidentTypes /\ SameGrids
    BY <1>3, UntouchedTypes DEF FetchFails
  <2> QED
    BY <1>1, <1>3, <2>1, GoKeeps, BreakKeeps DEF FetchFails
<1>4. CASE HasPixels
  BY <1>1, <1>4, IdlyKeeps DEF HasPixels
<1> QED
  BY <1>2, <1>3, <1>4

-----------------------------------------------------------------------------
(* Sampling. *)

\* A disturbed reading owes nothing but its types.
LEMMA DisturbedKeeps ==
  ASSUME TypeOK', reader'.cached # None => reader'.cached \in reader'.fetched,
         reader'.breaks > 0
  PROVE  IInv'
<1>1. reader'.breaks # 0
  BY DEF TypeOK, ReaderTypes
<1> QED
  BY <1>1 DEF IInv, MatrixReadable, SharedReadable, SharedInPlace, CachedFetched, Undisturbed

\* A few slots have a least one.
LEMMA LeastOf ==
  ASSUME NEW S \in SUBSET (0 .. 3), S # {}
  PROVE  Min(S) \in S
<1>1. \E s \in S : \A t \in S : s <= t
  <2>1. PICK some \in S : TRUE
    OBVIOUS
  <2>2. CASE 0 \in S
    BY <2>2
  <2>3. CASE 0 \notin S /\ 1 \in S
    BY <2>3
  <2>4. CASE 0 \notin S /\ 1 \notin S /\ 2 \in S
    BY <2>4
  <2>5. CASE 0 \notin S /\ 1 \notin S /\ 2 \notin S
    BY <2>1, <2>5
  <2> QED
    BY <2>2, <2>3, <2>4, <2>5
<1> QED
  BY <1>1 DEF Min

\* The slot a displaced grid moves to is a slot.
LEMMA SlotTypes ==
  ASSUME resident \in ResidentTypes
  PROVE  /\ Keep => Slot \in Slots
         /\ NextSlot \in Slots
<1>1. resident.next \in 1 .. 3
  BY DEF ResidentTypes, Slots
<1>2. Free \subseteq 1 .. 3
  BY DEF Free, Slots
<1>3. ASSUME Free # {} PROVE Min(Free) \in Free
  BY <1>2, <1>3, LeastOf
<1>4. Keep => Slot \in 1 .. 3
  BY <1>1, <1>2, <1>3 DEF Slot
<1>5. Cardinality(1 .. 3) = 3
  <2>1. 1 \in Int /\ 3 \in Int /\ ~(1 > 3) /\ 3 - 1 + 1 = 3
    OBVIOUS
  <2>2. Cardinality(1 .. 3) = IF 1 > 3 THEN 0 ELSE 3 - 1 + 1
    BY <2>1, FS_Interval, Zenon
  <2> QED
    BY <2>1, <2>2
<1>6. (resident.next % 3) + 1 \in 1 .. 3
  BY <1>1
<1>7. NextSlot \in 1 .. 3
  BY <1>1, <1>5, <1>6 DEF NextSlot, Slots
<1> QED
  BY <1>4, <1>7 DEF Slots

\* What the device holds after a sampling was settled.
LEMMA SettledTypes ==
  ASSUME resident \in ResidentTypes, NEW grid \in Grids, NEW kept \in Grids,
         resident' = Settled(grid, kept)
  PROVE  /\ resident' \in ResidentTypes
         /\ resident'.grid = grid
         /\ Keep => Slot \in Slots /\ resident'.retained = [resident.retained EXCEPT ![Slot] = kept]
<1>1. Keep => Slot \in Slots
  BY SlotTypes
<1>2. NextSlot \in Slots
  BY SlotTypes
<1> DEFINE retained == IF Keep THEN [resident.retained EXCEPT ![Slot] = kept]
                       ELSE resident.retained
<1>3. resident.retained \in [Slots -> Grids]
  BY DEF ResidentTypes
<1>4. retained \in [Slots -> Grids]
  BY <1>1, <1>3
<1>5. resident' = [resident EXCEPT !.grid = grid, !.control = None, !.next = NextSlot,
                                   !.retained = retained]
  BY DEF Settled
<1>6. Keep => retained = [resident.retained EXCEPT ![Slot] = kept]
  OBVIOUS
<1> HIDE DEF retained
<1>7. /\ resident' \in ResidentTypes
      /\ resident'.grid = grid /\ resident'.retained = retained
  BY <1>2, <1>4, <1>5 DEF ResidentTypes
<1> QED
  BY <1>1, <1>6, <1>7

\* The grid that was sampled before stays on the device or has its pixels on the host.
LEMMA DisplacedReadable ==
  ASSUME resident \in ResidentTypes, NEW grid \in Grids, resident' = Settled(grid, resident.grid),
         NEW old, old = resident.grid, old # None, reader.fetched \subseteq reader'.fetched
  PROVE  Readable(old)'
<1>1. resident.grid \in Grids /\ resident.retained \in [Slots -> Grids]
  BY DEF ResidentTypes
<1>2. CASE old \in reader.fetched
  BY <1>2 DEF Readable
<1>3. CASE old \notin reader.fetched
  <2>1. Keep
    BY <1>3 DEF Keep
  <2>2. Slot \in Slots /\ resident'.retained = [resident.retained EXCEPT ![Slot] = resident.grid]
    BY <1>1, <2>1, SettledTypes
  <2> QED
    BY <1>1, <2>2 DEF Readable, Places
<1> QED
  BY <1>2, <1>3

\* A sampling that failed leaves slots and grids behind, whichever they are.
LEMMA SampleFailsTypes ==
  ASSUME resident \in ResidentTypes, NEW grid, SampleFails(grid)
  PROVE  resident' \in ResidentTypes
<1>1. None \in Grids
  BY DEF Grids
<1>2. CASE resident' \in {resident, [resident EXCEPT !.control = None]}
  BY <1>2 DEF ResidentTypes
<1>3. CASE resident' = Settled(None, None)
  BY <1>1, <1>3, SettledTypes
<1> QED
  BY <1>2, <1>3 DEF SampleFails

\* The grid the variants share is sampled on the device or on the host.
LEMMA SampleSharedKeeps ==
  ASSUME IInv, SampleShared
  PROVE  IInv'
<1>1. /\ reader \in ReaderTypes /\ resident \in ResidentTypes /\ reader.at = "sample"
      /\ reader.breaks \in Nat /\ reader.sampler \in BOOLEAN /\ reader.blocks \in BOOLEAN
  BY DEF IInv, TypeOK, SampleShared, At, ReaderTypes
<1>2. reader.cached # None => reader.cached \in reader.fetched
  BY DEF IInv, CachedFetched
<1>3. {"sample", "end", "keep", "fused", "walk"} \subseteq Steps /\ Shared \in Grids
      /\ Shared # None
  BY DEF Steps, Grids, Shared, None
<1>4. CASE Idly("end")
  <2>1. reader' = [reader EXCEPT !.at = "end"] /\ resident' = resident
    BY <1>4 DEF Idly, Go
  <2>2. reader' \in ReaderTypes /\ reader'.at = "end"
        /\ reader'.cached = reader.cached /\ reader'.fetched = reader.fetched
    BY <1>1, <1>3, <2>1 DEF ReaderTypes
  <2> QED
    BY <1>1, <1>2, <2>1, <2>2, IdleKeeps DEF TypeOK
<1>5. CASE /\ Sampled(Shared)
           /\ Holds(Shared, IF reader.traced THEN "keep" ELSE "fused")
  <2>1. resident' = Settled(Shared, resident.grid) /\ resident.grid \in Grids
    BY <1>1, <1>5 DEF Sampled, ResidentTypes
  <2>2. resident' \in ResidentTypes /\ resident'.grid = Shared
    BY <1>1, <1>3, <2>1, SettledTypes
  <2>3. PICK at \in {"keep", "fused"} : reader' = [reader EXCEPT !.matrix = Shared, !.at = at]
    BY <1>5 DEF Holds
  <2>4. /\ reader' \in ReaderTypes /\ reader'.matrix = Shared
        /\ reader'.cached = reader.cached /\ reader'.fetched = reader.fetched
    BY <1>1, <1>3, <2>3 DEF ReaderTypes
  <2>5. Readable(Shared)'
    BY <2>2 DEF Readable, Places
  <2> QED
    BY <1>2, <2>2, <2>4, <2>5
       DEF IInv, TypeOK, MatrixReadable, SharedReadable, SharedInPlace, CachedFetched
<1>6. CASE /\ SampleFails(Shared)
           /\ reader' = [reader EXCEPT !.sampler = FALSE, !.breaks = @ + 1]
  <2>1. resident' \in ResidentTypes
    BY <1>1, <1>6, SampleFailsTypes
  <2>2. reader' = Broken(reader.at, FALSE, reader.blocks)
    BY <1>1, <1>6 DEF Broken, ReaderTypes
  <2>3. reader.at \in Steps
    BY <1>1, <1>3
  <2> DEFINE broken == Broken(reader.at, FALSE, reader.blocks)
  <2>4. /\ broken \in ReaderTypes /\ broken.at = reader.at
        /\ broken.cached = reader.cached /\ broken.fetched = reader.fetched
    BY <1>1, <2>3, BrokenTypes
  <2>5. reader' = broken
    BY <2>2
  <2> HIDE DEF broken
  <2>6. /\ reader' \in ReaderTypes /\ reader'.at = "sample"
        /\ reader'.cached = reader.cached /\ reader'.fetched = reader.fetched
    BY <1>1, <2>4, <2>5, Zenon
  <2> QED
    BY <1>2, <2>1, <2>6, IdleKeeps DEF TypeOK
<1>7. CASE /\ UNCHANGED resident
           /\ reader' = [reader EXCEPT !.matrix = Shared, !.fetched = @ \cup {Shared},
                                       !.at = IF reader.traced THEN "walk" ELSE "fused"]
  <2>1. /\ reader' \in ReaderTypes /\ reader'.matrix = Shared
        /\ reader'.cached = reader.cached /\ reader'.fetched = reader.fetched \cup {Shared}
    BY <1>1, <1>3, <1>7 DEF ReaderTypes
  <2>2. Readable(Shared)' /\ Shared \in reader'.fetched
    BY <2>1 DEF Readable
  <2> QED
    BY <1>1, <1>2, <1>7, <2>1, <2>2
       DEF IInv, TypeOK, MatrixReadable, SharedReadable, SharedInPlace, CachedFetched
<1> QED
  BY <1>4, <1>5, <1>6, <1>7 DEF SampleShared

\* A variant samples its own grid: the shared one makes room and stays readable,
\* which the first variant owes to the second.
LEMMA SampleAlignedKeeps ==
  ASSUME IInv, SampleAligned
  PROVE  IInv'
<1>1. /\ reader \in ReaderTypes /\ resident \in ResidentTypes /\ reader.at = "missed"
      /\ reader.resampled = FALSE /\ Reading
      /\ reader.breaks \in Nat /\ reader.sampler \in BOOLEAN /\ reader.blocks \in BOOLEAN
      /\ reader.turn \in {1, 2} /\ reader.cached \in Grids
  BY DEF IInv, TypeOK, SampleAligned, CanResample, At, Reading, ReaderTypes
<1>2. reader.cached # None => reader.cached \in reader.fetched
  BY DEF IInv, CachedFetched
<1>3. {"missed", "cache", Attempt} \subseteq Steps /\ Shared \in Grids /\ Shared # None
  BY DEF Steps, Grids, Shared, None, Attempt
<1> DEFINE grid == Resample[reader.turn]
           then == IF reader.variants > 1 THEN "cache" ELSE Attempt
<1>4. grid \in Grids /\ then \in Steps
  BY <1>1, <1>3 DEF Resample, Grids
<1>5. CASE reader.cached # None /\ Aligned(reader.cached, Attempt) /\ UNCHANGED resident
  <2>1. reader' = [reader EXCEPT !.matrix = reader.cached, !.resampled = TRUE, !.at = Attempt,
                                 !.sure = FALSE, !.agrees = FALSE]
    BY <1>5 DEF Aligned
  <2>2. /\ reader' \in ReaderTypes /\ reader'.matrix = reader.cached /\ reader'.resampled = TRUE
        /\ reader'.cached = reader.cached /\ reader'.fetched = reader.fetched
        /\ reader'.turn = reader.turn /\ reader'.breaks = reader.breaks
    BY <1>1, <1>3, <2>1 DEF ReaderTypes
  <2>3. Readable(reader.matrix)'
    BY <1>2, <1>5, <2>2 DEF Readable
  <2>4. SharedReadable'
    BY <1>1, <1>5, <2>2 DEF IInv, SharedReadable, Undisturbed, Readable, Places
  <2> QED
    BY <1>1, <1>2, <1>5, <2>2, <2>3, <2>4
       DEF IInv, TypeOK, MatrixReadable, SharedInPlace, CachedFetched
<1>6. CASE Sampled(grid) /\ Aligned(grid, then)
  <2>1. resident' = Settled(grid, resident.grid) /\ resident.grid \in Grids
    BY <1>1, <1>6 DEF Sampled, ResidentTypes
  <2>2. resident' \in ResidentTypes /\ resident'.grid = grid
    BY <1>1, <1>4, <2>1, SettledTypes
  <2>3. reader' = [reader EXCEPT !.matrix = grid, !.resampled = TRUE, !.at = then,
                                 !.sure = FALSE, !.agrees = FALSE]
    BY <1>6 DEF Aligned
  <2> HIDE DEF grid, then
  <2>4. /\ reader' \in ReaderTypes /\ reader'.matrix = grid /\ reader'.resampled = TRUE
        /\ reader'.cached = reader.cached /\ reader'.fetched = reader.fetched
        /\ reader'.turn = reader.turn /\ reader'.breaks = reader.breaks
    BY <1>1, <1>4, <2>3 DEF ReaderTypes
  <2>5. Readable(reader.matrix)'
    BY <2>2, <2>4 DEF Readable, Places
  <2>6. SharedReadable'
    <3>1. SUFFICES ASSUME Undisturbed', reader'.turn = 1 PROVE Readable(Shared)'
      BY DEF SharedReadable
    <3>2. Undisturbed /\ reader.turn = 1
      BY <1>1, <2>4, <3>1 DEF Undisturbed
    <3>3. Shared \in reader.fetched \/ resident.grid = Shared
      BY <1>1, <3>2 DEF IInv, SharedInPlace
    <3>4. CASE Shared \in reader.fetched
      BY <2>4, <3>4 DEF Readable
    <3>5. CASE resident.grid = Shared
      BY <1>1, <1>3, <1>4, <2>1, <2>4, <3>5, DisplacedReadable
    <3> QED
      BY <3>3, <3>4, <3>5
  <2> QED
    BY <1>2, <2>2, <2>4, <2>5, <2>6
       DEF IInv, TypeOK, MatrixReadable, SharedInPlace, CachedFetched
<1>7. CASE /\ SampleFails(grid)
           /\ reader' = [reader EXCEPT !.blocks = FALSE, !.breaks = @ + 1]
  <2>1. resident' \in ResidentTypes
    BY <1>1, <1>7, SampleFailsTypes
  <2>2. reader' = Broken(reader.at, reader.sampler, FALSE)
    BY <1>1, <1>7 DEF Broken, ReaderTypes
  <2>3. /\ reader' \in ReaderTypes /\ reader'.breaks > 0
        /\ reader'.cached = reader.cached /\ reader'.fetched = reader.fetched
    BY <1>1, <1>3, <2>2, BrokenTypes, ZenonT(30)
  <2> QED
    BY <1>2, <2>1, <2>3, DisturbedKeeps DEF TypeOK
<1>8. CASE /\ UNCHANGED resident
           /\ reader' = [reader EXCEPT !.matrix = grid, !.resampled = TRUE, !.at = Attempt,
                           !.sure = FALSE, !.agrees = FALSE, !.fetched = @ \cup {grid},
                           !.cached = IF reader.variants > 1 /\ @ = None THEN grid ELSE @]
  <2> DEFINE cached == IF reader.variants > 1 /\ reader.cached = None THEN grid ELSE reader.cached
  <2>1. cached \in {grid, reader.cached}
    OBVIOUS
  <2>2. reader' = [reader EXCEPT !.matrix = grid, !.resampled = TRUE, !.at = Attempt,
                           !.sure = FALSE, !.agrees = FALSE, !.fetched = @ \cup {grid},
                           !.cached = cached]
    BY <1>8
  <2> HIDE DEF grid, cached
  <2>3. /\ reader' \in ReaderTypes /\ reader'.matrix = grid /\ reader'.resampled = TRUE
        /\ reader'.cached = cached /\ reader'.fetched = reader.fetched \cup {grid}
        /\ reader'.turn = reader.turn /\ reader'.breaks = reader.breaks
    BY <1>1, <1>3, <1>4, <2>1, <2>2 DEF ReaderTypes
  <2>4. Readable(reader.matrix)'
    BY <2>3 DEF Readable
  <2>5. SharedReadable'
    BY <1>1, <1>8, <2>3 DEF IInv, SharedReadable, Undisturbed, Readable, Places
  <2>6. CachedFetched'
    BY <1>2, <2>1, <2>3 DEF CachedFetched
  <2> QED
    BY <1>1, <1>8, <2>3, <2>4, <2>5, <2>6
       DEF IInv, TypeOK, MatrixReadable, SharedInPlace
<1> QED
  BY <1>5, <1>6, <1>7, <1>8 DEF SampleAligned

\* The next variant comes back to the shared grid.
LEMMA NextVariantKeeps ==
  ASSUME IInv, NextVariant
  PROVE  IInv'
<1>1. /\ reader \in ReaderTypes /\ Reading
      /\ UNCHANGED resident
  BY DEF IInv, TypeOK, NextVariant, Reading, At
<1>2. reader.turn \in {1, 2} /\ reader.variants \in {1, 2}
  BY <1>1 DEF ReaderTypes
<1>3. CASE Go("end")
  <2>1. "end" \in Steps
    BY DEF Steps
  <2> QED
    BY <1>1, <1>3, <2>1, UntouchedTypes, GoKeeps
<1>4. CASE /\ reader.turn < reader.variants
           /\ reader' = [reader EXCEPT !.turn = @ + 1, !.matrix = Shared, !.resampled = FALSE,
                                       !.at = Attempt, !.sure = FALSE, !.agrees = FALSE]
  <2>1. reader.turn = 1 /\ reader.turn + 1 = 2
    BY <1>2, <1>4
  <2>2. Shared \in Grids /\ Attempt \in Steps
    BY DEF Grids, Shared, Steps, Attempt
  <2>3. reader' = [reader EXCEPT !.turn = 2, !.matrix = Shared, !.resampled = FALSE,
                                 !.at = Attempt, !.sure = FALSE, !.agrees = FALSE]
    BY <1>4, <2>1
  <2>4. /\ reader' \in ReaderTypes /\ reader'.matrix = Shared /\ reader'.turn = 2
        /\ reader'.cached = reader.cached /\ reader'.fetched = reader.fetched
        /\ reader'.breaks = reader.breaks
    BY <1>1, <2>2, <2>3 DEF ReaderTypes
  <2>5. Undisturbed' => Readable(Shared)
    BY <1>1, <2>1, <2>4 DEF IInv, SharedReadable, Undisturbed
  <2>6. MatrixReadable'
    BY <1>1, <2>4, <2>5 DEF MatrixReadable, Readable, Places
  <2>7. reader'.turn # 1
    BY <2>4
  <2> QED
    BY <1>1, <2>4, <2>6, <2>7 DEF IInv, TypeOK, SharedReadable, SharedInPlace, CachedFetched
<1> QED
  BY <1>3, <1>4 DEF NextVariant

-----------------------------------------------------------------------------
(* Between readings. *)

\* A context is leased and given back, and takes a batch in between.
LEMMA LeaseKeeps ==
  ASSUME IInv, Lease \/ Batch \/ Begin \/ Release
  PROVE  IInv'
<1>1. /\ reader \in ReaderTypes /\ resident \in ResidentTypes
      /\ reader.at \in {"free", "leased"}
      /\ reader.cached # None => reader.cached \in reader.fetched
  BY DEF IInv, TypeOK, CachedFetched, Lease, Batch, Begin, Release, At
<1>2. {"free", "leased", "sample"} \subseteq Steps /\ None \in Grids
  BY DEF Steps, Grids
<1>3. NoReader \in ReaderTypes /\ NoReader.at = "free" /\ NoReader.cached = None
  BY NoReaderTypes
<1>4. CASE Lease
  <2>1. PICK traced \in BOOLEAN, variants \in {1, 2} :
          reader' = [NoReader EXCEPT !.at = "leased", !.traced = traced, !.variants = variants]
    BY <1>4 DEF Lease
  <2>2. reader' \in ReaderTypes /\ reader'.at = "leased" /\ reader'.cached = None
    BY <1>2, <1>3, <2>1 DEF ReaderTypes
  <2> QED
    BY <1>1, <1>4, <2>2, IdleKeeps DEF TypeOK, Lease
<1>5. CASE Batch
  <2> DEFINE lost == [resident EXCEPT !.grid = None, !.control = None]
  <2>1. \/ resident' = [lost EXCEPT !.rows = TRUE, !.dirty = FALSE]
        \/ resident' = lost
        \/ resident' = [lost EXCEPT !.dirty = TRUE]
    BY <1>5 DEF Batch
  <2>2. lost \in ResidentTypes
    BY <1>1, <1>2 DEF ResidentTypes
  <2> HIDE DEF lost
  <2>3. resident' \in ResidentTypes
    BY <2>1, <2>2 DEF ResidentTypes
  <2>4. reader' = reader
    BY <1>5 DEF Batch
  <2> QED
    BY <1>1, <2>3, <2>4, IdleKeeps DEF TypeOK
<1>6. CASE Begin
  <2>1. reader' = [reader EXCEPT !.at = "sample"] /\ resident' = resident
    BY <1>6 DEF Begin, Idly, Go
  <2>2. reader' \in ReaderTypes /\ reader'.at = "sample"
        /\ reader'.cached = reader.cached /\ reader'.fetched = reader.fetched
    BY <1>1, <1>2, <2>1 DEF ReaderTypes
  <2> QED
    BY <1>1, <2>1, <2>2, IdleKeeps DEF TypeOK
<1>7. CASE Release
  <2>1. reader' = NoReader /\ resident' = resident
    BY <1>7 DEF Release
  <2> QED
    BY <1>1, <1>3, <2>1, IdleKeeps DEF TypeOK
<1> QED
  BY <1>4, <1>5, <1>6, <1>7

\* A hypothesis ends; its grids are nobody's, or no grids any more.
LEMMA EndKeeps ==
  ASSUME IInv, End
  PROVE  IInv'
<1>1. reader \in ReaderTypes /\ resident \in ResidentTypes
  BY DEF IInv, TypeOK
<1>2. "leased" \in Steps /\ \A g : Ended(g) \in Grids
  BY DEF Steps, Grids, Ended
<1>3. NoReader \in ReaderTypes /\ NoReader.at = "free" /\ NoReader.cached = None
  BY NoReaderTypes
<1>4. reader' \in ReaderTypes /\ reader'.at = "leased" /\ reader'.cached = None
  BY <1>1, <1>2, <1>3 DEF End, ReaderTypes
<1> DEFINE retained == [s \in Slots |-> Ended(resident.retained[s])]
<1>5. retained \in [Slots -> Grids] /\ None \in {None, "v1", "v2"}
  BY <1>2
<1>6. resident' = [resident EXCEPT !.grid = Ended(resident.grid), !.retained = retained,
                                   !.control = None]
  BY DEF End
<1> HIDE DEF retained
<1>7. resident' \in ResidentTypes
  BY <1>1, <1>2, <1>5, <1>6 DEF ResidentTypes
<1> QED
  BY <1>4, <1>7, IdleKeeps DEF TypeOK

-----------------------------------------------------------------------------
(* The theorems. *)

\* No context holds anything to begin with.
LEMMA InitSound == GridInit => IInv
<1> SUFFICES ASSUME GridInit PROVE IInv
  OBVIOUS
<1>1. reader \in ReaderTypes /\ reader.at = "free" /\ reader.cached = None
  BY NoReaderTypes DEF GridInit
<1>2. resident \in ResidentTypes
  BY DEF GridInit, ResidentTypes, Grids, Slots
<1> QED
  BY <1>1, <1>2 DEF IInv, TypeOK, MatrixReadable, SharedReadable, SharedInPlace, CachedFetched,
                    Undisturbed, Reading, At

\* Every request, whatever its command list does, keeps the grids readable.
LEMMA StepSound == IInv /\ [Next]_vars => IInv'
<1> SUFFICES ASSUME IInv, [Next]_vars PROVE IInv'
  OBVIOUS
<1>1. CASE Lease \/ Batch \/ Begin \/ Release
  BY <1>1, LeaseKeeps
<1>2. CASE End
  BY <1>2, EndKeeps
<1>3. CASE Measure \/ UNCHANGED vars
  <2>1. UNCHANGED <<resident, reader>>
    BY <1>3 DEF Measure, vars
  <2> QED
    BY <2>1 DEF IInv, TypeOK, MatrixReadable, SharedReadable, SharedInPlace, CachedFetched,
                Undisturbed, Reading, At, Readable, Places
<1>4. CASE SampleShared
  BY <1>4, SampleSharedKeeps
<1>5. CASE SampleAligned
  BY <1>5, SampleAlignedKeeps
<1>6. CASE NextVariant
  BY <1>6, NextVariantKeeps
<1>7. CASE Fetch \/ FetchFails \/ HasPixels
  BY <1>7, FetchKeeps
<1>8. CASE DecodeFused
  BY <1>8, DecodeFusedKeeps
<1>9. CASE Walk
  BY <1>9, WalkKeeps
<1>10. CASE CorrectOnDevice
  BY <1>10, CorrectOnDeviceKeeps
<1>11. CASE \/ HostObserve \/ Admission \/ AdmitFixed \/ DeferredFixed
            \/ HostCorrect \/ HostMerge
  BY <1>11, HostKeeps
<1> QED
  BY <1>1, <1>2, <1>3, <1>4, <1>5, <1>6, <1>7, <1>8, <1>9, <1>10, <1>11 DEF Next

\* Unless a request broke off, the grid a reading is at can be read: the pixels of
\* a traced grid, a cached resample or a repeated walk are where MaterializeGrid
\* looks for them, however many samplings displaced it.
THEOREM MatrixReadableCorrect == Spec => []MatrixReadable
<1>1. IInv => MatrixReadable
  BY DEF IInv
<1> QED
  BY <1>1, InitSound, StepSound, PTL DEF Spec

\* While a variant is to come the grid the variants share is in place, in a slot,
\* or on the host, unless something broke.
THEOREM SharedReadableCorrect == Spec => []SharedGridStaysReadable
<1>1. IInv => SharedGridStaysReadable
  <2> SUFFICES ASSUME IInv, At({"missed"}), reader.turn < reader.variants, reader.breaks = 0
               PROVE  Readable(Shared)
    BY DEF SharedGridStaysReadable, Readable
  <2>1. reader.turn = 1
    BY DEF IInv, TypeOK, ReaderTypes
  <2> QED
    BY <2>1 DEF IInv, SharedReadable, Undisturbed, Reading, At
<1> QED
  BY <1>1, InitSound, StepSound, PTL DEF Spec

-----------------------------------------------------------------------------
(* What the buffers hold.  The lists enter by EffectsAssumption alone.      *)

OwnGrids == {Shared, "first", "second"}

\* A reading is at a grid of its own hypothesis.
Located ==
  /\ Reading => reader.matrix \in OwnGrids
  /\ reader.cached \in OwnGrids \cup {None}

\* The device's books are true of this hypothesis's grids: the one it says it
\* sampled last is in the result buffer, and the displaced ones are in their slots.
Held ==
  /\ resident.grid \in OwnGrids => \A b \in GridBuffers : content[b] = {resident.grid}
  /\ \A s \in Slots : resident.retained[s] \in OwnGrids
                       => content[RetainBuffer(s)] = {resident.retained[s]}

\* Tables that count as built are whole.
TablesTrue ==
  /\ DOMAIN content = Live
  /\ \A t \in Tables : content[t] \subseteq {Torn}
  /\ \A b \in Built(resident.rows, resident.dirty) : Torn \notin content[b]

\* A correction that finds the walk of its own variant finds its parameters, and
\* a reading the host observes finds none.
Walked    == resident.control = Variant[reader.turn]
OwnStamps == {reader.matrix, Variant[reader.turn]}
WalkTrue ==
  /\ At({"admission", "correct"}) /\ Owned /\ Walked
       => \A b \in Parameters : content[b] \subseteq OwnStamps
  /\ At({"observe", "hostObserve"}) => ~(Owned /\ Walked)

CInv == Located /\ Held /\ TablesTrue /\ WalkTrue

-----------------------------------------------------------------------------
(* Buffers and effects. *)

\* The buffers have names of their own.
LEMMA BufferNames ==
  /\ Live = GridBuffers \cup Retains \cup Parameters \cup Tables
  /\ "now" \notin Live
  /\ \A s \in Slots : RetainBuffer(s) \in Retains
  /\ \A s, t \in Slots : RetainBuffer(s) = RetainBuffer(t) => s = t
  /\ (GridBuffers \cup Retains \cup Parameters) \cap Tables = {}
  /\ (GridBuffers \cup Parameters) \cap Retains = {}
<1>1. RetainBuffer(1) = "sampleRetain1" /\ RetainBuffer(2) = "sampleRetain2"
      /\ RetainBuffer(3) = "sampleRetain3"
  BY DEF RetainBuffer
<1>2. \A s \in Slots : s = 1 \/ s = 2 \/ s = 3
  BY DEF Slots
<1>3. Retains = {"sampleRetain1", "sampleRetain2", "sampleRetain3"}
  <2>1. 1 \in Slots /\ 2 \in Slots /\ 3 \in Slots
    BY DEF Slots
  <2> QED
    BY <1>1, <1>2, <2>1 DEF Retains
<1>4. Live = GridBuffers \cup Retains \cup Parameters \cup Tables
  BY EffectsAssumption
<1>5. "now" \notin Live
  BY <1>3, <1>4 DEF GridBuffers, Parameters, Tables
<1>6. \A s \in Slots : RetainBuffer(s) \in Retains
  BY DEF Retains
<1>7. \A s, t \in Slots : RetainBuffer(s) = RetainBuffer(t) => s = t
  BY <1>1, <1>2
<1>8. (GridBuffers \cup Retains \cup Parameters) \cap Tables = {}
  BY <1>3 DEF GridBuffers, Parameters, Tables
<1>9. (GridBuffers \cup Parameters) \cap Retains = {}
  BY <1>3 DEF GridBuffers, Parameters
<1> QED
  BY <1>4, <1>5, <1>6, <1>7, <1>8, <1>9

\* A buffer that was not torn keeps its stamps; a table keeps none but torn.
LEMMA WholeOf ==
  ASSUME NEW b, NEW stamps
  PROVE  /\ Torn \notin stamps /\ b \notin Tables => Whole(b, stamps) = stamps
         /\ Torn \notin stamps => Torn \notin Whole(b, stamps)
         /\ b \in Tables => Whole(b, stamps) \subseteq {Torn}
BY DEF Whole

\* Nothing has happened to the buffer.
Stays(b) == content'[b] = content[b] \/ content'[b] = Whole(b, content[b])

\* A submission, through or broken off, leaves what its list leaves, and the
\* tables hold nothing but whether they are torn.
LEMMA Submitted ==
  ASSUME DOMAIN content = Live, NEW effect, NEW stamp,
         Does(effect, stamp) \/ Breaks(effect, stamp)
  PROVE  /\ DOMAIN content' = Live
         /\ \A b \in Tables : content'[b] \subseteq {Torn}
         /\ \A b \in Live : effect.origin[b] = {b} => Stays(b)
<1>1. Tables \subseteq Live /\ "now" \notin Live
  BY BufferNames
<1>2. ASSUME NEW b \in Live PROVE StampsOf({b}, content, {stamp}) = content[b]
  <2>1. {b} \cap DOMAIN content = {b} /\ "now" \notin {b}
    BY <1>1
  <2>2. UNION {content[x] : x \in {b}} = content[b]
    OBVIOUS
  <2> QED
    BY <2>1, <2>2 DEF StampsOf
<1>3. CASE Does(effect, stamp)
  <2>1. content' = [b \in Live |-> Whole(b, StampsOf(effect.origin[b], content, {stamp}))]
    BY <1>3 DEF Does
  <2> QED
    BY <1>1, <1>2, <2>1, WholeOf DEF Stays
<1>4. CASE Breaks(effect, stamp)
  <2> DEFINE torn == TornBy(effect, content, {stamp})
  <2>1. content' = [b \in Live |-> Whole(b, torn[b])]
    BY <1>4 DEF Breaks
  <2>2. \A b \in Live : effect.origin[b] = {b} => torn[b] = content[b]
    BY DEF TornBy
  <2> HIDE DEF torn
  <2> QED
    BY <1>1, <2>1, <2>2, WholeOf DEF Stays
<1> QED
  BY <1>3, <1>4

\* Stamps come from where the origins lead.
LEMMA Stamped ==
  ASSUME DOMAIN content = Live, NEW origins, NEW from, Drawn(origins) \subseteq from,
         NEW stamp, NEW S, "now" \in from => stamp \in S,
         \A x \in from \cap Live : content[x] \subseteq S
  PROVE  StampsOf(origins, content, {stamp}) \subseteq S
<1>1. "now" \in origins => "now" \in from
  BY DEF Drawn
<1>2. \A x \in origins \cap DOMAIN content : x \in from \cap Live
  BY DEF Drawn
<1> QED
  BY <1>1, <1>2 DEF StampsOf

\* Exactly one origin.
LEMMA StampedOnce ==
  ASSUME DOMAIN content = Live, NEW origins, NEW stamp, NEW b \in Live, Drawn(origins) = {b}
  PROVE  StampsOf(origins, content, {stamp}) = content[b]
<1>1. "now" \notin origins /\ origins \cap DOMAIN content = {b}
  BY BufferNames DEF Drawn
<1>2. UNION {content[x] : x \in {b}} = content[b]
  OBVIOUS
<1> QED
  BY <1>1, <1>2 DEF StampsOf

\* Nothing but what the submission brings.
LEMMA StampedNow ==
  ASSUME DOMAIN content = Live, NEW origins, NEW stamp, Drawn(origins) = {"now"}
  PROVE  StampsOf(origins, content, {stamp}) = {stamp}
<1>1. "now" \in origins /\ origins \cap DOMAIN content = {}
  BY BufferNames DEF Drawn
<1> QED
  BY <1>1 DEF StampsOf

\* The stamps of grids and variants are whole.
LEMMA OwnWhole ==
  /\ Torn \notin OwnGrids /\ None \notin OwnGrids /\ Old \notin OwnGrids /\ Earlier # Torn
  /\ reader \in ReaderTypes => Variant[reader.turn] \in {"v1", "v2"} /\ Torn # Variant[reader.turn]
  /\ reader \in ReaderTypes /\ reader.matrix \in OwnGrids => Torn \notin OwnStamps
<1>1. reader \in ReaderTypes => Variant[reader.turn] \in {"v1", "v2"}
  BY DEF ReaderTypes, Variant
<1>2. Torn \notin {"v1", "v2"}
  BY DEF Torn
<1>3. Torn \notin OwnGrids /\ None \notin OwnGrids /\ Old \notin OwnGrids /\ Earlier # Torn
  BY DEF Torn, OwnGrids, None, Old, Shared, Earlier
<1> QED
  BY <1>1, <1>2, <1>3 DEF OwnStamps

-----------------------------------------------------------------------------
(* The parts of the invariant. *)

\* Grids that are where they were, in buffers nothing happened to.
LEMMA HeldKeeps ==
  ASSUME Held, DOMAIN content = Live,
         resident'.grid \in OwnGrids
           => resident'.grid = resident.grid /\ \A b \in GridBuffers : Stays(b),
         \A s \in Slots : resident'.retained[s] \in OwnGrids
           => resident'.retained[s] = resident.retained[s] /\ Stays(RetainBuffer(s))
  PROVE  Held'
<1>1. \A b, g : b \notin Tables /\ g \in OwnGrids /\ content[b] = {g} /\ Stays(b)
                => content'[b] = {g}
  BY OwnWhole, WholeOf DEF Stays
<1>2. \A b \in GridBuffers : b \notin Tables
  BY BufferNames
<1>3. \A s \in Slots : RetainBuffer(s) \notin Tables
  BY BufferNames
<1>4. resident'.grid \in OwnGrids => \A b \in GridBuffers : content'[b] = {resident'.grid}
  BY <1>1, <1>2 DEF Held
<1>5. \A s \in Slots : resident'.retained[s] \in OwnGrids
        => content'[RetainBuffer(s)] = {resident'.retained[s]}
  BY <1>1, <1>3 DEF Held
<1> QED
  BY <1>4, <1>5 DEF Held

\* Tables nothing happened to, and no more of them that count as built.
LEMMA TablesKeep ==
  ASSUME TablesTrue, DOMAIN content' = Live, \A b \in Tables : content'[b] \subseteq {Torn},
         NEW built, Built(resident'.rows, resident'.dirty) = built,
         \A b \in built : \/ b \in Built(resident.rows, resident.dirty) /\ Stays(b)
                          \/ Torn \notin content'[b]
  PROVE  TablesTrue'
<1>1. \A b \in built : Torn \notin content'[b]
  BY WholeOf DEF TablesTrue, Stays
<1> QED
  BY <1>1 DEF TablesTrue

\* A step that touches no buffer.
LEMMA RefuseKeeps ==
  ASSUME Held, TablesTrue, Refuse, resident'.rows = resident.rows,
         resident'.dirty \in {resident.dirty, TRUE},
         resident'.grid \in OwnGrids => resident'.grid = resident.grid,
         \A s \in Slots : resident'.retained[s] \in OwnGrids
           => resident'.retained[s] = resident.retained[s]
  PROVE  Held' /\ TablesTrue'
<1>1. content' = content
  BY DEF Refuse
<1>2. \A b : Stays(b)
  BY <1>1 DEF Stays
<1>3. Held'
  BY <1>2, HeldKeeps DEF TablesTrue
<1>4. Built(resident'.rows, resident'.dirty) \subseteq Built(resident.rows, resident.dirty)
  BY DEF Built
<1>5. TablesTrue'
  BY <1>1, <1>4 DEF TablesTrue
<1> QED
  BY <1>3, <1>5

-----------------------------------------------------------------------------
(* Samplings and the buffers. *)

\* The lists of a sampling, by the slot that takes the displaced grid.
LEMMA SampleEffect ==
  ASSUME resident \in ResidentTypes
  PROVE  /\ Slot \in 0 .. 3 /\ (Slot # 0 => Slot \in Slots) /\ (Keep <=> Slot # 0)
         /\ Samples(GridEffects[SampleOp[Slot + 1]], Slot)
<1>1. Slot \in 0 .. 3 /\ (Slot # 0 => Slot \in Slots) /\ (Keep <=> Slot # 0)
  BY SlotTypes DEF Slots, Slot
<1>2. \A slot \in 0 .. 3 : Samples(GridEffects[SampleOp[slot + 1]], slot)
  BY EffectsAssumption
<1> QED
  BY <1>1, <1>2

\* What a sampling does to the buffers other than the grid's and the slot's.
LEMMA SampleLeaves ==
  ASSUME resident \in ResidentTypes, DOMAIN content = Live, NEW grid,
         \/ Do(SampleOp[Slot + 1], grid)
         \/ BreakOff(SampleOp[Slot + 1], grid)
  PROVE  /\ DOMAIN content' = Live
         /\ \A b \in Tables : Stays(b) /\ content'[b] \subseteq {Torn}
         /\ \A s \in Slots : s # Slot => Stays(RetainBuffer(s))
<1> DEFINE effect == GridEffects[SampleOp[Slot + 1]]
<1>1. Does(effect, grid) \/ Breaks(effect, grid)
  BY DEF Do, BreakOff
<1>2. Samples(effect, Slot) /\ (Slot # 0 => Slot \in Slots)
  BY SampleEffect
<1> HIDE DEF effect
<1>3. \A b \in Live \ GridBuffers : (Slot = 0 \/ b # RetainBuffer(Slot)) => effect.origin[b] = {b}
  BY <1>2 DEF Samples, Leaves
<1>4. \A b \in Tables : b \in Live \ GridBuffers /\ (Slot = 0 \/ b # RetainBuffer(Slot))
  BY <1>2, BufferNames
<1>5. \A s \in Slots : s # Slot => /\ RetainBuffer(s) \in Live \ GridBuffers
                                  /\ (Slot = 0 \/ RetainBuffer(s) # RetainBuffer(Slot))
  BY <1>2, BufferNames
<1>6. /\ DOMAIN content' = Live
      /\ \A b \in Tables : content'[b] \subseteq {Torn}
      /\ \A b \in Live : effect.origin[b] = {b} => Stays(b)
  BY <1>1, Submitted
<1>7. \A b \in Tables : Stays(b)
  BY <1>3, <1>4, <1>6
<1>8. \A s \in Slots : s # Slot => Stays(RetainBuffer(s))
  BY <1>3, <1>5, <1>6
<1> QED
  BY <1>6, <1>7, <1>8

\* A sampling that is through: the books say what the buffers hold.
LEMMA SampledHolds ==
  ASSUME resident \in ResidentTypes, Held, TablesTrue, NEW grid \in OwnGrids, Sampled(grid)
  PROVE  Held' /\ TablesTrue'
<1> DEFINE effect == GridEffects[SampleOp[Slot + 1]]
<1>1. /\ Does(effect, grid) /\ Do(SampleOp[Slot + 1], grid)
      /\ resident' = Settled(grid, resident.grid)
  BY DEF Sampled, Do
<1>2. /\ Samples(effect, Slot) /\ (Slot # 0 => Slot \in Slots) /\ (Keep <=> Slot # 0)
  BY SampleEffect
<1>3. DOMAIN content = Live /\ grid # Torn
  BY OwnWhole DEF TablesTrue
<1>4. /\ DOMAIN content' = Live
      /\ \A b \in Tables : Stays(b) /\ content'[b] \subseteq {Torn}
      /\ \A s \in Slots : s # Slot => Stays(RetainBuffer(s))
  BY <1>1, <1>3, SampleLeaves
<1> HIDE DEF effect
<1>5. content' = [b \in Live |-> Whole(b, StampsOf(effect.origin[b], content, {grid}))]
  BY <1>1, <1>3 DEF Does
<1>6. /\ resident' = [resident EXCEPT !.grid = grid, !.control = None, !.next = NextSlot,
                       !.retained = IF Keep THEN [@ EXCEPT ![Slot] = resident.grid] ELSE @]
      /\ resident.retained \in [Slots -> Grids]
  BY <1>1 DEF Settled, ResidentTypes
<1>7. /\ resident'.grid = grid /\ resident'.rows = resident.rows
      /\ resident'.dirty = resident.dirty
      /\ ~Keep => resident'.retained = resident.retained
      /\ Keep => resident'.retained = [resident.retained EXCEPT ![Slot] = resident.grid]
  BY <1>6 DEF ResidentTypes
<1>8. \A b \in GridBuffers : content'[b] = {grid}
  <2> SUFFICES ASSUME NEW b \in GridBuffers PROVE content'[b] = {grid}
    OBVIOUS
  <2>1. b \in Live /\ b \notin Tables
    BY BufferNames
  <2>2. StampsOf(effect.origin[b], content, {grid}) = {grid}
    BY <1>2, <1>3, StampedNow DEF Samples
  <2> QED
    BY <1>3, <1>5, <2>1, <2>2, WholeOf
<1>9. \A s \in Slots : resident'.retained[s] \in OwnGrids
        => content'[RetainBuffer(s)] = {resident'.retained[s]}
  <2> SUFFICES ASSUME NEW s \in Slots, resident'.retained[s] \in OwnGrids
               PROVE  content'[RetainBuffer(s)] = {resident'.retained[s]}
    OBVIOUS
  <2>1. RetainBuffer(s) \in Live /\ RetainBuffer(s) \notin Tables /\ "sampleResult" \in Live
        /\ "sampleResult" \in GridBuffers
    BY BufferNames DEF GridBuffers
  <2>2. CASE s = Slot
    <3>1. Keep /\ Slot # 0
      BY <1>2, <2>2 DEF Slots
    <3>2. resident'.retained[s] = resident.grid
      BY <1>6, <1>7, <2>2, <3>1
    <3>3. content["sampleResult"] = {resident.grid}
      BY <2>1, <3>2 DEF Held
    <3>4. StampsOf(effect.origin[RetainBuffer(s)], content, {grid}) = {resident.grid}
      BY <1>2, <1>3, <2>1, <2>2, <3>1, <3>3, StampedOnce DEF Samples
    <3> QED
      BY <1>5, <2>1, <3>2, <3>4, WholeOf, OwnWhole
  <2>3. CASE s # Slot
    <3>1. resident'.retained[s] = resident.retained[s]
      BY <1>6, <1>7, <2>3
    <3>2. content[RetainBuffer(s)] = {resident.retained[s]} /\ Stays(RetainBuffer(s))
      BY <1>4, <2>3, <3>1 DEF Held
    <3> QED
      BY <2>1, <3>1, <3>2, WholeOf, OwnWhole DEF Stays
  <2> QED
    BY <2>2, <2>3
<1>10. Held'
  BY <1>7, <1>8, <1>9 DEF Held
<1>11. TablesTrue'
  <2>1. Built(resident'.rows, resident'.dirty) = Built(resident.rows, resident.dirty)
    BY <1>7
  <2>2. Built(resident.rows, resident.dirty) \subseteq Tables
    BY DEF Built, Tables, Caches
  <2> QED
    BY <1>4, <2>1, <2>2, TablesKeep
<1> QED
  BY <1>10, <1>11

\* A sampling that failed: what is no longer known is no longer in the books.
LEMMA SampleFailsHolds ==
  ASSUME resident \in ResidentTypes, Held, TablesTrue, NEW grid, SampleFails(grid)
  PROVE  Held' /\ TablesTrue'
<1>1. DOMAIN content = Live /\ None \notin OwnGrids
  BY OwnWhole DEF TablesTrue
<1>2. CASE Refuse /\ resident' \in {resident, [resident EXCEPT !.control = None]}
  BY <1>2, RefuseKeeps DEF ResidentTypes
<1>3. CASE (Refuse \/ BreakOff(SampleOp[Slot + 1], grid)) /\ resident' = Settled(None, None)
  <2>1. (Slot # 0 => Slot \in Slots) /\ (Keep <=> Slot # 0)
    BY SampleEffect
  <2>2. /\ resident' = [resident EXCEPT !.grid = None, !.control = None, !.next = NextSlot,
                         !.retained = IF Keep THEN [@ EXCEPT ![Slot] = None] ELSE @]
        /\ resident.retained \in [Slots -> Grids]
    BY <1>3 DEF Settled, ResidentTypes
  <2>3. /\ resident'.grid = None /\ resident'.rows = resident.rows
        /\ resident'.dirty = resident.dirty
        /\ ~Keep => resident'.retained = resident.retained
        /\ Keep => resident'.retained = [resident.retained EXCEPT ![Slot] = None]
    BY <2>2 DEF ResidentTypes
  <2>4. ASSUME NEW s \in Slots, resident'.retained[s] \in OwnGrids
        PROVE  s # Slot /\ resident'.retained[s] = resident.retained[s]
    <3>1. CASE Keep
      BY <1>1, <2>2, <2>3, <2>4, <3>1
    <3>2. CASE ~Keep
      BY <2>1, <2>3, <3>2 DEF Slots
    <3> QED
      BY <3>1, <3>2
  <2>5. CASE Refuse
    BY <1>1, <2>3, <2>4, <2>5, RefuseKeeps
  <2>6. CASE BreakOff(SampleOp[Slot + 1], grid)
    <3>1. /\ DOMAIN content' = Live
          /\ \A b \in Tables : Stays(b) /\ content'[b] \subseteq {Torn}
          /\ \A s \in Slots : s # Slot => Stays(RetainBuffer(s))
      BY <1>1, <2>6, SampleLeaves
    <3>2. Held'
      BY <1>1, <2>3, <2>4, <3>1, HeldKeeps
    <3>3. Built(resident'.rows, resident'.dirty) = Built(resident.rows, resident.dirty)
      BY <2>3
    <3>4. Built(resident.rows, resident.dirty) \subseteq Tables
      BY DEF Built, Tables, Caches
    <3> QED
      BY <3>1, <3>2, <3>3, <3>4, TablesKeep
  <2> QED
    BY <1>3, <2>5, <2>6
<1> QED
  BY <1>2, <1>3 DEF SampleFails

-----------------------------------------------------------------------------
(* Requests and the buffers. *)

\* A request of the grid in place leaves the grids.
LEMMA RequestLeaves ==
  ASSUME Held, TablesTrue, SameGrids, NEW effect, NEW held, NEW from,
         Requests(effect, held, from), GridBuffers \cup Retains \subseteq held,
         held \subseteq Live, NEW stamp, Does(effect, stamp) \/ Breaks(effect, stamp)
  PROVE  /\ Held' /\ DOMAIN content' = Live
         /\ \A b \in Tables : content'[b] \subseteq {Torn}
         /\ \A b \in held : Stays(b)
<1>1. /\ DOMAIN content' = Live
      /\ \A b \in Tables : content'[b] \subseteq {Torn}
      /\ \A b \in Live : effect.origin[b] = {b} => Stays(b)
  BY Submitted DEF TablesTrue
<1>2. \A b \in held : Stays(b)
  BY <1>1 DEF Requests, Leaves
<1>3. \A s \in Slots : RetainBuffer(s) \in held
  BY BufferNames
<1>4. Held'
  BY <1>2, <1>3, HeldKeeps DEF SameGrids, TablesTrue
<1> QED
  BY <1>1, <1>2, <1>4

\* A request that is through shows, and puts into the tables it builds, what its
\* sources hold.
LEMMA RequestBuilds ==
  ASSUME TablesTrue, NEW effect, NEW held, NEW from, Requests(effect, held, from),
         NEW stamp, Does(effect, stamp), NEW S, Torn \notin S, stamp \in S,
         \A x \in from \cap Live : content[x] \subseteq S
  PROVE  /\ ShownBy(effect, {stamp}) \subseteq S
         /\ \A b \in Tables \ held : content'[b] \subseteq S
<1>1. DOMAIN content = Live /\ Tables \subseteq Live
  BY BufferNames DEF TablesTrue
<1>2. ShownBy(effect, {stamp}) \subseteq S
  BY <1>1, Stamped DEF ShownBy, Requests
<1>3. ASSUME NEW b \in Tables \ held PROVE content'[b] \subseteq S
  <2>1. StampsOf(effect.origin[b], content, {stamp}) \subseteq S
    BY <1>1, Stamped DEF Requests
  <2>2. content'[b] = Whole(b, StampsOf(effect.origin[b], content, {stamp}))
    BY <1>1 DEF Does
  <2>3. Whole(b, StampsOf(effect.origin[b], content, {stamp})) = {}
    BY <2>1 DEF Whole
  <2> QED
    BY <2>2, <2>3
<1> QED
  BY <1>2, <1>3

\* What a request of the grid in place draws on is its grid's, its variant's, or whole.
LEMMA OwnSources ==
  ASSUME Held, TablesTrue, reader.matrix \in OwnGrids, Owned
  PROVE  \A x \in (Asked \cup Built(resident.rows, resident.dirty)) \cap Live :
           content[x] \subseteq OwnStamps
<1>1. \A x \in GridBuffers : content[x] = {reader.matrix}
  BY DEF Held, Owned
<1>2. Built(resident.rows, resident.dirty) \subseteq Tables
  BY DEF Built, Tables, Caches
<1>3. \A x \in Built(resident.rows, resident.dirty) : content[x] = {}
  BY <1>2 DEF TablesTrue
<1>4. "now" \notin Live
  BY BufferNames
<1> QED
  BY <1>1, <1>3, <1>4 DEF Asked, OwnStamps

\* The same of a request of the grid in place.
LEMMA OwnBuilds ==
  ASSUME TablesTrue, reader \in ReaderTypes, reader.matrix \in OwnGrids,
         NEW effect, NEW held, NEW from, Requests(effect, held, from),
         Does(effect, Variant[reader.turn]),
         \A x \in from \cap Live : content[x] \subseteq OwnStamps
  PROVE  /\ ShownBy(effect, {Variant[reader.turn]}) \subseteq OwnStamps
         /\ \A b \in Tables \ held : content'[b] \subseteq OwnStamps
<1> DEFINE stamp == Variant[reader.turn]
<1>1. Does(effect, stamp) /\ stamp \in OwnStamps /\ Torn \notin OwnStamps
  BY OwnWhole DEF OwnStamps
<1> HIDE DEF stamp
<1>2. ShownBy(effect, {stamp}) \subseteq OwnStamps
  BY <1>1, RequestBuilds
<1>3. \A b \in Tables \ held : content'[b] \subseteq OwnStamps
  BY <1>1, RequestBuilds
<1> QED
  BY <1>2, <1>3 DEF stamp

\* A request that broke off: what it may have half written no longer counts as built.
LEMMA LostHolds ==
  ASSUME resident \in ResidentTypes, Held, TablesTrue,
         NEW op, NEW dirties, NEW at, Lost(op, dirties, at),
         NEW held, NEW from, Requests(GridEffects[op], held, from),
         GridBuffers \cup Retains \subseteq held, held \subseteq Live,
         Built(resident.rows, IF dirties = "walks" THEN resident.dirty ELSE TRUE) \subseteq held
  PROVE  Held' /\ TablesTrue'
<1>1. /\ Refuse \/ Breaks(GridEffects[op], Variant[reader.turn])
      /\ resident' = [resident EXCEPT !.control = IF dirties = "corrects" THEN @ ELSE None,
                                      !.dirty = IF dirties = "walks" THEN @ ELSE TRUE]
  BY DEF Lost, BreakOff
<1>2. /\ SameGrids /\ resident'.rows = resident.rows
      /\ resident'.dirty = IF dirties = "walks" THEN resident.dirty ELSE TRUE
  BY <1>1 DEF ResidentTypes, SameGrids
<1>3. CASE Refuse
  BY <1>2, <1>3, RefuseKeeps DEF SameGrids
<1>4. CASE Breaks(GridEffects[op], Variant[reader.turn])
  <2>1. /\ Held' /\ DOMAIN content' = Live
        /\ \A b \in Tables : content'[b] \subseteq {Torn}
        /\ \A b \in held : Stays(b)
    BY <1>2, <1>4, RequestLeaves
  <2>2. Built(resident'.rows, resident'.dirty) \subseteq held
    BY <1>2
  <2>3. Built(resident'.rows, resident'.dirty) \subseteq Built(resident.rows, resident.dirty)
    BY <1>2 DEF Built
  <2> QED
    BY <2>1, <2>2, <2>3, TablesKeep
<1> QED
  BY <1>1, <1>3, <1>4

-----------------------------------------------------------------------------
(* Answers. *)

Told == AnswersReadTheirOwn /\ CachesTrustworthy

\* Who is told nothing is told nothing wrong.
LEMMA UntoldTold ==
  ASSUME \/ Untold
         \/ answer'.kind = "host"
         \/ UNCHANGED answer /\ Told
  PROVE  Told'
<1>1. CASE UNCHANGED answer /\ Told
  BY <1>1 DEF Told, AnswersReadTheirOwn, CachesTrustworthy
<1>2. CASE Untold \/ answer'.kind = "host"
  <2>1. answer'.kind \in {"none", "host"}
    BY <1>2 DEF Untold, NoAnswer
  <2> QED
    BY <2>1 DEF Told, AnswersReadTheirOwn, CachesTrustworthy
<1> QED
  BY <1>1, <1>2

\* An answer of the device to a walk or a correction.
LEMMA RequestTold ==
  ASSUME reader \in ReaderTypes, reader.matrix \in OwnGrids, NEW op, NEW kind \in {"walk", "decode"},
         Answered(kind, op), ShownBy(GridEffects[op], {Variant[reader.turn]}) \subseteq OwnStamps
  PROVE  Told'
<1>1. /\ answer'.kind = kind /\ answer'.grid = reader.matrix
      /\ answer'.variant = Variant[reader.turn]
      /\ answer'.got = ShownBy(GridEffects[op], {Variant[reader.turn]})
  BY DEF Answered
<1>2. Torn \notin OwnStamps
  BY OwnWhole
<1> QED
  BY <1>1, <1>2 DEF Told, AnswersReadTheirOwn, CachesTrustworthy, OwnStamps

-----------------------------------------------------------------------------
(* The reader's place. *)

Following == {"admission", "correct", "observe", "hostObserve"}

\* Nobody is about to correct.
LEMMA Elsewhere ==
  ASSUME reader'.at \notin Following
  PROVE  WalkTrue'
BY DEF WalkTrue, At, Following

\* A reading stays at its grid.
LEMMA LocatedKeeps ==
  ASSUME Located, Reading' => Reading, reader'.matrix = reader.matrix,
         reader'.cached = reader.cached
  PROVE  Located'
BY DEF Located

\* Steps that only move on, and how.
LEMMA GoFields ==
  ASSUME reader \in ReaderTypes, NEW at, Go(at)
  PROVE  /\ reader'.at = at /\ reader'.matrix = reader.matrix /\ reader'.turn = reader.turn
         /\ reader'.cached = reader.cached
BY DEF ReaderTypes, Go

\* A request that broke off moves on.
LEMMA LostFields ==
  ASSUME reader \in ReaderTypes, NEW at, reader' = [reader EXCEPT !.at = at, !.breaks = @ + 1]
  PROVE  /\ reader'.at = at /\ reader'.matrix = reader.matrix /\ reader'.turn = reader.turn
         /\ reader'.cached = reader.cached
BY DEF ReaderTypes

\* An observation moves on.
LEMMA ObservedFields ==
  ASSUME reader \in ReaderTypes, NEW at, Observed(at)
  PROVE  /\ reader'.at = at /\ reader'.matrix = reader.matrix /\ reader'.turn = reader.turn
         /\ reader'.cached = reader.cached
BY DEF ReaderTypes, Observed

-----------------------------------------------------------------------------
(* The steps of a reading. *)

\* The fused walk and correction.
LEMMA DecodeFusedSound ==
  ASSUME IInv, CInv, DecodeFused
  PROVE  CInv' /\ Told'
<1> DEFINE op == Flagged("decode", resident.rows, resident.dirty)
           effect == GridEffects[op]
           held == GridBuffers \cup Retains \cup Built(resident.rows, TRUE)
           from == Asked \cup Built(resident.rows, resident.dirty)
<1>1. /\ reader \in ReaderTypes /\ resident \in ResidentTypes /\ reader.at = "fused"
      /\ resident.rows \in BOOLEAN /\ resident.dirty \in BOOLEAN /\ Reading
      /\ reader.matrix \in OwnGrids
  BY DEF IInv, TypeOK, CInv, Located, DecodeFused, At, Reading, ResidentTypes
<1>2. Requests(effect, held, from)
  BY <1>1, EffectsAssumption
<1>3. held \subseteq Live /\ GridBuffers \cup Retains \subseteq held
      /\ held \cap Tables = Built(resident.rows, TRUE)
  BY BufferNames DEF Built, Tables, Caches
<1>4. Held /\ TablesTrue /\ Located
  BY DEF CInv
<1>5. CASE Declines("walk")
  <2>1. reader'.at = "walk" /\ reader'.matrix = reader.matrix /\ reader'.cached = reader.cached
    BY <1>1, <1>5, GoFields DEF Declines, Idly
  <2>2. Held' /\ TablesTrue'
    BY <1>4, <1>5, RefuseKeeps DEF Declines, Idly
  <2>3. Located' /\ WalkTrue'
    BY <1>1, <1>4, <2>1, LocatedKeeps, Elsewhere DEF Following
  <2>4. Told'
    BY <1>5, UntoldTold DEF Declines, Idly
  <2> QED
    BY <2>2, <2>3, <2>4 DEF CInv
<1>6. CASE /\ Owned
           /\ Do(op, Variant[reader.turn]) /\ Answered("decode", op)
           /\ resident' = [resident EXCEPT !.control = None, !.rows = TRUE, !.dirty = FALSE]
           /\ \E at \in {"end", "missed", "uncovered"} : Go(at)
  <2>1. Does(effect, Variant[reader.turn])
    BY <1>6 DEF Do
  <2>2. Torn \notin OwnStamps /\ Variant[reader.turn] \in OwnStamps
    BY <1>1, OwnWhole DEF OwnStamps
  <2>3. \A x \in from \cap Live : content[x] \subseteq OwnStamps
    BY <1>1, <1>4, <1>6, OwnSources
  <2> HIDE DEF op, effect, held, from
  <2>4. /\ ShownBy(effect, {Variant[reader.turn]}) \subseteq OwnStamps
        /\ \A b \in Tables \ held : content'[b] \subseteq OwnStamps
    BY <1>1, <1>2, <1>4, <2>1, <2>3, OwnBuilds
  <2>5. SameGrids /\ resident'.rows = TRUE /\ resident'.dirty = FALSE
    BY <1>1, <1>6 DEF ResidentTypes, SameGrids
  <2>6. /\ Held' /\ DOMAIN content' = Live
        /\ \A b \in Tables : content'[b] \subseteq {Torn}
        /\ \A b \in held : Stays(b)
    BY <1>2, <1>3, <1>4, <2>1, <2>5, RequestLeaves
  <2>7. TablesTrue'
    <3>1. Built(resident'.rows, resident'.dirty) = Tables
      BY <2>5 DEF Built, Tables, Caches
    <3>2. Built(resident.rows, TRUE) \subseteq Built(resident.rows, resident.dirty)
      BY DEF Built
    <3>3. \A b \in Tables : \/ b \in Built(resident.rows, resident.dirty) /\ Stays(b)
                            \/ Torn \notin content'[b]
      BY <1>3, <2>2, <2>4, <2>6, <3>2
    <3> QED
      BY <1>4, <2>6, <3>1, <3>3, TablesKeep
  <2>8. Told'
    BY <1>1, <1>6, <2>4, RequestTold DEF effect
  <2>9. reader'.at \in {"end", "missed", "uncovered"} /\ reader'.matrix = reader.matrix
        /\ reader'.cached = reader.cached
    BY <1>1, <1>6, GoFields
  <2>10. Located' /\ WalkTrue'
    BY <1>1, <1>4, <2>9, LocatedKeeps, Elsewhere DEF Following
  <2> QED
    BY <2>6, <2>7, <2>8, <2>10 DEF CInv
<1>7. CASE Owned /\ Lost(op, "decodes", "walk")
  <2>1. Built(resident.rows, IF "decodes" = "walks" THEN resident.dirty ELSE TRUE) \subseteq held
    BY <1>3
  <2>2. Held' /\ TablesTrue'
    BY <1>1, <1>2, <1>3, <1>4, <1>7, <2>1, LostHolds
  <2>3. reader'.at = "walk" /\ reader'.matrix = reader.matrix /\ reader'.cached = reader.cached
    BY <1>1, <1>7, LostFields DEF Lost
  <2>4. Located' /\ WalkTrue'
    BY <1>1, <1>4, <2>3, LocatedKeeps, Elsewhere DEF Following
  <2>5. Told'
    BY <1>7, UntoldTold DEF Lost
  <2> QED
    BY <2>2, <2>4, <2>5 DEF CInv
<1> QED
  BY <1>5, <1>6, <1>7 DEF DecodeFused

\* The walk leaves the parameters of its own grid and variant behind.
LEMMA WalkSound ==
  ASSUME IInv, CInv, Walk
  PROVE  CInv' /\ Told'
<1> DEFINE op == Flagged("walk", resident.rows, FALSE)
           effect == GridEffects[op]
           held == GridBuffers \cup Retains \cup Built(resident.rows, TRUE) \cup Caches
           from == Asked \cup Built(resident.rows, TRUE)
           walked(control) == [resident EXCEPT !.control = control, !.rows = TRUE]
<1>1. /\ reader \in ReaderTypes /\ resident \in ResidentTypes
      /\ reader.at \in {"walk", "uncovered"}
      /\ resident.rows \in BOOLEAN /\ resident.dirty \in BOOLEAN /\ Reading
      /\ reader.matrix \in OwnGrids
  BY DEF IInv, TypeOK, CInv, Located, Walk, At, Reading, ResidentTypes
<1>2. /\ Requests(effect, held, from)
      /\ \A b \in Parameters : Drawn(effect.origin[b]) \subseteq from
  BY <1>1, EffectsAssumption
<1>3. held \subseteq Live /\ GridBuffers \cup Retains \subseteq held
      /\ held \cap Tables = Built(resident.rows, TRUE) \cup Caches
      /\ Parameters \subseteq Live /\ Parameters \cap Tables = {}
  BY BufferNames DEF Built, Tables, Caches
<1>4. Held /\ TablesTrue /\ Located
  BY DEF CInv
<1>5. CASE Declines("observe")
  <2>1. /\ reader'.at = "observe" /\ reader'.matrix = reader.matrix
        /\ reader'.turn = reader.turn /\ reader'.cached = reader.cached
    BY <1>1, <1>5, GoFields DEF Declines, Idly
  <2>2. Held' /\ TablesTrue'
    BY <1>4, <1>5, RefuseKeeps DEF Declines, Idly
  <2>3. Located'
    BY <1>1, <1>4, <2>1, LocatedKeeps
  <2>4. WalkTrue'
    BY <1>5, <2>1 DEF WalkTrue, At, Owned, Declines, Idly
  <2>5. Told'
    BY <1>5, UntoldTold DEF Declines, Idly
  <2> QED
    BY <2>2, <2>3, <2>4, <2>5 DEF CInv
<1>6. CASE /\ Owned
           /\ Do(op, Variant[reader.turn]) /\ Answered("walk", op)
           /\ \/ resident' = walked(Variant[reader.turn]) /\ Observed("admission")
              \/ resident' = walked(None) /\ Go("missed")
              \/ resident' = walked(None) /\ Go("observe")
  <2>1. Does(effect, Variant[reader.turn])
    BY <1>6 DEF Do
  <2>2. Torn \notin OwnStamps /\ Variant[reader.turn] \in OwnStamps
        /\ None # Variant[reader.turn]
    <3>1. None \notin {"v1", "v2"}
      BY DEF None
    <3> QED
      BY <1>1, <3>1, OwnWhole DEF OwnStamps
  <2>3. \A x \in from \cap Live : content[x] \subseteq OwnStamps
    <3>1. Built(resident.rows, TRUE) \subseteq Built(resident.rows, resident.dirty)
      BY DEF Built
    <3> QED
      BY <1>1, <1>4, <1>6, <3>1, OwnSources
  <2>4. PICK control \in {None, Variant[reader.turn]} : resident' = walked(control)
    BY <1>6
  <2>5. /\ SameGrids /\ resident'.rows = TRUE /\ resident'.dirty = resident.dirty
        /\ resident'.control = control /\ resident'.grid = resident.grid
    BY <1>1, <2>4 DEF ResidentTypes, SameGrids
  <2>6. /\ reader'.matrix = reader.matrix /\ reader'.turn = reader.turn
        /\ reader'.cached = reader.cached /\ reader'.at \in {"admission", "missed", "observe"}
        /\ reader'.at = "observe" => resident' = walked(None)
    BY <1>1, <1>6, GoFields, ObservedFields
  <2>7. reader'.at = "observe" => resident'.control = None
    BY <1>1, <2>6 DEF ResidentTypes
  <2> HIDE DEF op, effect, held, from, walked
  <2>8. /\ ShownBy(effect, {Variant[reader.turn]}) \subseteq OwnStamps
        /\ \A b \in Tables \ held : content'[b] \subseteq OwnStamps
    BY <1>1, <1>2, <1>4, <2>1, <2>3, OwnBuilds
  <2>9. /\ Held' /\ DOMAIN content' = Live
        /\ \A b \in Tables : content'[b] \subseteq {Torn}
        /\ \A b \in held : Stays(b)
    BY <1>2, <1>3, <1>4, <2>1, <2>5, RequestLeaves
  <2>10. TablesTrue'
    <3> DEFINE built == Built(resident'.rows, resident'.dirty)
    <3>1. \A b \in built : b \in Tables
      BY DEF Built, Tables, Caches
    <3>2. \A b \in built : b \in held => b \in Built(resident.rows, resident.dirty)
      BY <1>3, <2>5, <3>1 DEF Built, Caches
    <3>3. \A b \in built : \/ b \in Built(resident.rows, resident.dirty) /\ Stays(b)
                           \/ Torn \notin content'[b]
      BY <2>2, <2>8, <2>9, <3>1, <3>2
    <3> QED
      BY <1>4, <2>9, <3>3, TablesKeep
  <2>11. Told'
    BY <1>1, <1>6, <2>8, RequestTold DEF effect
  <2>12. Located'
    BY <1>1, <1>4, <2>6, LocatedKeeps
  <2>13. \A b \in Parameters : content'[b] \subseteq OwnStamps
    <3> SUFFICES ASSUME NEW b \in Parameters PROVE content'[b] \subseteq OwnStamps
      OBVIOUS
    <3> DEFINE stamp == Variant[reader.turn]
    <3>1. DOMAIN content = Live /\ b \in Live /\ b \notin Tables /\ stamp \in OwnStamps
          /\ Drawn(effect.origin[b]) \subseteq from
      BY <1>2, <1>3, <1>4, <2>2 DEF TablesTrue
    <3>2. content'[b] = Whole(b, StampsOf(effect.origin[b], content, {stamp}))
      BY <2>1, <3>1 DEF Does
    <3> HIDE DEF stamp
    <3>3. StampsOf(effect.origin[b], content, {stamp}) \subseteq OwnStamps
      BY <2>3, <3>1, Stamped
    <3>4. Torn \notin StampsOf(effect.origin[b], content, {stamp})
      BY <2>2, <3>3
    <3>5. content'[b] = StampsOf(effect.origin[b], content, {stamp})
      BY <3>1, <3>2, <3>4 DEF Whole
    <3> QED
      BY <3>3, <3>5
  <2>14. OwnStamps' = OwnStamps
    BY <2>6 DEF OwnStamps
  <2>15. reader'.at = "observe" => ~Walked'
    BY <2>2, <2>6, <2>7 DEF Walked
  <2>16. WalkTrue'
    BY <2>6, <2>13, <2>14, <2>15 DEF WalkTrue, At
  <2> QED
    BY <2>9, <2>10, <2>11, <2>12, <2>16 DEF CInv
<1>7. CASE Owned /\ Lost(op, "walks", "observe")
  <2>1. Built(resident.rows, IF "walks" = "walks" THEN resident.dirty ELSE TRUE) \subseteq held
    BY DEF Built
  <2>2. Held' /\ TablesTrue'
    BY <1>1, <1>2, <1>3, <1>4, <1>7, <2>1, LostHolds
  <2>3. /\ reader'.at = "observe" /\ reader'.matrix = reader.matrix
        /\ reader'.turn = reader.turn /\ reader'.cached = reader.cached
    BY <1>1, <1>7, LostFields DEF Lost
  <2>4. Located'
    BY <1>1, <1>4, <2>3, LocatedKeeps
  <2>5. Told'
    BY <1>7, UntoldTold DEF Lost
  <2>6. resident'.control = None
    BY <1>1, <1>7 DEF Lost, ResidentTypes
  <2>7. None # Variant[reader.turn]
    <3>1. None \notin {"v1", "v2"}
      BY DEF None
    <3> QED
      BY <1>1, <3>1, OwnWhole
  <2>8. WalkTrue'
    BY <2>3, <2>6, <2>7 DEF WalkTrue, At, Walked
  <2> QED
    BY <2>2, <2>4, <2>5, <2>8 DEF CInv
<1> QED
  BY <1>5, <1>6, <1>7 DEF Walk

\* The correction takes the parameters of this variant's walk, or the host's.
LEMMA CorrectOnDeviceSound ==
  ASSUME IInv, CInv, CorrectOnDevice
  PROVE  CInv' /\ Told'
<1> DEFINE op == Flagged(IF resident.control = Variant[reader.turn] THEN "correct" ELSE "hosted",
                         TRUE, resident.dirty)
           effect == GridEffects[op]
           held == GridBuffers \cup Retains \cup Built(FALSE, TRUE) \cup {"metadataRows"}
           from == Asked \cup Built(FALSE, resident.dirty)
                     \cup (IF Walked THEN Parameters ELSE {})
<1>1. /\ reader \in ReaderTypes /\ resident \in ResidentTypes /\ reader.at = "correct"
      /\ resident.rows \in BOOLEAN /\ resident.dirty \in BOOLEAN /\ Reading
      /\ reader.matrix \in OwnGrids
  BY DEF IInv, TypeOK, CInv, Located, CorrectOnDevice, At, Reading, ResidentTypes
<1>2. Requests(effect, held, from)
  <2>1. CASE Walked
    <3>1. Requests(GridEffects[Flagged("correct", TRUE, resident.dirty)], held,
                   Asked \cup Built(FALSE, resident.dirty) \cup Parameters)
      BY <1>1, EffectsAssumption
    <3> QED
      BY <2>1, <3>1 DEF Walked
  <2>2. CASE ~Walked
    <3>1. Requests(GridEffects[Flagged("hosted", TRUE, resident.dirty)], held,
                   Asked \cup Built(FALSE, resident.dirty))
      BY <1>1, EffectsAssumption
    <3>2. from = Asked \cup Built(FALSE, resident.dirty)
      BY <2>2
    <3> QED
      BY <2>2, <3>1, <3>2 DEF Walked
  <2> QED
    BY <2>1, <2>2
<1>3. held \subseteq Live /\ GridBuffers \cup Retains \subseteq held
      /\ held \cap Tables = {"metadataRows"}
  BY BufferNames DEF Built, Tables, Caches
<1>4. Held /\ TablesTrue /\ Located
  BY DEF CInv
<1>5. Declined \notin Following
  BY DEF Declined, Following
<1>6. CASE Idly(Declined)
  <2>1. reader'.at = Declined /\ reader'.matrix = reader.matrix /\ reader'.cached = reader.cached
    BY <1>1, <1>6, GoFields DEF Idly
  <2>2. Held' /\ TablesTrue'
    BY <1>4, <1>6, RefuseKeeps DEF Idly
  <2>3. Located' /\ WalkTrue'
    BY <1>1, <1>4, <1>5, <2>1, LocatedKeeps, Elsewhere
  <2>4. Told'
    BY <1>6, UntoldTold DEF Idly
  <2> QED
    BY <2>2, <2>3, <2>4 DEF CInv
<1>7. CASE /\ Owned
           /\ Do(op, Variant[reader.turn]) /\ Answered("decode", op)
           /\ resident' = [resident EXCEPT !.dirty = FALSE]
           /\ Go("end") \/ Go("merge")
  <2>1. Does(effect, Variant[reader.turn])
    BY <1>7 DEF Do
  <2>2. Torn \notin OwnStamps
    BY <1>1, OwnWhole
  <2>3. \A x \in from \cap Live : content[x] \subseteq OwnStamps
    <3>1. Built(FALSE, resident.dirty) \subseteq Built(resident.rows, resident.dirty)
      BY DEF Built
    <3>2. Walked => \A b \in Parameters : content[b] \subseteq OwnStamps
      BY <1>1, <1>7 DEF CInv, WalkTrue, At
    <3> QED
      BY <1>1, <1>4, <1>7, <3>1, <3>2, OwnSources
  <2>4. SameGrids /\ resident'.rows = resident.rows /\ resident'.dirty = FALSE
    BY <1>1, <1>7 DEF ResidentTypes, SameGrids
  <2> HIDE DEF op, effect, held, from
  <2>5. /\ ShownBy(effect, {Variant[reader.turn]}) \subseteq OwnStamps
        /\ \A b \in Tables \ held : content'[b] \subseteq OwnStamps
    BY <1>1, <1>2, <1>4, <2>1, <2>3, OwnBuilds
  <2>6. /\ Held' /\ DOMAIN content' = Live
        /\ \A b \in Tables : content'[b] \subseteq {Torn}
        /\ \A b \in held : Stays(b)
    BY <1>2, <1>3, <1>4, <2>1, <2>4, RequestLeaves
  <2>7. TablesTrue'
    <3> DEFINE built == Built(resident'.rows, resident'.dirty)
    <3>1. \A b \in built : b \in Tables
      BY DEF Built, Tables, Caches
    <3>2. \A b \in built : b \in held => b \in Built(resident.rows, resident.dirty)
      BY <1>3, <2>4, <3>1 DEF Built, Caches
    <3>3. \A b \in built : \/ b \in Built(resident.rows, resident.dirty) /\ Stays(b)
                           \/ Torn \notin content'[b]
      BY <2>2, <2>5, <2>6, <3>1, <3>2
    <3> QED
      BY <1>4, <2>6, <3>3, TablesKeep
  <2>8. Told'
    BY <1>1, <1>7, <2>5, RequestTold DEF effect
  <2>9. reader'.at \in {"end", "merge"} /\ reader'.matrix = reader.matrix
        /\ reader'.cached = reader.cached
    BY <1>1, <1>7, GoFields
  <2>10. Located' /\ WalkTrue'
    BY <1>1, <1>4, <2>9, LocatedKeeps, Elsewhere DEF Following
  <2> QED
    BY <2>6, <2>7, <2>8, <2>10 DEF CInv
<1>8. CASE Owned /\ Lost(op, "corrects", Declined)
  <2>1. Built(resident.rows, IF "corrects" = "walks" THEN resident.dirty ELSE TRUE) \subseteq held
    BY DEF Built
  <2>2. Held' /\ TablesTrue'
    <3>1. Requests(GridEffects[op], held, from) /\ Lost(op, "corrects", Declined)
      BY <1>2, <1>8
    <3> HIDE DEF op, effect, held, from
    <3> QED
      BY <1>1, <1>3, <1>4, <2>1, <3>1, LostHolds
  <2>3. reader'.at = Declined /\ reader'.matrix = reader.matrix /\ reader'.cached = reader.cached
    BY <1>1, <1>8, LostFields DEF Lost
  <2>4. Located' /\ WalkTrue'
    BY <1>1, <1>4, <1>5, <2>3, LocatedKeeps, Elsewhere
  <2>5. Told'
    BY <1>8, UntoldTold DEF Lost
  <2> QED
    BY <2>2, <2>4, <2>5 DEF CInv
<1> QED
  BY <1>6, <1>7, <1>8 DEF CorrectOnDevice

\* The host's steps touch nothing; what it observes, nobody has walked.
LEMMA HostSound ==
  ASSUME IInv, CInv, \/ HostObserve \/ Admission \/ AdmitFixed \/ DeferredFixed
                     \/ HostCorrect \/ HostMerge
  PROVE  CInv' /\ Told'
<1>1. /\ reader \in ReaderTypes /\ Reading /\ Refuse /\ resident' = resident
  BY DEF IInv, TypeOK, HostObserve, Admission, AdmitFixed, DeferredFixed, HostCorrect, HostMerge,
         Idly, Corrected, Reading, At
<1>2. Held' /\ TablesTrue'
  BY <1>1, RefuseKeeps DEF CInv
<1>3. Told'
  <2>1. Untold \/ answer'.kind = "host"
    BY DEF HostObserve, Admission, AdmitFixed, DeferredFixed, HostCorrect, HostMerge, Idly,
           Corrected, NoAnswer
  <2> QED
    BY <2>1, UntoldTold
<1>4. /\ reader'.matrix = reader.matrix /\ reader'.turn = reader.turn
      /\ reader'.cached = reader.cached
      /\ reader'.at \in Following =>
           /\ reader'.at \in {"admission", "correct"}
           /\ reader.at \in {"admission", "hostObserve"}
  <2>1. CASE HostObserve
    BY <1>1, <2>1, GoFields, ObservedFields DEF HostObserve, At, Following
  <2>2. CASE Admission
    BY <1>1, <2>2, GoFields DEF Admission, Idly, At, Following
  <2>3. CASE AdmitFixed \/ DeferredFixed
    BY <1>1, <2>3, GoFields DEF AdmitFixed, DeferredFixed, Idly, Following
  <2>4. CASE HostCorrect \/ HostMerge
    BY <1>1, <2>4, GoFields DEF HostCorrect, HostMerge, Following
  <2> QED
    BY <2>1, <2>2, <2>3, <2>4
<1>5. Located'
  BY <1>1, <1>4, LocatedKeeps DEF CInv
<1>6. WalkTrue'
  <2>1. CASE reader'.at \notin Following
    BY <2>1, Elsewhere
  <2>2. CASE reader'.at \in Following
    <3>1. content' = content /\ Owned' = Owned /\ Walked' = Walked /\ OwnStamps' = OwnStamps
      BY <1>1, <1>4 DEF Refuse, Owned, Walked, OwnStamps
    <3> QED
      BY <1>4, <2>2, <3>1 DEF CInv, WalkTrue, At
  <2> QED
    BY <2>1, <2>2
<1> QED
  BY <1>2, <1>3, <1>5, <1>6 DEF CInv

\* A list that only shows leaves the books true.
LEMMA ShowingHolds ==
  ASSUME Held, TablesTrue, UNCHANGED resident, NEW effect, NEW stamp, Does(effect, stamp),
         Leaves(effect, Live)
  PROVE  Held' /\ TablesTrue'
<1>1. /\ DOMAIN content = Live /\ DOMAIN content' = Live
      /\ \A b \in Tables : content'[b] \subseteq {Torn}
      /\ \A b \in Live : Stays(b)
  BY Submitted DEF TablesTrue, Leaves
<1>2. GridBuffers \subseteq Live /\ Tables \subseteq Live /\ \A s \in Slots : RetainBuffer(s) \in Live
  BY BufferNames
<1>3. Held'
  BY <1>1, <1>2, HeldKeeps
<1>4. Built(resident.rows, resident.dirty) \subseteq Tables
  BY DEF Built, Tables, Caches
<1>5. TablesTrue'
  BY <1>1, <1>2, <1>4, TablesKeep
<1> QED
  BY <1>3, <1>5

\* A measurement rests on nothing a grid left behind.
LEMMA MeasureSound ==
  ASSUME IInv, CInv, Measure
  PROVE  CInv' /\ Told'
<1>1. PICK op \in Measurements : Do(op, Variant[reader.turn]) /\ Answered("measure", op)
  BY DEF Measure
<1>2. UNCHANGED <<resident, reader>>
  BY DEF Measure
<1>3. op \in DOMAIN MeasureLists /\ reader.at \in {"sample", "missed"}
  BY DEF Measurements, MeasureLists, At
<1>4. Leaves(GridEffects[op], Live) /\ Drawn(GridEffects[op].shown) = {"now"}
  BY <1>3, EffectsAssumption
<1>5. Held' /\ TablesTrue'
  BY <1>1, <1>2, <1>4, ShowingHolds DEF CInv, Do
<1>6. Located' /\ WalkTrue'
  BY <1>2, <1>3, Elsewhere DEF CInv, Located, Reading, At, Following
<1>7. answer'.kind = "measure" /\ answer'.got = {answer'.variant}
  <2>1. /\ answer'.kind = "measure" /\ answer'.variant = Variant[reader.turn]
        /\ answer'.got = ShownBy(GridEffects[op], {Variant[reader.turn]})
    BY <1>1 DEF Answered
  <2>2. ShownBy(GridEffects[op], {Variant[reader.turn]}) = {Variant[reader.turn]}
    BY <1>4, StampedNow DEF ShownBy, CInv, TablesTrue
  <2> QED
    BY <2>1, <2>2
<1>8. Told'
  BY <1>7 DEF Told, AnswersReadTheirOwn, CachesTrustworthy
<1> QED
  BY <1>5, <1>6, <1>8 DEF CInv

\* The pixels that cross are those of the grid asked for.
LEMMA FetchTold ==
  ASSUME IInv, CInv, Fetch
  PROVE  Held' /\ TablesTrue' /\ Told'
<1> DEFINE slot == Min(Places(reader.matrix))
           op   == ReadOp[slot + 1]
           from == IF slot = 0 THEN "sampleResult" ELSE RetainBuffer(slot)
<1>1. /\ Places(reader.matrix) # {} /\ Do(op, None) /\ Answered("grid", op)
      /\ UNCHANGED resident /\ At(DOMAIN With)
  BY DEF Fetch
<1>2. Places(reader.matrix) \subseteq 0 .. 3
  BY DEF Places, Slots
<1>3. slot \in Places(reader.matrix) /\ slot \in 0 .. 3
  BY <1>1, <1>2, LeastOf
<1>4. reader.matrix \in OwnGrids
  BY <1>1, WithTypes DEF IInv, TypeOK, CInv, Located, Reading, At
<1>5. from \in Live /\ content[from] = {reader.matrix}
  <2>1. CASE slot = 0
    <3>1. resident.grid = reader.matrix
      BY <1>3, <2>1 DEF Places, Slots
    <3>2. "sampleResult" \in GridBuffers /\ GridBuffers \subseteq Live
      BY BufferNames DEF GridBuffers
    <3> QED
      BY <1>4, <2>1, <3>1, <3>2 DEF CInv, Held
  <2>2. CASE slot # 0
    <3>1. slot \in Slots /\ resident.retained[slot] = reader.matrix
      BY <1>3, <2>2 DEF Places
    <3> QED
      BY <1>4, <2>2, <3>1, BufferNames DEF CInv, Held
  <2> QED
    BY <2>1, <2>2
<1>6. Leaves(GridEffects[op], Live) /\ Drawn(GridEffects[op].shown) = {from}
  BY <1>3, EffectsAssumption
<1> HIDE DEF slot, op, from
<1>7. Held' /\ TablesTrue'
  BY <1>1, <1>6, ShowingHolds DEF CInv, Do
<1>8. ShownBy(GridEffects[op], {Variant[reader.turn]}) = {reader.matrix}
  BY <1>5, <1>6, StampedOnce DEF ShownBy, CInv, TablesTrue
<1>9. answer'.kind = "grid" /\ answer'.grid = reader.matrix /\ answer'.got = {reader.matrix}
  BY <1>1, <1>8 DEF Answered
<1> QED
  BY <1>7, <1>9 DEF Told, AnswersReadTheirOwn, CachesTrustworthy

\* With the pixels or without, the reading goes on where it was.
LEMMA FetchSound ==
  ASSUME IInv, CInv, Fetch \/ FetchFails \/ HasPixels
  PROVE  CInv' /\ Told'
<1>1. reader \in ReaderTypes /\ resident' = resident /\ At(DOMAIN With) /\ Reading
      /\ reader.matrix \in OwnGrids
  BY WithTypes DEF IInv, TypeOK, CInv, Located, Fetch, FetchFails, HasPixels, Idly, Reading, At
<1>2. /\ Held' /\ TablesTrue' /\ Told'
  <2>1. CASE Fetch
    BY <2>1, FetchTold
  <2>2. CASE FetchFails \/ HasPixels
    <3>1. Refuse /\ Untold
      BY <2>2 DEF FetchFails, HasPixels, Idly
    <3> QED
      BY <1>1, <3>1, RefuseKeeps, UntoldTold DEF CInv
  <2> QED
    BY <2>1, <2>2
<1>3. /\ reader'.at \in {With[reader.at], Without[reader.at]}
      /\ reader'.matrix = reader.matrix /\ reader'.turn = reader.turn
      /\ reader'.cached \in {reader.cached, reader.matrix}
  <2>1. CASE Fetch
    BY <1>1, <2>1 DEF Fetch, ReaderTypes, NowCached
  <2>2. CASE FetchFails
    BY <1>1, <2>2, GoFields, LostFields DEF FetchFails
  <2>3. CASE HasPixels
    BY <1>1, <2>3, GoFields DEF HasPixels, Idly
  <2> QED
    BY <2>1, <2>2, <2>3
<1>4. reader'.at \in Following => reader'.at = "hostObserve" /\ reader.at = "observe"
  <2>1. DOMAIN With = {"keep", "cache", "observe", "admit", "deferred", "host", "merge"}
    BY DEF With
  <2>2. Attempt \notin Following
    BY DEF Attempt, Following
  <2>3. CASE reader.at = "observe"
    BY <1>3, <2>3 DEF With, Without, Following
  <2>4. CASE reader.at = "cache"
    BY <1>3, <2>2, <2>4 DEF With, Without
  <2>5. CASE reader.at \in {"keep", "admit", "deferred", "host", "merge"}
    BY <1>3, <2>5 DEF With, Without, Following
  <2> QED
    BY <1>1, <2>1, <2>3, <2>4, <2>5 DEF At
<1>5. Located'
  BY <1>1, <1>3 DEF CInv, Located
<1>6. WalkTrue'
  <2>1. CASE reader'.at \notin Following
    BY <2>1, Elsewhere
  <2>2. CASE reader'.at \in Following
    <3>1. Owned' = Owned /\ Walked' = Walked
      BY <1>1, <1>3 DEF Owned, Walked
    <3> QED
      BY <1>4, <2>2, <3>1 DEF CInv, WalkTrue, At
  <2> QED
    BY <2>1, <2>2
<1> QED
  BY <1>2, <1>5, <1>6 DEF CInv

\* A reading begins: the shared grid is the grid in place, or the host's.
LEMMA SampleSharedSound ==
  ASSUME IInv, CInv, SampleShared
  PROVE  CInv' /\ Told'
<1>1. /\ reader \in ReaderTypes /\ resident \in ResidentTypes /\ reader.at = "sample"
      /\ Held /\ TablesTrue /\ Located
  BY DEF IInv, TypeOK, CInv, SampleShared, At
<1>2. Shared \in OwnGrids
  BY DEF OwnGrids
<1>3. Held' /\ TablesTrue'
  <2>1. CASE Refuse /\ UNCHANGED resident
    BY <1>1, <2>1, RefuseKeeps
  <2>2. CASE Sampled(Shared)
    BY <1>1, <1>2, <2>2, SampledHolds
  <2>3. CASE SampleFails(Shared)
    BY <1>1, <2>3, SampleFailsHolds
  <2> QED
    BY <2>1, <2>2, <2>3 DEF SampleShared, Idly
<1>4. Told'
  <2>1. Untold
    BY DEF SampleShared, Idly
  <2> QED
    BY <2>1, UntoldTold
<1>5. /\ reader'.at \notin Following /\ reader'.cached = reader.cached
      /\ reader'.at \in {"sample", "end"} \/ reader'.matrix = Shared
  <2>1. CASE Idly("end")
    BY <1>1, <2>1, GoFields DEF Idly, Following
  <2>2. CASE Holds(Shared, IF reader.traced THEN "keep" ELSE "fused")
    BY <1>1, <2>2 DEF Holds, ReaderTypes, Following
  <2>3. CASE reader' = [reader EXCEPT !.sampler = FALSE, !.breaks = @ + 1]
    BY <1>1, <2>3 DEF ReaderTypes, Following
  <2>4. CASE reader' = [reader EXCEPT !.matrix = Shared, !.fetched = @ \cup {Shared},
                                      !.at = IF reader.traced THEN "walk" ELSE "fused"]
    BY <1>1, <2>4 DEF ReaderTypes, Following
  <2> QED
    BY <2>1, <2>2, <2>3, <2>4 DEF SampleShared
<1>6. Located'
  BY <1>1, <1>2, <1>5 DEF Located, Reading, At
<1> QED
  BY <1>3, <1>4, <1>5, <1>6, Elsewhere DEF CInv

\* A variant goes on with a grid of its own.
LEMMA SampleAlignedSound ==
  ASSUME IInv, CInv, SampleAligned
  PROVE  CInv' /\ Told'
<1> DEFINE grid == Resample[reader.turn]
           then == IF reader.variants > 1 THEN "cache" ELSE Attempt
<1>1. /\ reader \in ReaderTypes /\ resident \in ResidentTypes /\ reader.at = "missed"
      /\ Held /\ TablesTrue /\ Located /\ Reading
  BY DEF IInv, TypeOK, CInv, SampleAligned, At, Reading
<1>2. grid \in OwnGrids
  BY <1>1 DEF OwnGrids, Resample, ReaderTypes
<1>3. then \notin Following /\ Attempt \notin Following /\ "missed" \notin Following
  BY DEF Attempt, Following
<1>4. Held' /\ TablesTrue'
  <2>1. CASE Refuse /\ UNCHANGED resident
    BY <1>1, <2>1, RefuseKeeps
  <2>2. CASE Sampled(grid)
    BY <1>1, <1>2, <2>2, SampledHolds
  <2>3. CASE SampleFails(grid)
    BY <1>1, <2>3, SampleFailsHolds
  <2> QED
    BY <2>1, <2>2, <2>3 DEF SampleAligned
<1>5. Told'
  BY UntoldTold DEF SampleAligned
<1>6. /\ reader'.at \notin Following /\ reader'.cached \in {reader.cached, grid}
      /\ \/ reader'.matrix = grid
         \/ reader.cached # None /\ reader'.matrix = reader.cached
         \/ reader'.matrix = reader.matrix
  <2>1. CASE reader.cached # None /\ Aligned(reader.cached, Attempt)
    BY <1>1, <1>3, <2>1 DEF Aligned, ReaderTypes
  <2>2. CASE Aligned(grid, then)
    <3>1. reader' = [reader EXCEPT !.matrix = grid, !.resampled = TRUE, !.at = then,
                                   !.sure = FALSE, !.agrees = FALSE]
      BY <2>2 DEF Aligned
    <3> HIDE DEF grid, then
    <3> QED
      BY <1>1, <1>3, <3>1 DEF ReaderTypes
  <2>3. CASE reader' = [reader EXCEPT !.blocks = FALSE, !.breaks = @ + 1]
    BY <1>1, <1>3, <2>3 DEF ReaderTypes
  <2>4. CASE reader' = [reader EXCEPT !.matrix = grid, !.resampled = TRUE, !.at = Attempt,
                          !.sure = FALSE, !.agrees = FALSE, !.fetched = @ \cup {grid},
                          !.cached = IF reader.variants > 1 /\ @ = None THEN grid ELSE @]
    BY <1>1, <1>3, <2>4 DEF ReaderTypes
  <2> QED
    BY <2>1, <2>2, <2>3, <2>4 DEF SampleAligned
<1>7. Located'
  BY <1>1, <1>2, <1>6 DEF Located
<1> QED
  BY <1>4, <1>5, <1>6, <1>7, Elsewhere DEF CInv

\* The next variant walks for itself.
LEMMA NextVariantSound ==
  ASSUME IInv, CInv, NextVariant
  PROVE  CInv' /\ Told'
<1>1. reader \in ReaderTypes /\ Located /\ Reading
  BY DEF IInv, TypeOK, CInv, NextVariant, At, Reading
<1>2. Shared \in OwnGrids /\ Attempt \notin Following /\ "end" \notin Following
  BY DEF OwnGrids, Attempt, Following
<1>3. Held' /\ TablesTrue'
  BY RefuseKeeps DEF CInv, NextVariant
<1>4. Told'
  BY UntoldTold DEF NextVariant
<1>5. /\ reader'.at \notin Following /\ reader'.cached = reader.cached
      /\ reader'.matrix \in {Shared, reader.matrix}
  <2>1. CASE Go("end")
    BY <1>1, <1>2, <2>1, GoFields
  <2>2. CASE reader' = [reader EXCEPT !.turn = @ + 1, !.matrix = Shared, !.resampled = FALSE,
                                     !.at = Attempt, !.sure = FALSE, !.agrees = FALSE]
    BY <1>1, <1>2, <2>2 DEF ReaderTypes
  <2> QED
    BY <2>1, <2>2 DEF NextVariant
<1>6. Located'
  BY <1>1, <1>2, <1>5 DEF Located
<1> QED
  BY <1>3, <1>4, <1>5, <1>6, Elsewhere DEF CInv

-----------------------------------------------------------------------------
(* The steps between readings. *)

\* A batch loses the grid in place and builds what it says it built.
LEMMA BatchSound ==
  ASSUME IInv, CInv, Batch
  PROVE  CInv' /\ Told'
<1> DEFINE op == Flagged("batch", resident.rows, resident.dirty)
           effect == GridEffects[op]
           held == Retains \cup Built(resident.rows, TRUE)
           from == {"now"} \cup Built(resident.rows, resident.dirty)
           lost == [resident EXCEPT !.grid = None, !.control = None]
<1>1. /\ resident \in ResidentTypes /\ reader.at = "free" /\ reader' = reader
      /\ resident.rows \in BOOLEAN /\ resident.dirty \in BOOLEAN
      /\ Held /\ TablesTrue /\ Located
  BY DEF IInv, TypeOK, CInv, Batch, At, ResidentTypes
<1>2. Requests(effect, held, from)
  BY <1>1, EffectsAssumption
<1>3. /\ held \subseteq Live /\ held \cap Tables = Built(resident.rows, TRUE)
      /\ None \notin OwnGrids /\ Torn # Old
  BY BufferNames, OwnWhole DEF Built, Tables, Caches, Torn, Old
<1>4. Located' /\ WalkTrue'
  BY <1>1, Elsewhere DEF Located, Reading, At, Following
<1>5. \/ Refuse /\ resident' \in {lost, [lost EXCEPT !.dirty = TRUE]} /\ Untold
      \/ BreakOff(op, Old) /\ resident' = [lost EXCEPT !.dirty = TRUE] /\ Untold
      \/ /\ Do(op, Old) /\ resident' = [lost EXCEPT !.rows = TRUE, !.dirty = FALSE]
         /\ answer' = [NoAnswer EXCEPT !.kind = "batch", !.got = ShownBy(effect, {Old})]
  BY DEF Batch
<1>6. /\ resident'.grid = None /\ resident'.retained = resident.retained
  BY <1>1, <1>5 DEF ResidentTypes
<1>7. CASE Refuse /\ resident' \in {lost, [lost EXCEPT !.dirty = TRUE]} /\ Untold
  <2>1. resident'.rows = resident.rows /\ resident'.dirty \in {resident.dirty, TRUE}
    BY <1>1, <1>7 DEF ResidentTypes
  <2>2. Held' /\ TablesTrue'
    BY <1>1, <1>3, <1>6, <1>7, <2>1, RefuseKeeps
  <2> QED
    BY <1>4, <1>7, <2>2, UntoldTold DEF CInv
<1>8. ASSUME Does(effect, Old) \/ Breaks(effect, Old)
      PROVE  /\ Held' /\ DOMAIN content' = Live
             /\ \A b \in Tables : content'[b] \subseteq {Torn}
             /\ \A b \in held : Stays(b)
  <2> HIDE DEF op, effect
  <2>1. /\ DOMAIN content = Live /\ DOMAIN content' = Live
        /\ \A b \in Tables : content'[b] \subseteq {Torn}
        /\ \A b \in Live : effect.origin[b] = {b} => Stays(b)
    BY <1>1, <1>8, Submitted DEF TablesTrue
  <2>2. \A b \in held : Stays(b)
    BY <1>2, <1>3, <2>1 DEF Requests, Leaves
  <2>3. \A s \in Slots : RetainBuffer(s) \in held
    BY BufferNames
  <2>4. Held'
    BY <1>1, <1>3, <1>6, <2>1, <2>2, <2>3, HeldKeeps
  <2> QED
    BY <2>1, <2>2, <2>4
<1>9. CASE BreakOff(op, Old) /\ resident' = [lost EXCEPT !.dirty = TRUE] /\ Untold
  <2>1. resident'.rows = resident.rows /\ resident'.dirty = TRUE
    BY <1>1, <1>9 DEF ResidentTypes
  <2>2. Breaks(effect, Old)
    BY <1>9 DEF BreakOff
  <2>3. Built(resident'.rows, resident'.dirty) = Built(resident.rows, TRUE)
        /\ Built(resident.rows, TRUE) \subseteq Built(resident.rows, resident.dirty)
    BY <2>1 DEF Built
  <2>4. TablesTrue'
    BY <1>1, <1>8, <2>2, <2>3, TablesKeep
  <2> QED
    BY <1>4, <1>8, <1>9, <2>2, <2>4, UntoldTold DEF CInv
<1>10. CASE /\ Do(op, Old) /\ resident' = [lost EXCEPT !.rows = TRUE, !.dirty = FALSE]
            /\ answer' = [NoAnswer EXCEPT !.kind = "batch", !.got = ShownBy(effect, {Old})]
  <2>1. resident'.rows = TRUE /\ resident'.dirty = FALSE
    BY <1>1, <1>10 DEF ResidentTypes
  <2>2. Does(effect, Old)
    BY <1>10 DEF Do
  <2>3. \A x \in from \cap Live : content[x] \subseteq {Old}
    <3>1. Built(resident.rows, resident.dirty) \subseteq Tables /\ "now" \notin Live
      BY BufferNames DEF Built, Tables, Caches
    <3> QED
      BY <1>1, <3>1 DEF TablesTrue
  <2>4. answer'.kind = "batch" /\ answer'.got = ShownBy(effect, {Old})
    BY <1>10 DEF NoAnswer
  <2>5. Held' /\ DOMAIN content' = Live
        /\ (\A b \in Tables : content'[b] \subseteq {Torn}) /\ \A b \in held : Stays(b)
    BY <1>8, <2>2
  <2> HIDE DEF op, effect, held, from
  <2>6. Torn \notin {Old} /\ Old \in {Old}
    BY <1>3
  <2>7. ShownBy(effect, {Old}) \subseteq {Old}
    BY <1>1, <1>2, <2>2, <2>3, <2>6, RequestBuilds
  <2>8. \A b \in Tables \ held : content'[b] \subseteq {Old}
    BY <1>1, <1>2, <2>2, <2>3, <2>6, RequestBuilds
  <2>9. TablesTrue'
    <3>1. Built(resident'.rows, resident'.dirty) = Tables
      BY <2>1 DEF Built, Tables, Caches
    <3>2. Built(resident.rows, TRUE) \subseteq Built(resident.rows, resident.dirty)
      BY DEF Built
    <3>3. \A b \in Tables : \/ b \in Built(resident.rows, resident.dirty) /\ Stays(b)
                            \/ Torn \notin content'[b]
      BY <1>3, <2>5, <2>6, <2>8, <3>2
    <3> QED
      BY <1>1, <2>5, <3>1, <3>3, TablesKeep
  <2>10. Told'
    BY <2>4, <2>6, <2>7 DEF Told, AnswersReadTheirOwn, CachesTrustworthy
  <2> QED
    BY <1>4, <2>5, <2>9, <2>10 DEF CInv
<1> QED
  BY <1>5, <1>7, <1>9, <1>10

\* A lease begins, goes on to a hypothesis, or ends.
LEMMA LeaseSound ==
  ASSUME IInv, CInv, Lease \/ Begin \/ Release
  PROVE  CInv' /\ Told'
<1>1. reader \in ReaderTypes /\ Refuse /\ Untold /\ resident' = resident
  BY DEF IInv, TypeOK, Lease, Begin, Release, Idly
<1>2. Held' /\ TablesTrue'
  BY <1>1, RefuseKeeps DEF CInv
<1>3. Told'
  BY <1>1, UntoldTold
<1>4. NoReader \in ReaderTypes /\ NoReader.at = "free" /\ NoReader.cached = None
  BY NoReaderTypes
<1>5. reader'.at \in {"free", "leased", "sample"} /\ reader'.cached \in {None, reader.cached}
  <2>1. CASE Lease
    BY <1>4, <2>1 DEF Lease, ReaderTypes
  <2>2. CASE Begin
    BY <1>1, <2>2, GoFields DEF Begin, Idly
  <2>3. CASE Release
    BY <1>4, <2>3 DEF Release
  <2> QED
    BY <2>1, <2>2, <2>3
<1>6. Located' /\ WalkTrue'
  BY <1>5, Elsewhere DEF CInv, Located, Reading, At, Following
<1> QED
  BY <1>2, <1>3, <1>6 DEF CInv

\* What a hypothesis leaves behind is nobody's; tables stay as whole as they are.
LEMMA EndSound ==
  ASSUME IInv, CInv, End
  PROVE  CInv' /\ Told'
<1>1. NoReader \in ReaderTypes /\ NoReader.at = "free" /\ NoReader.cached = None
  BY NoReaderTypes
<1>2. reader'.at = "leased" /\ reader'.cached = None
  BY <1>1 DEF End, ReaderTypes
<1>3. Located' /\ WalkTrue'
  BY <1>2, Elsewhere DEF Located, Reading, At, Following
<1>4. Told'
  BY UntoldTold DEF End
<1>5. resident \in ResidentTypes /\ \A g : Ended(g) \notin OwnGrids
  BY OwnWhole DEF IInv, TypeOK, Ended
<1>6. /\ resident'.grid \notin OwnGrids /\ \A s \in Slots : resident'.retained[s] \notin OwnGrids
      /\ resident'.rows = resident.rows /\ resident'.dirty = resident.dirty
  BY <1>5 DEF End, ResidentTypes
<1>7. Held'
  BY <1>6 DEF Held
<1>8. TablesTrue'
  <2>1. DOMAIN content = Live /\ Tables \subseteq Live
        /\ Built(resident.rows, resident.dirty) \subseteq Tables
    BY BufferNames DEF CInv, TablesTrue, Built, Tables, Caches
  <2>2. content' = [b \in Live |-> {IF s = Torn THEN Torn ELSE Earlier : s \in content[b]}]
    BY <2>1 DEF End
  <2>3. \A b \in Tables : content'[b] \subseteq content[b]
    BY <2>1, <2>2 DEF CInv, TablesTrue
  <2> QED
    BY <1>6, <2>1, <2>2, <2>3 DEF CInv, TablesTrue
<1> QED
  BY <1>3, <1>4, <1>7, <1>8 DEF CInv

-----------------------------------------------------------------------------
(* The theorems on answers. *)

\* Nothing was asked yet, nothing counts as built.
LEMMA InitTrue == GridInit => CInv /\ Told
<1> SUFFICES ASSUME GridInit PROVE CInv /\ Told
  OBVIOUS
<1>1. reader.at = "free" /\ reader.cached = None
  BY NoReaderTypes DEF GridInit
<1>2. /\ resident.grid = None /\ resident.rows = FALSE /\ resident.dirty = TRUE
      /\ \A s \in Slots : resident.retained[s] = None
  BY DEF GridInit
<1>3. Held
  BY <1>2, OwnWhole DEF Held
<1>4. content = [b \in Live |-> IF b \in Tables THEN {Torn} ELSE {Earlier}]
  BY DEF GridInit
<1>5. TablesTrue
  BY <1>2, <1>4, BufferNames DEF TablesTrue, Built
<1>6. Located /\ WalkTrue
  BY <1>1 DEF Located, WalkTrue, Reading, At
<1>7. Told
  BY DEF GridInit, NoAnswer, Told, AnswersReadTheirOwn, CachesTrustworthy
<1> QED
  BY <1>3, <1>5, <1>6, <1>7 DEF CInv

\* Every request keeps the books and answers from them.
LEMMA StepTrue == IInv /\ CInv /\ Told /\ [Next]_vars => CInv' /\ Told'
<1> SUFFICES ASSUME IInv, CInv, Told, [Next]_vars PROVE CInv' /\ Told'
  OBVIOUS
<1>1. CASE Lease \/ Begin \/ Release
  BY <1>1, LeaseSound
<1>2. CASE Batch
  BY <1>2, BatchSound
<1>3. CASE End
  BY <1>3, EndSound
<1>4. CASE Measure
  BY <1>4, MeasureSound
<1>5. CASE SampleShared
  BY <1>5, SampleSharedSound
<1>6. CASE SampleAligned
  BY <1>6, SampleAlignedSound
<1>7. CASE NextVariant
  BY <1>7, NextVariantSound
<1>8. CASE Fetch \/ FetchFails \/ HasPixels
  BY <1>8, FetchSound
<1>9. CASE DecodeFused
  BY <1>9, DecodeFusedSound
<1>10. CASE Walk
  BY <1>10, WalkSound
<1>11. CASE CorrectOnDevice
  BY <1>11, CorrectOnDeviceSound
<1>12. CASE \/ HostObserve \/ Admission \/ AdmitFixed \/ DeferredFixed
            \/ HostCorrect \/ HostMerge
  BY <1>12, HostSound
<1>13. CASE UNCHANGED vars
  BY <1>13, UntoldTold
     DEF vars, CInv, Located, Held, TablesTrue, WalkTrue, Reading, At, Owned, Walked, OwnStamps
<1> QED
  BY <1>1, <1>2, <1>3, <1>4, <1>5, <1>6, <1>7, <1>8, <1>9, <1>10, <1>11, <1>12, <1>13 DEF Next

\* Pixels are those of the grid they were asked of, whatever displaced it; a walk
\* and a correction draw on their own grid and variant alone; a measurement draws
\* on nothing a grid left behind: for any number of requests that break off.
THEOREM AnswersCorrect == Spec => []AnswersReadTheirOwn
<1>1. Told => AnswersReadTheirOwn
  BY DEF Told
<1> QED
  BY <1>1, InitSound, StepSound, InitTrue, StepTrue, PTL DEF Spec

\* No answer rests on rows, matrices or permutations that were never built or that
\* a submission left half written.
THEOREM CachesCorrect == Spec => []CachesTrustworthy
<1>1. Told => CachesTrustworthy
  BY DEF Told
<1> QED
  BY <1>1, InitSound, StepSound, InitTrue, StepTrue, PTL DEF Spec
=============================================================================
