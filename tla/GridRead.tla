-------------------------------- MODULE GridRead --------------------------------
(***************************************************************************)
(* From a located quad to a payload: the reader of read.go samples a       *)
(* hypothesis once and tries every wire variant on it, while its context   *)
(* holds one sampled grid, three displaced ones, and parameters and tables *)
(* that outlive a request (gpu_sample.go, gpu_metadata.go, gpu_payload.go, *)
(* gpu_primary_result.go).  Every request can decline or break off; the    *)
(* reader then asks for the grid's pixels and does the same on the host.   *)
(***************************************************************************)
EXTENDS ResidentContext, TLC

CONSTANT
  MaxBreaks    \* bound: requests of one lease that fail on the way

VARIABLES
  resident,   \* which grids the device holds, and what of its state counts as good
  reader,     \* the hypothesis being read
  answer      \* what was last answered, and to which request
vars == <<content, clashes, resident, reader, answer>>

None     == "none"
Old      == "old"       \* a grid of an earlier hypothesis
Shared   == "shared"    \* the grid the variants of a hypothesis share
Resample == <<"first", "second">>   \* the one a variant resamples for itself
Variant  == <<"v1", "v2">>
Slots    == 1 .. 3      \* gpuSampleRetainSlots

\* Rows and parity matrices and permutations hold for every grid: of them only
\* counts whether they are whole.  Before they are first built they are not.
Tables == {"metadataRows", "ldpcMatrixCache", "payloadPermutationCache"}

\* What the locate left and no request of a reader changes, and what belongs to a
\* batch, its slots and its control words, whose first control stage writes them:
\* the same for every grid.
Given == {"balanced", "packedMasks", "params", "rowSummary", "rowCompacted", "metadataStatic",
          "finderDecision", "averageParams", "primaryResultControl"}

RetainBuffer(slot) == <<"sampleRetain1", "sampleRetain2", "sampleRetain3">>[slot]
SampleOp  == <<"sample0", "sample1", "sample2", "sample3">>   \* by kept slot
ReadOp    == <<"read0", "read1", "read2", "read3">>
Flagged(op, rows, dirty) == op \o (IF rows THEN "" ELSE "Rows") \o (IF dirty THEN "Reset" ELSE "")

\* What the host asks of the device on the way to a grid.
MeasureLists ==
  [counts |-> LocalModuleCounts, offsets |-> SearchChannelOffsets,
   positions |-> SearchAlignmentPositions, alignment |-> SearchAlignment]
SampleLists ==
  [sample0 |-> SampleBlocks("", 1), sample1 |-> SampleBlocks(RetainBuffer(1), 1),
   sample2 |-> SampleBlocks(RetainBuffer(2), 1), sample3 |-> SampleBlocks(RetainBuffer(3), 1),
   read0 |-> Download("sampleResult"), read1 |-> Download(RetainBuffer(1)),
   read2 |-> Download(RetainBuffer(2)), read3 |-> Download(RetainBuffer(3))]
\* Both caches are dirty together, and reset together.
RequestLists ==
  [walk |-> WalkMetadata(TRUE), walkRows |-> WalkMetadata(FALSE),
   decode     |-> DecodePrimary(TRUE, FALSE, FALSE),
   decodeRows |-> DecodePrimary(FALSE, FALSE, FALSE),
   decodeReset     |-> DecodePrimary(TRUE, TRUE, TRUE),
   decodeRowsReset |-> DecodePrimary(FALSE, TRUE, TRUE),
   correct     |-> CorrectPayload(FALSE, FALSE, FALSE),
   correctReset |-> CorrectPayload(FALSE, TRUE, TRUE),
   hosted      |-> CorrectPayload(TRUE, FALSE, FALSE),
   hostedReset |-> CorrectPayload(TRUE, TRUE, TRUE)]
\* One submission: two directions a pass, and one geometry under two variants.
BatchList(rows, dirty) ==
  LocateBatch(TRUE, 2) \o BatchAttempts(1, 2, rows, dirty, dirty) \o BatchResult(FALSE)
BatchLists ==
  [batch |-> BatchList(TRUE, FALSE), batchRows |-> BatchList(FALSE, FALSE),
   batchReset |-> BatchList(TRUE, TRUE), batchRowsReset |-> BatchList(FALSE, TRUE)]
GridLists   == MeasureLists @@ SampleLists @@ RequestLists @@ BatchLists
GridEffects == [op \in DOMAIN GridLists |-> Run(GridLists[op])]
Live        == LiveIn(GridEffects) \ Given

-----------------------------------------------------------------------------
(* What the lists amount to.                                               *)

\* The grid sampled last and where it lies, what a walk leaves to a correction,
\* and the tables that corrections build.
GridBuffers == {"sampleResult", "sampleParams"}
Retains     == {RetainBuffer(s) : s \in Slots}
Parameters  == {"ldpcParams", "payloadParams"}
Caches      == {"ldpcMatrixCache", "payloadPermutationCache"}
Built(rows, dirty) ==
  (IF rows THEN {"metadataRows"} ELSE {}) \cup (IF dirty THEN {} ELSE Caches)

\* The origins that carry stamps.
Drawn(origins) == origins \cap (Live \cup {"now"})

\* A sampling brings a grid; the one before it goes to the slot, if any.
Samples(effect, slot) ==
  /\ \A b \in GridBuffers : Drawn(effect.origin[b]) = {"now"}
  /\ slot # 0 => Drawn(effect.origin[RetainBuffer(slot)]) = {"sampleResult"}
  /\ Leaves(effect, {b \in Live \ GridBuffers : slot = 0 \/ b # RetainBuffer(slot)})

\* A request leaves some buffers alone; what it shows, and the tables it builds,
\* it draws from some.
Requests(effect, held, from) ==
  /\ Leaves(effect, held)
  /\ Drawn(effect.shown) \subseteq from
  /\ \A b \in Tables \ held : Drawn(effect.origin[b]) \subseteq from
Asked == {"now"} \cup GridBuffers

\* All of this is a matter of the lists, which no parameter enters.
ASSUME EffectsAssumption ==
  /\ Live = GridBuffers \cup Retains \cup Parameters \cup Tables
  /\ \A op \in DOMAIN MeasureLists :
       Leaves(GridEffects[op], Live) /\ Drawn(GridEffects[op].shown) = {"now"}
  /\ \A slot \in 0 .. 3 :
       /\ Samples(GridEffects[SampleOp[slot + 1]], slot)
       /\ Leaves(GridEffects[ReadOp[slot + 1]], Live)
       /\ Drawn(GridEffects[ReadOp[slot + 1]].shown)
            = {IF slot = 0 THEN "sampleResult" ELSE RetainBuffer(slot)}
  /\ \A rows, dirty \in BOOLEAN :
       LET kept    == GridBuffers \cup Retains \cup Built(rows, TRUE)
           walk    == GridEffects[Flagged("walk", rows, FALSE)]
           decode  == GridEffects[Flagged("decode", rows, dirty)]
           correct == GridEffects[Flagged("correct", TRUE, dirty)]
           hosted  == GridEffects[Flagged("hosted", TRUE, dirty)]
           batch   == GridEffects[Flagged("batch", rows, dirty)]
           built   == Asked \cup Built(FALSE, dirty)
       IN  /\ Requests(walk, kept \cup Caches, Asked \cup Built(rows, TRUE))
           /\ \A b \in Parameters :
                Drawn(walk.origin[b]) \subseteq Asked \cup Built(rows, TRUE)
           /\ Requests(decode, kept, Asked \cup Built(rows, dirty))
           /\ Requests(correct, kept \cup {"metadataRows"}, built \cup Parameters)
           /\ Requests(hosted, kept \cup {"metadataRows"}, built)
           /\ Requests(batch, Retains \cup Built(rows, TRUE), {"now"} \cup Built(rows, dirty))

-----------------------------------------------------------------------------
\* A buffer once torn tells nothing else.
Whole(b, stamps) ==
  IF Torn \in stamps THEN {Torn} ELSE IF b \in Tables THEN {} ELSE stamps

\* A submission that brings the given stamp along, and one that breaks off.
Does(effect, stamp) ==
  /\ content' = [b \in DOMAIN content |->
                   Whole(b, StampsOf(effect.origin[b], content, {stamp}))]
  /\ clashes' = clashes \cup effect.clashes
Breaks(effect, stamp) ==
  /\ content' = LET torn == TornBy(effect, content, {stamp})
                IN [b \in DOMAIN content |-> Whole(b, torn[b])]
  /\ clashes' = clashes \cup effect.clashes
Do(op, stamp)       == Does(GridEffects[op], stamp)
BreakOff(op, stamp) == Breaks(GridEffects[op], stamp)

NoAnswer == [kind |-> "none", grid |-> None, variant |-> None, got |-> {}, admitted |-> TRUE]
Answered(kind, op) ==
  answer' = [kind |-> kind, grid |-> reader.matrix, variant |-> Variant[reader.turn],
             got |-> ShownBy(GridEffects[op], {Variant[reader.turn]}), admitted |-> TRUE]
Untold == answer' = NoAnswer

At(positions) == reader.at \in positions
Go(at)        == reader' = [reader EXCEPT !.at = at]

MayBreak      == reader.breaks < MaxBreaks

\* Nothing on the device is touched.
Idly(at) == Refuse /\ Untold /\ UNCHANGED resident /\ Go(at)

NoReader == [at |-> "free", traced |-> FALSE, variants |-> 1, sampler |-> TRUE,
             blocks |-> TRUE, breaks |-> 0,
             turn |-> 1, matrix |-> None, resampled |-> FALSE, fetched |-> {},
             cached |-> None, sure |-> FALSE, agrees |-> FALSE]
GridInit ==
  /\ content = [b \in Live |-> IF b \in Tables THEN {Torn} ELSE {Earlier}]
  /\ clashes = {}
  /\ resident = [grid |-> None, retained |-> [s \in Slots |-> None], next |-> 1,
                 control |-> None, rows |-> FALSE, dirty |-> TRUE]
  /\ reader = NoReader
  /\ answer = NoAnswer

-----------------------------------------------------------------------------
(* The lease.                                                              *)

\* A detector has been located: its closures reach the context.
Lease ==
  /\ At({"free"})
  /\ \E traced \in BOOLEAN, variants \in {1, 2} :
       reader' = [NoReader EXCEPT !.at = "leased", !.traced = traced, !.variants = variants]
  /\ Refuse /\ Untold /\ UNCHANGED resident

\* LocateBatch instead: the device locates, samples and decodes by itself.  The
\* grids it samples are nobody's.
Batch ==
  /\ At({"free"})
  /\ LET op   == Flagged("batch", resident.rows, resident.dirty)
         lost == [resident EXCEPT !.grid = None, !.control = None]
     IN \/ /\ Do(op, Old)
           /\ resident' = [lost EXCEPT !.rows = TRUE, !.dirty = FALSE]
           /\ answer' = [NoAnswer EXCEPT !.kind = "batch", !.got = ShownBy(GridEffects[op], {Old})]
        \/ Refuse /\ resident' \in {lost, [lost EXCEPT !.dirty = TRUE]} /\ Untold
        \/ BreakOff(op, Old) /\ resident' = [lost EXCEPT !.dirty = TRUE] /\ Untold
  /\ UNCHANGED reader

\* The next hypothesis of the detector, or the lease ends.
Begin   == At({"leased"}) /\ Idly("sample")
Release ==
  /\ At({"leased"})
  /\ reader' = NoReader
  /\ Refuse /\ Untold /\ UNCHANGED resident

\* The hypothesis is over.  Grids of it that the device still holds are held
\* for nobody; one whose pixels were fetched no longer takes a slot.
Ended(g) == IF g \in reader.fetched THEN None ELSE IF g = None THEN None ELSE Old
End ==
  /\ At({"end"})
  /\ reader' = [NoReader EXCEPT !.at = "leased", !.traced = reader.traced,
                   !.variants = reader.variants, !.sampler = reader.sampler,
                   !.blocks = reader.blocks, !.breaks = reader.breaks]
  /\ resident' = [resident EXCEPT !.grid = Ended(@),
                    !.retained = [s \in Slots |-> Ended(@[s])], !.control = None]
  /\ content' = [b \in DOMAIN content |->
                   {IF s = Torn THEN Torn ELSE Earlier : s \in content[b]}]
  /\ Untold /\ UNCHANGED clashes

-----------------------------------------------------------------------------
(* Sampling.                                                               *)

\* retainSampledGrid: a grid without pixels is kept in a free slot, else in
\* the one whose turn it is.
Keep == resident.grid \notin reader.fetched \cup {None}
Free == {s \in Slots : resident.retained[s] \in reader.fetched \cup {None}}
Slot == IF ~Keep THEN 0 ELSE IF Free # {} THEN Min(Free) ELSE resident.next
NextSlot == IF Keep /\ Free = {} THEN (resident.next % Cardinality(Slots)) + 1
            ELSE resident.next
Settled(grid, kept) ==
  [resident EXCEPT !.grid = grid, !.control = None, !.next = NextSlot,
                   !.retained = IF Keep THEN [@ EXCEPT ![Slot] = kept] ELSE @]

\* Mutant: the grid that moved to a slot is not entered there.
SampledForgetting(grid) ==
  /\ Do(SampleOp[Slot + 1], grid)
  /\ resident' = Settled(grid, None)

\* commitRetainedSample once the submission is through.
Sampled(grid) ==
  /\ Do(SampleOp[Slot + 1], grid)
  /\ resident' = Settled(grid, resident.grid)

\* Recording fails and everything is rolled back, or the submission fails: then
\* neither the grid that was to be kept nor the one in its slot is known.
SampleFails(grid) ==
  \/ Refuse /\ resident' \in {resident, [resident EXCEPT !.control = None]}
  \/ /\ Refuse \/ BreakOff(SampleOp[Slot + 1], grid)
     /\ resident' = Settled(None, None)

CanResample == ~reader.resampled

\* Module counts and channel offsets before the shared grid, alignment patterns
\* before a resample.  The host does without an answer.
Measurements ==
  (IF At({"sample"}) /\ reader.sampler THEN {"counts", "offsets"} ELSE {})
    \cup (IF At({"missed"}) /\ CanResample /\ reader.blocks THEN {"positions", "alignment"} ELSE {})
Measure ==
  /\ \E op \in Measurements : Do(op, Variant[reader.turn]) /\ Answered("measure", op)
  /\ UNCHANGED <<resident, reader>>

\* sampleLocatedPrimary: the device samples the hypothesis, or nothing fits; an
\* error ends the use of its sampler and the host samples.
Holds(grid, at) == reader' = [reader EXCEPT !.matrix = grid, !.at = at]
SampleShared ==
  /\ At({"sample"})
  /\ \/ Idly("end")
     \/ /\ reader.sampler /\ Sampled(Shared) /\ Untold
        /\ Holds(Shared, IF reader.traced THEN "keep" ELSE "fused")
     \/ /\ reader.sampler /\ MayBreak /\ SampleFails(Shared) /\ Untold
        /\ reader' = [reader EXCEPT !.sampler = FALSE, !.breaks = @ + 1]
     \/ /\ ~reader.sampler /\ Refuse /\ Untold /\ UNCHANGED resident
        /\ reader' = [reader EXCEPT !.matrix = Shared, !.fetched = @ \cup {Shared},
                                    !.at = IF reader.traced THEN "walk" ELSE "fused"]

\* samplePrimaryByAlignment: the resample of the variant before where the
\* metadata read the same, else one of its own.
Aligned(grid, at) ==
  reader' = [reader EXCEPT !.matrix = grid, !.resampled = TRUE, !.at = at,
                           !.sure = FALSE, !.agrees = FALSE]
Attempt == IF reader.traced THEN "walk" ELSE "fused"
SampleAligned ==
  /\ At({"missed"}) /\ CanResample
  /\ LET grid == Resample[reader.turn]
         then == IF reader.variants > 1 THEN "cache" ELSE Attempt
     IN \/ /\ reader.cached # None
           /\ Aligned(reader.cached, Attempt) /\ Refuse /\ UNCHANGED resident
        \/ reader.blocks /\ Sampled(grid) /\ Aligned(grid, then)
        \/ /\ reader.blocks /\ MayBreak /\ SampleFails(grid)
           /\ reader' = [reader EXCEPT !.blocks = FALSE, !.breaks = @ + 1]
        \/ /\ ~reader.blocks /\ Refuse /\ UNCHANGED resident
           /\ reader' = [reader EXCEPT !.matrix = grid, !.resampled = TRUE, !.at = Attempt,
                           !.sure = FALSE, !.agrees = FALSE, !.fetched = @ \cup {grid},
                           !.cached = IF reader.variants > 1 /\ @ = None THEN grid ELSE @]
  /\ Untold

\* No resample, or the second attempt missed too: the next variant, if any.
NextVariant ==
  /\ At({"missed"})
  /\ \/ /\ reader.turn < reader.variants
        /\ reader' = [reader EXCEPT !.turn = @ + 1, !.matrix = Shared, !.resampled = FALSE,
                                    !.at = Attempt, !.sure = FALSE, !.agrees = FALSE]
     \/ reader.turn = reader.variants /\ Go("end")
  /\ Refuse /\ Untold /\ UNCHANGED resident

-----------------------------------------------------------------------------
(* The pixels of a grid.                                                   *)

\* MaterializeGrid: from where the device holds it.
Places(grid) ==
  (IF resident.grid = grid THEN {0} ELSE {}) \cup {s \in Slots : resident.retained[s] = grid}
Fetched == reader.matrix \in reader.fetched

\* What follows with the pixels, and what without.
With    == [keep |-> "walk", cache |-> Attempt, observe |-> "hostObserve",
            admit |-> "admitFixed", deferred |-> "deferredFixed",
            host |-> "hostCorrect", merge |-> "hostMerge"]
Without == [keep |-> "walk", cache |-> Attempt, observe |-> "missed", admit |-> "missed",
            deferred |-> "merge", host |-> "merge", merge |-> "missed"]
NowCached == IF At({"cache"}) /\ reader.cached = None THEN reader.matrix ELSE reader.cached

Fetch ==
  /\ At(DOMAIN With) /\ ~Fetched /\ Places(reader.matrix) # {}
  /\ LET op == ReadOp[Min(Places(reader.matrix)) + 1]
     IN Do(op, None) /\ Answered("grid", op)
  /\ reader' = [reader EXCEPT !.fetched = @ \cup {reader.matrix}, !.cached = NowCached,
                              !.at = With[reader.at]]
  /\ UNCHANGED resident
FetchFails ==
  /\ At(DOMAIN With) /\ ~Fetched
  /\ \/ Places(reader.matrix) = {} /\ Go(Without[reader.at])
     \/ MayBreak /\ reader' = [reader EXCEPT !.at = Without[reader.at], !.breaks = @ + 1]
  /\ Refuse /\ Untold /\ UNCHANGED resident
HasPixels == At(DOMAIN With) /\ Fetched /\ Idly(With[reader.at])

-----------------------------------------------------------------------------
(* Requests to the device.  Each asks for the grid that is sampled now, and *)
(* declines any other.                                                      *)

\* Mutant: the request is taken for whichever grid was sampled last.
OwnedByAnyone == resident.grid # None
Owned == reader.matrix = resident.grid

\* A request that declines, or breaks off and may leave the caches half written.
Declines(at) == ~Owned /\ Idly(at)

\* Mutant: a correction that broke off leaves the caches as good.
LostForgiving(op, dirties, at) ==
  /\ MayBreak
  /\ Refuse \/ BreakOff(op, Variant[reader.turn])
  /\ resident' = [resident EXCEPT !.control = None]
  /\ reader' = [reader EXCEPT !.at = at, !.breaks = @ + 1]
  /\ Untold
Lost(op, dirties, at) ==
  /\ MayBreak
  /\ Refuse \/ BreakOff(op, Variant[reader.turn])
  /\ resident' = [resident EXCEPT !.control = IF dirties = "corrects" THEN @ ELSE None,
                                  !.dirty = IF dirties = "walks" THEN @ ELSE TRUE]
  /\ reader' = [reader EXCEPT !.at = at, !.breaks = @ + 1]
  /\ Untold

\* DecodePrimaryOnDevice: walk and correction at once.  Answered, it decides;
\* colours it does not cover leave it to the walk, which does not either.
DecodeFused ==
  /\ At({"fused"})
  /\ LET op == Flagged("decode", resident.rows, resident.dirty)
     IN \/ Declines("walk")
        \/ /\ Owned
           /\ Do(op, Variant[reader.turn]) /\ Answered("decode", op)
           /\ resident' = [resident EXCEPT !.control = None, !.rows = TRUE, !.dirty = FALSE]
           /\ \E at \in {"end", "missed", "uncovered"} : Go(at)
        \/ Owned /\ Lost(op, "decodes", "walk")

\* Observed: do the parities vouch for the metadata, do the fixed patterns agree?
Observed(at) ==
  \E sure, agrees \in BOOLEAN :
    reader' = [reader EXCEPT !.at = at, !.sure = sure, !.agrees = agrees]

\* ObservePrimaryOnDevice: the walk leaves the payload's parameters behind it.
Walk ==
  /\ At({"walk", "uncovered"})
  /\ LET op == Flagged("walk", resident.rows, FALSE)
         walked(control) == [resident EXCEPT !.control = control, !.rows = TRUE]
     IN \/ Declines("observe")
        \/ /\ Owned
           /\ Do(op, Variant[reader.turn]) /\ Answered("walk", op)
           /\ \/ /\ At({"walk"})
                 /\ resident' = walked(Variant[reader.turn]) /\ Observed("admission")
              \/ At({"walk"}) /\ resident' = walked(None) /\ Go("missed")
              \/ resident' = walked(None) /\ Go("observe")
        \/ Owned /\ Lost(op, "walks", "observe")

\* ObservePrimary on the pixels.
HostObserve ==
  /\ At({"hostObserve"})
  /\ \/ Observed("admission")
     \/ Go("missed")
  /\ Refuse /\ Untold /\ UNCHANGED resident

\* AdmitPayloadCorrection: what the parities vouch for is admitted; else the
\* palette has to cohere, and the fixed patterns to agree.  Untraced, the
\* patterns are left to the device.
Admission ==
  /\ At({"admission"})
  /\ \/ Idly("missed") /\ ~reader.sure
     \/ Idly(IF ~reader.traced THEN "correct" ELSE IF reader.sure THEN "host" ELSE "admit")
AdmitFixed ==
  /\ At({"admitFixed"})
  /\ Idly(IF reader.agrees THEN "host" ELSE "missed")
DeferredFixed ==
  /\ At({"deferredFixed"})
  /\ Idly(IF reader.agrees THEN "host" ELSE "merge")

\* CorrectSymbolPayload, on the parameters of the walk of this very variant or on
\* the host's; the deferred patterns are checked on the way.  It declines
\* another grid, and a shape it does not cover.
Admitted == reader.sure \/ reader.agrees
Declined == IF reader.sure THEN "host" ELSE "deferred"
CorrectOnDevice ==
  /\ At({"correct"})
  /\ LET walked == resident.control = Variant[reader.turn]
         op     == Flagged(IF walked THEN "correct" ELSE "hosted", TRUE, resident.dirty)
     IN \/ Idly(Declined)
        \/ /\ Owned
           /\ Do(op, Variant[reader.turn]) /\ Answered("decode", op)
           /\ resident' = [resident EXCEPT !.dirty = FALSE]
           /\ \/ Admitted /\ Go("end")
              \/ Go("merge")
        \/ Owned /\ Lost(op, "corrects", Declined)

\* decodeSymbol on the host, then once more with the copies of the palette merged.
Corrected ==
  /\ answer' = [NoAnswer EXCEPT !.kind = "host", !.admitted = Admitted]
  /\ Refuse /\ UNCHANGED resident
HostCorrect ==
  /\ At({"hostCorrect"})
  /\ Corrected
  /\ Go("end") \/ Go("merge")
HostMerge ==
  /\ At({"hostMerge"})
  /\ Corrected
  /\ Go("end") \/ Go("missed")

-----------------------------------------------------------------------------
Next ==
  \/ Lease \/ Batch \/ Begin \/ Release \/ End
  \/ Measure \/ SampleShared \/ SampleAligned \/ NextVariant
  \/ Fetch \/ FetchFails \/ HasPixels
  \/ DecodeFused \/ Walk \/ HostObserve \/ Admission \/ AdmitFixed \/ DeferredFixed
  \/ CorrectOnDevice \/ HostCorrect \/ HostMerge
Spec == GridInit /\ [][Next]_vars

-----------------------------------------------------------------------------
(* Properties.                                                             *)

\* What comes from a grid comes from the one it was asked of: pixels, after any
\* displacement and any submission that broke off; a walk and a correction, under
\* the variant they were asked for and no earlier request's parameters.  A
\* measurement before a grid rests on nothing a grid left behind.
AnswersReadTheirOwn ==
  /\ answer.kind = "grid" => answer.got = {answer.grid}
  /\ answer.kind \in {"walk", "decode"} =>
       answer.got \ {Torn} \subseteq {answer.grid, answer.variant}
  /\ answer.kind = "measure" => answer.got = {answer.variant}

\* No answer rests on rows, matrices or permutations that were never built or
\* that a broken submission left half written.
CachesTrustworthy == answer.kind \in {"walk", "decode", "batch"} => Torn \notin answer.got

\* The grid the variants share stays within reach, in place or displaced, for as
\* long as a variant is to come, unless something broke.
SharedGridStaysReadable ==
  At({"missed"}) /\ reader.turn < reader.variants /\ reader.breaks = 0
    => Shared \in reader.fetched \/ Places(Shared) # {}

=============================================================================
