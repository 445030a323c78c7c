----------------------------- MODULE FinderLocate -----------------------------
(***************************************************************************)
(* The locate of one route over its resident context: the passes of        *)
(* detectprimary.go and findprimary.go, with the operations of             *)
(* gpu_resident_binarizer.go, gpu_finder_fold.go and                       *)
(* gpu_finder_preparer.go they call, and what any of them leaves to the    *)
(* next when it fails.  What a pass sees in the image is a choice.         *)
(***************************************************************************)
EXTENDS ResidentContext, TLC

CONSTANT Directions   \* the directions a pass sweeps after its rows

\* finderScanDirectionCount, less the rows.
MaxDirections == 5
ASSUME DirectionsAssumption == Directions \in 1 .. MaxDirections

VARIABLES
  host,        \* the flags of the resident binarizer and its preparer
  locate,      \* the locate that holds the context
  last,        \* the detector of the lease before, which its caller may still hold
  answer       \* what the host was last told, and of which pass it asked
vars == <<content, clashes, host, locate, last, answer>>

Seek == {"current"}

\* The stamp of a control word that only resident batches write: no lease
\* resets it, and the print retries read it.
Word == "word"

\* The passes of a locate, by input and thresholds, with the row chain of the
\* current family or, before its kernels are compiled, without it.
PassLists ==
  [raw      |-> BinarizeLevel(FALSE, Seek, Seek, FALSE),
   average  |-> PrepareAverage(Seek, Seek, FALSE),
   filtered |-> Descreen \o BinarizePrepared("filtered", FALSE, Seek, Seek),
   sharp    |-> BinarizePrepared("balanced", FALSE, Seek, Seek),
   descreenFirst  |-> ResidentRetry("descreenFirst"),
   descreenSecond |-> ResidentRetry("descreenSecond"),
   printFirst     |-> ResidentRetry("printFirst"),
   printSecond    |-> ResidentRetry("printSecond")]
BareLists ==
  [rawBare      |-> BinarizeLevel(FALSE, Seek, {}, FALSE),
   averageBare  |-> PrepareAverage(Seek, {}, FALSE),
   filteredBare |-> Descreen \o BinarizePrepared("filtered", FALSE, Seek, {}),
   sharpBare    |-> BinarizePrepared("balanced", FALSE, Seek, {})]
Bare == [raw |-> "rawBare", average |-> "averageBare", filtered |-> "filteredBare",
         sharp |-> "sharpBare"]
StepLists(directions) ==
  [summary   |-> ReadRowSummary \o ReadRowCompacted,
   records   |-> ReadScanRecords(Seek),
   rescan    |-> FinderScan(Seek, Seek, FALSE) \o ReadRowSummary \o ReadRowCompacted,
   recordsBare |-> ReadScanRecords({}),
   masks     |-> MaterializeMasks,
   preserve  |-> PreserveMasks,
   preserved |-> FetchPreserved,
   balanced  |-> Download("balanced"),
   resetPools |-> ResetPools,
   clearSeeds |-> ClearSeedHistogram,
   readPool   |-> ReadPool,
   readSeeds  |-> ReadSeedHistogram,
   pitch      |-> EstimatePitch(TRUE),
   batch      |-> DirectionBatch(directions) \o ReadDirectionBatch,
   sweep      |-> DirectionBatch(1) \o ReadDirectionBatch,
   sweepBare  |-> DirectionScan(FALSE) \o ReadDirectionRecords,
   foldRow       |-> FoldOutcomes(<<"rowCounted">>) \o ReadFold(FALSE),
   foldVertical  |-> FoldOutcomes(<<"rowCounted", "directional">>) \o ReadFold(FALSE),
   foldDirection |-> FoldOutcomes(<<"directional">>) \o ReadFold(FALSE)]
ListsOf(directions) == PassLists @@ BareLists @@ StepLists(directions)
EffectsOf(directions) ==
  LET lists == ListsOf(directions) IN [op \in DOMAIN lists |-> Run(lists[op])]
LocateEffects == EffectsOf(Directions)

Submit(op)    == Succeed(LocateEffects[op])
Fail(op)      == FailOn(LocateEffects[op])
Shown(op)     == ShownBy(LocateEffects[op], {Current})
BeginPass(op) == SucceedAnew(LocateEffects[op])

-----------------------------------------------------------------------------
(* What the lists amount to.                                               *)

\* What passes draw on; what the scan of the rows leaves, without and with its
\* chain; what the directions leave; what a locate gathers.
Level        == {"balanced", "params", "pitchScheduleControl", "maxSurvivors"}
Records      == {"packedMasks", "scanRecords"}
Rows         == {"chainOutcomes", "rowSummary", "rowCompacted"}
DirectionOutcomes == {"dirBatchSummary", "dirBatchOutcomes"}
Pools        == {"familyPoolRecord", "contextualPoolRecord", "familyPool", "contextualPool"}
Others       == {"seedHistogram", "preservedMasks"}
Live         == Level \cup Records \cup Rows \cup DirectionOutcomes \cup Pools \cup Others
\* What a pass of each kind finds of its lease.
Bases ==
  [raw |-> {}, average |-> {"balanced"}, filtered |-> {"balanced"}, sharp |-> {"balanced"},
   descreenFirst  |-> {"balanced", "params"},
   descreenSecond |-> {"balanced", "params", "pitchScheduleControl"},
   printFirst |-> Level, printSecond |-> Level]

\* The buffers a fold takes its candidates from.
Sources(op) ==
  CASE op = "foldRow"       -> {"rowCompacted", "rowSummary"}
    [] op = "foldVertical"  -> {"rowCompacted", "rowSummary"} \cup DirectionOutcomes
    [] op = "foldDirection" -> DirectionOutcomes

\* The origins that carry stamps.
Drawn(origins) == origins \cap (Live \cup {"now"})
From(effect, bs, from) == \A b \in bs : Drawn(effect.origin[b]) \subseteq {"now"} \cup from
\* A scan leaves what it found now, in some buffers and among the seeds.
Scans(effect, bs, from) ==
  /\ From(effect, bs, from) /\ \A b \in bs : "now" \in effect.origin[b]
  /\ From(effect, {"seedHistogram"}, from \cup {"seedHistogram"})
Passes(effect, kind, bs) ==
  /\ Scans(effect, bs, Bases[kind])
  /\ IF kind = "raw" THEN Drawn(effect.origin["balanced"]) = {"now"}
                     ELSE Leaves(effect, {"balanced"})
  /\ From(effect, {"params"}, Bases[kind])
  /\ "params" \in Bases[kind] => From(effect, {"pitchScheduleControl"}, Bases[kind])
  /\ Leaves(effect, {"maxSurvivors", "preservedMasks"} \cup DirectionOutcomes \cup Pools)

\* Nothing but its own word is drawn from what a batch left.
Dry(effect) ==
  /\ From(effect, Live \ {"maxSurvivors"}, Live \ {"maxSurvivors"})
  /\ "maxSurvivors" \notin effect.shown

\* What the host is shown by the lists that change nothing.
Tells ==
  [summary |-> {"rowSummary", "rowCompacted"}, records |-> {"scanRecords", "chainOutcomes"},
   recordsBare |-> {"scanRecords"}, masks |-> {"packedMasks"}, preserved |-> {"preservedMasks"},
   balanced |-> {"balanced"}, readSeeds |-> {"seedHistogram"},
   readPool |-> {"familyPool", "familyPoolRecord"},
   pitch |-> {"now", "balanced", "params"}, sweepBare |-> {"now", "packedMasks"}]
Gathering ==
  DOMAIN Tells \cup {"rescan", "batch", "sweep", "foldRow", "foldVertical", "foldDirection",
                     "resetPools", "clearSeeds", "preserve"}

\* All of this is a matter of the lists, which no parameter enters.
ASSUME EffectsAssumption ==
  \A n \in 1 .. MaxDirections :
    LET does == EffectsOf(n)
    IN  /\ LiveIn(does) = Live
        /\ \A kind \in DOMAIN Bases : Passes(does[kind], kind, Records \cup Rows)
        /\ \A kind \in DOMAIN Bare : Passes(does[Bare[kind]], kind, Records)
        /\ \A op \in (DOMAIN Bases \ Prints) \cup {Bare[kind] : kind \in DOMAIN Bare}
                    \cup Gathering : Dry(does[op])
        /\ \A op \in DOMAIN Tells :
             Leaves(does[op], Live) /\ Drawn(does[op].shown) = Tells[op]
        /\ Drawn(does["rescan"].shown) = {"now", "balanced", "packedMasks"}
        /\ Scans(does["rescan"], Rows \cup {"scanRecords"}, {"balanced", "packedMasks"})
        /\ Leaves(does["rescan"], Live \ (Rows \cup {"scanRecords", "seedHistogram"}))
        /\ \A op \in {"batch", "sweep"} :
             /\ Scans(does[op], DirectionOutcomes, {"balanced", "packedMasks"})
             /\ Leaves(does[op], Live \ (DirectionOutcomes \cup {"seedHistogram"}))
        /\ \A op \in {"foldRow", "foldVertical", "foldDirection"} :
             /\ From(does[op], Pools, Pools \cup Sources(op))
             /\ Drawn(does[op].shown) \subseteq {"now"} \cup Pools \cup Sources(op)
             /\ Leaves(does[op], Live \ Pools)
        /\ \A b \in Pools : Drawn(does["resetPools"].origin[b]) = {}
        /\ Leaves(does["resetPools"], Live \ Pools)
        /\ Drawn(does["clearSeeds"].origin["seedHistogram"]) = {}
        /\ Leaves(does["clearSeeds"], Live \ {"seedHistogram"})
        /\ Drawn(does["preserve"].origin["preservedMasks"]) = {"packedMasks"}
        /\ Leaves(does["preserve"], Live \ {"preservedMasks"})

\* gpuFinderFamilyPoolMaxShares: per pass the rows, the rows with the vertical
\* sweep, and every further direction.
MaxPreparedPasses == 6

MaxShares == MaxPreparedPasses * (Directions + 2)

NoAnswer == [kind |-> "none", want |-> Current, got |-> {}, sources |-> {}]
Answer(kind, want, got) == [kind |-> kind, want |-> want, got |-> got, sources |-> {}]
NoDetector == [closure |-> "none", fresh |-> FALSE]

LocateInit ==
  /\ BufferInit(Live)
  /\ host = [masks |-> {}, stale |-> FALSE,
             mirrored |-> FALSE, mirror |-> {}, shares |-> 0]
  /\ locate = [at |-> "idle"]
  /\ last = NoDetector
  /\ answer = NoAnswer

-----------------------------------------------------------------------------
(* The lease.                                                              *)

At(positions) == locate.at \in positions
Go(at)        == locate' = [locate EXCEPT !.at = at]

\* The generation moves on.  A snapshot has no generation to compare.
Supersede == last' = IF last.closure = "lazy" THEN NoDetector ELSE last

\* Mutant: the masks of the pass before stay cached.
NewPassKeepingMasks(kind) ==
  /\ Supersede
  /\ locate' = [locate EXCEPT !.at = IF kind = "raw" THEN "reset" ELSE "rows",
                              !.kind = kind, !.plan = IF @ = <<>> THEN @ ELSE Tail(@),
                              !.closure = "lazy", !.pixels = FALSE, !.have = FALSE]
  /\ UNCHANGED host

\* A new pass on the device: lazyChannelsLocked, and the detector takes over
\* its closure; lazy closures made before it only fail from now on.  The raw
\* pass comes before the reset of what a locate gathers.
NewPass(kind) ==
  /\ host' = [host EXCEPT !.masks = {}]
  /\ Supersede
  /\ locate' = [locate EXCEPT !.at = IF kind = "raw" THEN "reset" ELSE "rows",
                              !.kind = kind, !.plan = IF @ = <<>> THEN @ ELSE Tail(@),
                              !.closure = "lazy", !.pixels = FALSE, !.have = FALSE]

\* The context is acquired and the level is about to be binarized.  The control
\* word is what the last resident batch of any earlier holder left.
Acquire ==
  /\ At({"idle"})
  /\ content' = [[b \in DOMAIN content |-> {Earlier}] EXCEPT !.maxSurvivors = {Word}]
  /\ UNCHANGED clashes
  /\ host' = [host EXCEPT !.masks = IF @ = {} THEN {} ELSE {Earlier},
                          !.mirror = IF @ = {} THEN {} ELSE {Earlier}]
  /\ \E chained \in BOOLEAN :
       locate' = [at |-> "binarize", chained |-> chained, kind |-> "raw", plan |-> <<>>,
                  scanner |-> TRUE, seeds |-> FALSE, have |-> FALSE, batch |-> {}, dir |-> 0,
                  closure |-> "none", pixels |-> FALSE, bitmap |-> FALSE]
  /\ last' = IF last.fresh THEN [last EXCEPT !.fresh = FALSE] ELSE NoDetector
  /\ answer' = NoAnswer

\* The lease ends without a detector.
Drop ==
  /\ locate' = [at |-> "idle"]
  /\ UNCHANGED <<host, last>>
\* The lease ends with one.  Nothing is taken from the detector: a closure not
\* yet used stays with its caller.
Release ==
  /\ At({"held"})
  /\ locate' = [at |-> "idle"]
  /\ last' = IF locate.closure = "none" THEN NoDetector
             ELSE [closure |-> locate.closure, fresh |-> TRUE]
  /\ answer' = NoAnswer
  /\ Refuse
  /\ UNCHANGED host

\* The list of a pass: without its chain while that is not compiled.
ListOf(kind) == IF locate.chained THEN kind ELSE Bare[kind]
\* One pass: the first of a lease, or the next of its plan.  An error ends it.
RunPass(kind) ==
  /\ \/ BeginPass(ListOf(kind)) /\ NewPass(kind)
     \/ Fail(ListOf(kind)) /\ Drop
  /\ answer' = NoAnswer
Binarize == At({"binarize"}) /\ RunPass("raw")

-----------------------------------------------------------------------------
(* Accumulated over a locate: the candidate pools and the seed histogram.  *)

\* Mutant: a failed reset leaves the pools as they were, but not stale.
ResetPoolsForgiving ==
  /\ At({"reset"})
  /\ \/ /\ Submit("resetPools")
        /\ Go("clear")
     \/ /\ Fail("resetPools")
        /\ Go("rows")
  /\ host' = [host EXCEPT !.mirrored = FALSE, !.mirror = {}]
  /\ answer' = NoAnswer
  /\ UNCHANGED last

\* ResetFinderPools in its two submissions.  Until both are through, the pools
\* count as stale; a failure is not reported.
ResetPoolsStep ==
  /\ At({"reset"})
  /\ \/ /\ Submit("resetPools")
        /\ Go("clear")
     \/ /\ Fail("resetPools")
        /\ Go("rows")
  /\ host' = [host EXCEPT !.stale = TRUE, !.mirrored = FALSE, !.mirror = {}]
  /\ answer' = NoAnswer
  /\ UNCHANGED last

ClearSeedsStep ==
  /\ At({"clear"})
  /\ \/ /\ Submit("clearSeeds")
        /\ host' = [host EXCEPT !.stale = FALSE, !.shares = 0]
     \/ /\ Fail("clearSeeds")
        /\ UNCHANGED host
  /\ Go("rows")
  /\ answer' = NoAnswer
  /\ UNCHANGED last

\* MaterializeFinderPool for candidateUnion: the mirror, or the pool as it is.
CandidateUnion ==
  /\ At({"held"})
  /\ \/ /\ host.mirrored
        /\ Refuse /\ UNCHANGED host
        /\ answer' = Answer("pool", Current, host.mirror)
     \/ /\ ~host.mirrored
        /\ Submit("readPool")
        /\ host' = [host EXCEPT !.mirrored = TRUE, !.mirror = Shown("readPool")]
        /\ answer' = Answer("pool", Current, Shown("readPool"))
  /\ UNCHANGED <<locate, last>>

-----------------------------------------------------------------------------
(* The pixels of the current channels, when a host arm asks for them.      *)

\* ensureChannels takes its closure once.  The lazy one checks its generation
\* and downloads the masks unless the host has them.  The preserved one fetches
\* the snapshot, once, for all pixels or for one; a fetch that fails can be
\* tried again by the readers of single pixels.
MasksNow == IF host.masks # {} THEN host.masks ELSE Shown("masks")
Deliver(want) ==
  /\ IF host.masks # {} THEN Refuse ELSE Submit("masks")
  /\ host' = [host EXCEPT !.masks = MasksNow]
  /\ answer' = Answer("masks", want, MasksNow)
TakeClosure(pixels) ==
  locate' = [locate EXCEPT !.closure = "none", !.pixels = pixels]
EnsureChannels ==
  /\ At({"hostRows", "hits", "hostSweep", "held"})
  /\ ~locate.pixels
  /\ \/ /\ locate.closure = "lazy"
        /\ Deliver(Current) /\ TakeClosure(TRUE)
     \/ /\ locate.closure = "preserved"
        /\ Submit("preserved") /\ TakeClosure(TRUE)
        /\ answer' = Answer("masks", Current, Shown("preserved"))
        /\ UNCHANGED host
     \/ /\ locate.closure = "lazy"
        /\ Refuse /\ TakeClosure(FALSE)
        /\ answer' = NoAnswer /\ UNCHANGED host
  /\ UNCHANGED last

\* ensureBitmap downloads the balanced level, which only the raw pass writes.
EnsureBitmap ==
  /\ At({"held"})
  /\ ~locate.bitmap
  /\ locate' = [locate EXCEPT !.bitmap = TRUE]
  /\ Submit("balanced")
  /\ answer' = Answer("balanced", Current, Shown("balanced"))
  /\ UNCHANGED <<host, last>>

\* The detector of the lease before is asked for its pixels, before the context
\* has a next holder or after.
LateChannels ==
  /\ last.closure = "lazy"
  /\ last' = NoDetector
  /\ Deliver(IF last.fresh THEN Current ELSE Earlier)
  /\ UNCHANGED locate
\* A snapshot it took can be fetched at any moment, whoever holds the context:
\* nothing compares a generation or a lease, and FetchPreserved changes nothing.
\* This is what it would show now.
LateSnapshot == content["preservedMasks"]

-----------------------------------------------------------------------------
(* The rows of a pass.                                                     *)

\* The locate moves on without having told the host anything.
Silently ==
  /\ Refuse
  /\ answer' = NoAnswer
  /\ UNCHANGED <<host, last>>
\* retireDirectionalScanner: the first device error ends the use of the scanner.
Retire(at) == locate' = [locate EXCEPT !.at = at, !.scanner = FALSE]

\* FoldFinderOutcomes: it claims its share first, and what the pools held on
\* the host is void before the submission.  FoldFails leaves only an error.
FoldHost == [host EXCEPT !.shares = @ + 1, !.mirrored = FALSE, !.mirror = {}]
Folds(op) ==
  /\ host.shares < MaxShares
  /\ Submit(op)
  /\ host' = FoldHost
  /\ answer' = [Answer("fold", Current, Shown(op))
                 EXCEPT !.sources = UNION {content[b] : b \in Sources(op)}]
  /\ UNCHANGED last
FoldFails(op) ==
  /\ \/ /\ host.shares < MaxShares
        /\ Fail(op)
        /\ host' = FoldHost /\ answer' = NoAnswer
     \/ /\ host.shares = MaxShares
        /\ Refuse
        /\ answer' = Answer("refused", Current, {}) /\ UNCHANGED host
  /\ UNCHANGED last

\* foldCurrentFamilyHits: the row chain's candidates, folded on the device.
\* Nothing is folded into pools that are stale, nor without the chain.
FoldRow ==
  /\ At({"rows"})
  /\ \/ /\ locate.scanner /\ locate.chained /\ ~host.stale
        /\ Folds("foldRow")
        /\ \E at \in {"settle", "vertical", "hostRows"} : Go(at)
     \/ /\ locate.scanner /\ locate.chained /\ ~host.stale
        /\ FoldFails("foldRow")
        /\ Retire("hostRows")
     \/ /\ ~(locate.scanner /\ locate.chained) \/ host.stale
        /\ Silently /\ Go("hostRows")

\* FoldRowVertical: too few types seen, so the column sweep joins the rows.
ScanVertical ==
  /\ At({"vertical"})
  /\ \/ Submit("sweep") /\ Go("foldVertical")
     \/ Fail("sweep") /\ Retire("hostRows")
  /\ answer' = NoAnswer
  /\ UNCHANGED <<host, last>>
FoldVertical ==
  /\ At({"foldVertical"})
  /\ \/ /\ Folds("foldVertical")
        /\ \E at \in {"settle", "hostRows"} : Go(at)
     \/ FoldFails("foldVertical") /\ Retire("hostRows")

\* consumeCurrentFamilyHits: the rows replayed on the host, from the device's
\* counters, its records, or a rescan of a record buffer that was too small.
\* Without the chain every record is checked against the pixels.
ReplayRows ==
  /\ At({"hostRows"})
  /\ \E op \in IF locate.chained THEN {"summary", "records", "rescan"} ELSE {"recordsBare"} :
       /\ locate.chained \/ locate.pixels
       /\ Submit(op)
       /\ answer' = Answer("rows", Current, Shown(op))
       /\ locate' = [locate EXCEPT !.at = "settle", !.seeds = @ \/ op \in {"records", "recordsBare"}]
  /\ UNCHANGED <<host, last>>
\* The device gave no rows: the host walks the pixels, or there are none.
WalkRows ==
  /\ At({"hostRows"})
  /\ locate.pixels \/ locate.closure = "none"
  /\ locate' = [locate EXCEPT !.at = "settle", !.seeds = @ \/ locate.pixels]
  /\ Silently

\* The rows settle the pass, or the directions are tried.
Settle ==
  /\ At({"settle"})
  /\ \/ locate' = [locate EXCEPT !.at = "finish", !.have = TRUE]
     \/ Go("directions")
  /\ Silently

-----------------------------------------------------------------------------
(* The directions of a pass.                                               *)

\* sweepDirectionalFamily asks the scanner while there is one.
NextSweep == IF locate.scanner THEN "sweep" ELSE "hostSweep"

\* batchDirectionalSweeps: all directions in one submission.  Its error is
\* dropped; each direction then sweeps for itself.
BatchSweeps ==
  /\ At({"directions"})
  /\ \/ /\ locate.scanner /\ locate.chained
        /\ Submit("batch")
        /\ locate' = [locate EXCEPT !.at = "sweep", !.dir = 1, !.batch = 1 .. Directions]
     \/ /\ locate.scanner /\ locate.chained
        /\ Fail("batch")
        /\ locate' = [locate EXCEPT !.at = "sweep", !.dir = 1, !.batch = {}]
     \/ /\ ~(locate.scanner /\ locate.chained)
        /\ Refuse
        /\ locate' = [locate EXCEPT !.at = NextSweep, !.dir = 1, !.batch = {}]
  /\ answer' = NoAnswer
  /\ UNCHANGED <<host, last>>

\* takeOrScanDirection: the batch hands out every direction once.
TakeSweep ==
  /\ At({"sweep"}) /\ locate.dir \in locate.batch
  /\ locate' = [locate EXCEPT !.at = "foldDirection", !.batch = @ \ {locate.dir}]
  /\ Silently
ScanDirection ==
  /\ At({"sweep"}) /\ locate.dir \notin locate.batch
  /\ LET op == IF locate.chained THEN "sweep" ELSE "sweepBare"
     IN \/ /\ Submit(op)
           /\ Go(IF locate.chained THEN "foldDirection" ELSE "hits")
           /\ answer' = IF locate.chained THEN NoAnswer
                        ELSE Answer("rows", Current, Shown(op))
        \/ /\ Fail(op)
           /\ Retire("hostSweep") /\ answer' = NoAnswer
  /\ UNCHANGED <<host, last>>
FoldDirection ==
  /\ At({"foldDirection"})
  /\ \/ /\ ~host.stale
        /\ Folds("foldDirection")
        /\ \E at \in {"swept", "hostSweep"} : Go(at)
     \/ ~host.stale /\ FoldFails("foldDirection") /\ Retire("hostSweep")
     \/ host.stale /\ Silently /\ Go("hostSweep")

\* Hits of a direction without its chain are checked against the pixels, and a
\* direction the device gave nothing for is walked on them.
HostSweep ==
  /\ At({"hits", "hostSweep"})
  /\ locate.pixels \/ locate.closure = "none"
  /\ locate' = [locate EXCEPT !.at = "swept", !.seeds = @ \/ locate.pixels]
  /\ Silently
Swept ==
  /\ At({"swept"})
  /\ \/ locate' = [locate EXCEPT !.at = "finish", !.have = TRUE, !.batch = {}, !.dir = 0]
     \/ /\ locate.dir < Directions
        /\ locate' = [locate EXCEPT !.at = NextSweep, !.dir = @ + 1]
     \/ /\ locate.dir = Directions
        /\ locate' = [locate EXCEPT !.at = "next", !.batch = {}, !.dir = 0]
  /\ Silently

-----------------------------------------------------------------------------
(* From pass to pass.                                                      *)

\* After the raw and the average pass the retries are planned, on the device
\* when it has every seed and can, else from the seeds the host merges.
DevicePlans ==
  {<<"descreenFirst", "descreenSecond">>,
   <<"descreenFirst", "descreenSecond", "printFirst", "printSecond">>}
HostRetries ==
  LET print == {<<>>, <<"filtered", "sharp">>, <<"sharp", "filtered">>}
  IN {p \o q : p \in {<<>>, <<"filtered">>, <<"filtered", "filtered">>}, q \in print}
PlanPasses ==
  /\ At({"next"})
  /\ \/ /\ locate.kind = "raw"
        /\ locate' = [locate EXCEPT !.at = "pass", !.plan = <<"average">>]
     \/ /\ locate.kind = "average" /\ locate.chained /\ ~locate.seeds
        /\ \E plan \in DevicePlans : locate' = [locate EXCEPT !.at = "pass", !.plan = plan]
     \/ locate.kind = "average" /\ Go("merge")
     \/ locate.kind \notin {"raw", "average"} /\ locate.plan # <<>> /\ Go("pass")
     \/ locate.kind # "raw" /\ locate.plan = <<>> /\ Go("finish")
  /\ Silently
NextPass == At({"pass"}) /\ RunPass(Head(locate.plan))

\* mergeDeviceSeedModules: the device's seeds join the host's, and are cleared
\* there so that they count once.
ReadSeeds ==
  /\ At({"merge"})
  /\ \/ /\ Submit("readSeeds")
        /\ Go("mergeClear")
        /\ answer' = Answer("seeds", Current, Shown("readSeeds"))
     \/ Fail("readSeeds") /\ Go("pitch") /\ answer' = NoAnswer
  /\ UNCHANGED <<host, last>>
ClearSeeds ==
  /\ At({"mergeClear"})
  /\ \/ /\ Submit("clearSeeds")
        /\ locate' = [locate EXCEPT !.at = "pitch", !.seeds = TRUE]
     \/ Fail("clearSeeds") /\ Go("pitch")
  /\ answer' = NoAnswer
  /\ UNCHANGED <<host, last>>
\* Seeds enough give a scale and, with the pitch, the schedule.
Pitch ==
  /\ At({"pitch"})
  /\ \/ /\ locate.seeds
        /\ Submit("pitch")
        /\ \E plan \in HostRetries :
             locate' = [locate EXCEPT !.at = IF plan = <<>> THEN "finish" ELSE "pass",
                                      !.plan = plan]
        /\ UNCHANGED <<host, last>>
     \/ locate.seeds /\ Fail("pitch") /\ Drop
     \/ Refuse /\ Go("finish") /\ UNCHANGED <<host, last>>
  /\ answer' = NoAnswer

\* A route that is no longer wanted stops at its next poll.
Polls == {"settle", "directions", "swept", "next", "pass"}
Quit ==
  /\ At(Polls)
  /\ locate' = [locate EXCEPT !.at = "finish", !.batch = {}, !.dir = 0]
  /\ Silently

\* locateFinderFamilies and finishGPUDetector: a scanner error fails the locate;
\* a located detector takes a snapshot of its masks into its own keeping.  What
\* was local to the search is gone.
KeepOn(closure) ==
  locate' = [locate EXCEPT !.at = "held", !.closure = closure, !.plan = <<>>,
                           !.seeds = FALSE]
Finish ==
  /\ At({"finish"})
  /\ \/ ~locate.scanner /\ Refuse /\ Drop
     \/ /\ locate.scanner /\ locate.have /\ locate.closure = "lazy"
        /\ Submit("preserve")
        /\ KeepOn("preserved")
        /\ UNCHANGED <<host, last>>
     \/ /\ locate.scanner /\ locate.have /\ locate.closure = "lazy"
        /\ Fail("preserve") /\ Drop
     \/ /\ locate.scanner /\ ~(locate.have /\ locate.closure = "lazy")
        /\ Refuse /\ KeepOn(locate.closure) /\ UNCHANGED <<host, last>>
  /\ answer' = NoAnswer

-----------------------------------------------------------------------------
Work ==
  \/ Binarize \/ ResetPoolsStep \/ ClearSeedsStep
  \/ FoldRow \/ ScanVertical \/ FoldVertical \/ ReplayRows \/ WalkRows \/ Settle
  \/ BatchSweeps \/ TakeSweep \/ ScanDirection \/ FoldDirection \/ HostSweep \/ Swept
  \/ PlanPasses \/ NextPass \/ ReadSeeds \/ ClearSeeds \/ Pitch \/ Quit \/ Finish
  \/ EnsureChannels
Next ==
  \/ Work \/ Acquire \/ Release
  \/ EnsureBitmap \/ CandidateUnion \/ LateChannels
Spec == LocateInit /\ [][Next]_vars

-----------------------------------------------------------------------------
(* Properties.                                                             *)

\* Of this lease, and of its current pass, but for the word a batch left.
Ours(stamps)    == stamps \subseteq {Before, Current, Word}
OfPass(stamps)  == Current \in stamps /\ Ours(stamps)
Located         == At({"held"}) /\ locate.have
\* That word reaches the print retries and nothing before them.
WordInPrints(stamps) == Word \in stamps => At({"idle"}) \/ locate.kind \in Prints

\* Pixels a detector is handed, and rows of scan hits replayed on the host,
\* belong to the pass they were asked of, whole, also when a cached download
\* answers; in a print retry they derive from a batch's word as well, in no other
\* pass.  A lazy detector that outlives its lease gets its own masks or nothing,
\* unless a later pass broke off on the device.  So does a snapshot, but only until
\* the next holder has located: then it may show that one's masks.  The balanced
\* image is that of the lease's own level.
PixelsOfTheirPass ==
  /\ answer.kind = "rows" => OfPass(answer.got)
  /\ answer.kind = "masks" =>
       \/ answer.want = Current /\ OfPass(answer.got)
       \/ answer.want = Earlier /\ (answer.got = {Earlier} \/ Torn \in answer.got)
  /\ last.closure = "preserved" =>
       \/ last.fresh /\ OfPass(LateSnapshot)
       \/ ~last.fresh /\ (LateSnapshot = {Earlier} \/ Torn \in LateSnapshot \/ Located)
  /\ answer.kind = "balanced" => answer.got # {} /\ OfThisLease(answer.got)
  /\ WordInPrints(answer.got)

\* Every fold a locate can ask for finds its share of the pools.  It takes its
\* candidates from the sweeps of the current pass, and joins them with nothing
\* older than its locate: an earlier lease's candidates or a broken submission's
\* never reach a quad, nor, once the reset worked, the seeds merged on the host.
FoldsReadTheirPass ==
  /\ answer.kind # "refused"
  /\ answer.kind = "fold" => OfPass(answer.sources) /\ Ours(answer.got)
  /\ answer.kind = "seeds" /\ ~host.stale => Earlier \notin answer.got
  /\ WordInPrints(answer.sources)
=============================================================================
