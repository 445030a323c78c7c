--------------------------- MODULE BinarizeCommands ---------------------------
(***************************************************************************)
(* The device side of one binarized pass: gpuBinarizer (gpu_binarizer.go)  *)
(* and the resident binarizer around it (gpu_resident_binarizer.go).  The  *)
(* canvas level is balanced, classified against block thresholds, filtered *)
(* and packed into masks; the row scan emits finder windows and the chain  *)
(* kernels turn them into outcomes.                                        *)
(***************************************************************************)
EXTENDS GpuCommands

\* The stages, the sets over the canvas level ("level", owned by the ladder)
\* and the prepared inputs (the balanced level, and its descreened form).
BinarizeSets ==
  [filter |-> BindingSet("filterBinary", <<"rawMasks", "finalMasks", "params">>),
   pack   |-> BindingSet("packMasks", <<"finalMasks", "packedMasks", "params">>),
   scan   |-> BindingSet("finderRowScan", <<"packedMasks", "scanRecords", "scanParams">>),
   chain  |-> BindingSet("finderChain",
                <<"packedMasks", "scanRecords", "chainOutcomes", "chainParams", "balanced",
                  "rowSummary", "rowCompacted", "seedHistogram">>),
   chainBSI |-> BindingSet("finderChainBSI",
                  <<"packedMasks", "scanRecords", "chainOutcomes", "chainParams", "balanced",
                    "rowSummary", "rowCompacted", "seedHistogram">>),
   boundsSet |-> BindingSet("histogramBounds", <<"histogram", "bounds">>),
   histogramLevel |-> BindingSet("histogramRGB", <<"level", "histogram", "params">>),
   balanceLevel   |-> BindingSet("balanceRGB", <<"level", "balanced", "bounds", "params">>),
   primaryControl |-> BindingSet("binarizerPrimaryControl",
                        <<"params", "scanParams", "chainParams">>),
   blocksBalanced   |-> BindingSet("blockThresholds", <<"balanced", "thresholds", "params">>),
   classifyBalanced |-> BindingSet("classifyRGB",
                          <<"balanced", "thresholds", "rawMasks", "params">>),
   blocksFiltered   |-> BindingSet("blockThresholds", <<"filtered", "thresholds", "params">>),
   classifyFiltered |-> BindingSet("classifyRGB",
                          <<"filtered", "thresholds", "rawMasks", "params">>)]

\* The prepared sets of an input: bindingsFor and preparedBindingsFor.
Prepared(input) ==
  IF input = "balanced" THEN [blocks |-> "blocksBalanced", classify |-> "classifyBalanced"]
  ELSE [blocks |-> "blocksFiltered", classify |-> "classifyFiltered"]

-----------------------------------------------------------------------------
(* Recording a pass.                                                       *)

\* recordComputeWithClassifier and its indirect form.  With fixed thresholds the
\* classifier takes them from its parameters.
Classify(input, fixedThresholds) ==
  (IF fixedThresholds
   THEN DispatchWithin(Prepared(input).classify, "", {input, "rawMasks", "params"})
   ELSE Dispatch(Prepared(input).classify))
    \o Barrier(<<"rawMasks">>)
    \o Dispatch("filter") \o Barrier(<<"finalMasks">>) \o Dispatch("pack")
ClassifyIndirect(input, args, clearPacked) ==
  When(clearPacked, Fill("packedMasks") \o Barrier(<<"packedMasks">>))
    \o DispatchIndirect(Prepared(input).classify, args) \o Barrier(<<"rawMasks">>)
    \o DispatchIndirect("filter", args) \o Barrier(<<"finalMasks">>)
    \o DispatchIndirect("pack", args)

ChainOutputs == Barrier(<<"chainOutcomes", "rowSummary", "rowCompacted", "seedHistogram">>)

\* recordFinderScan.  chained is the set of families whose chain kernel
\* follows the scan; with none the header of the records is read back.
FinderScan(channels, chained, controlReady) ==
  When(~controlReady, Update("scanParams"))
    \o When(chained # {},
         When(~controlReady, Update("chainParams"))
           \o Fill("rowSummary") \o Barrier(<<"rowSummary">>))
    \o Fill("scanRecords") \o Barrier(<<"packedMasks">>)
    \o Dispatch("scan") \o Barrier(<<"scanRecords">>)
    \o When(chained # {},
         When("current" \in chained, Dispatch("chain"))
           \o When("bsi" \in chained, Dispatch("chainBSI")) \o ChainOutputs)
    \o When(~(channels \subseteq chained), Download("scanRecords"))

FinderScanIndirect(args) ==
  FillAll(<<"rowSummary", "scanRecords">>)
    \o Barrier(<<"rowSummary", "scanRecords", "packedMasks">>)
    \o DispatchIndirect("scan", args) \o Barrier(<<"scanRecords">>)
    \o DispatchIndirect("chain", args) \o ChainOutputs

\* recordPreparedBinarizationLocked and its indirect form.
BinarizeRecorded(input, fixedThresholds, channels, chained, controlReady) ==
  When(~fixedThresholds, Dispatch(Prepared(input).blocks) \o Barrier(<<"thresholds">>))
    \o Classify(input, fixedThresholds)
    \o When(channels # {}, FinderScan(channels, chained, controlReady))
BinarizeIndirect(input, args, clearPacked, scanned) ==
  DispatchIndirect(Prepared(input).blocks, args) \o Barrier(<<"thresholds">>)
    \o ClassifyIndirect(input, args, clearPacked)
    \o When(scanned, FinderScanIndirect(args))

\* recordPrimaryBinarizerControlLocked.
PrimaryControl ==
  Fill("params") \o Dispatch("primaryControl")
    \o Barrier(<<"params", "scanParams", "chainParams">>)

\* Mutant: the balanced image is classified while it is still being written.
BinarizeLevelUnsynced(fixedThresholds, channels, chained, primary) ==
  Fill("histogram")
    \o (IF primary THEN Fill("seedHistogram") \o Barrier(<<"seedHistogram">>) \o PrimaryControl
        ELSE Update("params"))
    \o Dispatch("histogramLevel") \o Barrier(<<"histogram">>)
    \o Dispatch("boundsSet") \o Barrier(<<"bounds">>)
    \o Dispatch("balanceLevel")
    \o BinarizeRecorded("balanced", fixedThresholds, channels, chained, primary)

\* binarize: the whole of a pass over a canvas level.
BinarizeLevel(fixedThresholds, channels, chained, primary) ==
  Fill("histogram")
    \o (IF primary THEN Fill("seedHistogram") \o Barrier(<<"seedHistogram">>) \o PrimaryControl
        ELSE Update("params"))
    \o Dispatch("histogramLevel") \o Barrier(<<"histogram">>)
    \o Dispatch("boundsSet") \o Barrier(<<"bounds">>)
    \o Dispatch("balanceLevel") \o Barrier(<<"balanced">>)
    \o BinarizeRecorded("balanced", fixedThresholds, channels, chained, primary)

\* BinarizePrepared: a pass over an input that is on the device already.
BinarizePrepared(input, fixedThresholds, channels, chained) ==
  Update("params") \o BinarizeRecorded(input, fixedThresholds, channels, chained, FALSE)

\* The reads of the host: packedMasksLocked, snapshotChannels and its closure,
\* and downloadFinderScan, which takes the summary first and the records when
\* a family has no chain or its summary overflowed.
MaterializeMasks == Download("packedMasks")
PreserveMasks    == Copy("preservedMasks", "packedMasks")
FetchPreserved   == Download("preservedMasks")
ReadRowSummary   == Download("rowSummary")
ReadRowCompacted == Download("rowCompacted")
ReadScanRecords(chained) ==
  Download("scanRecords") \o When(chained # {}, Download("chainOutcomes"))

=============================================================================
