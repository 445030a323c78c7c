------------------------- MODULE DirectionalCommands -------------------------
(***************************************************************************)
(* The angled window sweeps of internal/detect/gpu_finder_directional.go:  *)
(* one direction's windows over the packed masks, the bullseye chain over  *)
(* them, and the batch whose slots keep several directions' outcomes.  The *)
(* resources are made on first use, in three groups.                       *)
(***************************************************************************)
EXTENDS GpuCommands

DirectionalSets ==
  [dir |-> BindingSet("finderWindows",
             <<"packedMasks", "dirRecords", "dirParams", "dirCounters">>),
   dirChain |-> BindingSet("finderChainDirectional",
                  <<"packedMasks", "dirRecords", "dirChainOutcomes", "dirChainParams",
                    "balanced", "dirSummary", "dirArgs", "seedHistogram">>),
   dirChainBSI |-> BindingSet("finderChainDirectionalBSI",
                     <<"packedMasks", "dirRecords", "dirChainOutcomes", "dirChainParams",
                       "balanced", "dirSummary", "dirArgs", "seedHistogram">>),
   dirArgsSet |-> BindingSet("finderDispatchArgs",
                    <<"dirCounters", "dirArgs", "dirSummary", "dirChainParams">>)]

-----------------------------------------------------------------------------
\* The chain over the windows a sweep just counted, on a workgroup count the
\* device derives from the counter.
ChainWindows ==
  Dispatch("dirArgsSet") \o Barrier(<<"dirArgs", "dirSummary">>)
    \o DispatchIndirect("dirChain", "dirArgs")
    \o Barrier(<<"dirChainOutcomes", "dirSummary", "seedHistogram">>)

\* recordDirectionalSweepTail: the sweep's summary and outcomes go to its slot.
KeepSlot ==
  Copy("dirBatchSummary", "dirSummary") \o Copy("dirBatchOutcomes", "dirChainOutcomes")
    \o Barrier(<<"dirBatchSummary", "dirBatchOutcomes">>)

\* scanDirectionHits with its two continuations: downloadDirectionalRecords
\* takes the counter first, and chainDirectionalSweep the summary with a prefix.
DirectionScan(chained) ==
  Update("dirParams") \o Fill("dirCounters") \o Barrier(<<"packedMasks">>) \o Dispatch("dir")
    \o (IF ~chained THEN Download("dirCounters")
        ELSE Update("dirChainParams") \o Fill("dirSummary")
               \o Barrier(<<"dirRecords", "dirCounters", "dirSummary">>) \o ChainWindows
               \o Download("dirSummary") \o Download("dirChainOutcomes"))
ReadDirectionRecords  == Download("dirRecords")

\* recordDirectionalSweep: one direction of a batch.
DirectionalSweep ==
  Update("dirParams") \o Fill("dirCounters")
    \o Barrier(<<"packedMasks", "dirParams", "dirCounters">>) \o Dispatch("dir")
    \o Update("dirChainParams") \o Fill("dirSummary")
    \o Barrier(<<"dirRecords", "dirCounters", "dirChainParams", "dirSummary">>)
    \o ChainWindows \o KeepSlot

\* scanDirectionBatchHits: every direction of the batch, then its outcomes.
DirectionBatch(directions) ==
  ForEach(directions, LAMBDA i : DirectionalSweep)
ReadDirectionBatch == Download("dirBatchSummary") \o Download("dirBatchOutcomes")

\* recordResidentDirectionalSweep: the parameters and the sweep's own workgroup
\* count come from the set that chose the direction on the device.
ResidentSweep(setup) ==
  Dispatch(setup) \o Barrier(<<"finderDirectionalCursor", "dirParams", "dirChainParams",
                               "dirArgs">>)
    \o FillAll(<<"dirCounters", "dirSummary">>)
    \o Barrier(<<"packedMasks", "dirCounters", "dirSummary">>)
    \o DispatchIndirect("dir", "dirArgs") \o Barrier(<<"dirRecords", "dirCounters">>)
    \o Dispatch("dirArgsSet") \o Barrier(<<"dirArgs", "dirSummary", "dirChainParams">>)
    \o DispatchIndirect("dirChain", "dirArgs")
    \o Barrier(<<"dirChainOutcomes", "dirSummary", "seedHistogram">>) \o KeepSlot
=============================================================================
