---------------------------- MODULE SampleCommands ----------------------------
(***************************************************************************)
(* Sampling a symbol from the balanced level, and what decides where:      *)
(* gpu_sample.go, gpu_sidesize.go, gpu_channel_offsets.go and              *)
(* gpu_alignment.go.  The host runs the four one by one; a resident batch  *)
(* chains them, on parameters the device derives from its finder decision. *)
(***************************************************************************)
EXTENDS FoldCommands

SamplerSets ==
  [sample |-> BindingSet("sampleSymbol", <<"balanced", "sampleResult", "sampleParams">>)]
ChannelOffsetSets ==
  [offset |-> BindingSet("channelOffsets", <<"balanced", "offsetScores", "offsetParams">>),
   offsetSelect |-> BindingSet("channelOffsetSelect",
                      <<"offsetScores", "offsetParams", "sampleParams">>)]
ModuleCountSets ==
  [moduleCount |-> BindingSet("localModuleCount",
                     <<"balanced", "moduleCountResult", "moduleCountParams">>)]
FinderGeometrySets ==
  [moduleCountResident |-> BindingSet("residentLocalModuleCount",
     <<"balanced", "moduleCountResult", "finderDecision", "params">>),
   finderGeometry |-> BindingSet("finderGeometry",
     <<"finderDecision", "moduleCountResult", "params", "sampleParams", "sampleResult",
       "finderGeometryIndirect", "primaryResultControl", "offsetParams">>)]
AlignmentSets ==
  [align |-> BindingSet("alignmentSearch",
               <<"packedMasks", "alignCells", "alignParams", "alignTiles">>)]
AlignmentRetrySets ==
  [alignPrepare  |-> BindingSet("alignmentPrepare",
     <<"primaryResult", "sampleParams", "primaryResultControl", "alignParams", "alignCells",
       "alignIndirect", "sampleResult", "alignTable">>),
   alignConfirm  |-> BindingSet("alignmentConfirm",
     <<"alignCells", "alignParams", "alignIndirect", "alignTable">>),
   alignRectsSet |-> BindingSet("alignmentRects", <<"alignCells", "alignParams", "alignRects">>),
   alignSample   |-> BindingSet("alignmentSample",
     <<"balanced", "sampleResult", "alignParams", "alignRects">>)]
SampleSets ==
  SamplerSets @@ ChannelOffsetSets @@ ModuleCountSets @@ FinderGeometrySets @@ AlignmentSets
    @@ AlignmentRetrySets

-----------------------------------------------------------------------------
(* Under the host.                                                         *)

\* What the host packs for one block, for the offsets and for the edges.
SampleParams      == Update("sampleParams") \o Barrier(<<"sampleParams">>)
OffsetParams      == Update("offsetParams") \o Barrier(<<"offsetParams">>)
ModuleCountParams == Update("moduleCountParams")

\* retainSampledGrid: the grid still on the device moves to its slot first.
RetainGrid(slot) == Copy(slot, "sampleResult") \o Barrier(<<slot, "sampleResult">>)

\* Blocks overlap, so each lands before the next is sampled.
SampleBlock == SampleParams \o Dispatch("sample") \o Barrier(<<"sampleResult">>)

\* sampleBlocks, with the slot the previous grid is kept in, if it has to be.
SampleBlocks(slot, blocks) ==
  When(slot # "", RetainGrid(slot))
    \o Fill("sampleResult") \o Poke("sampleResult") \o Barrier(<<"sampleResult">>)
    \o ForEach(blocks, LAMBDA i : SampleBlock)

SearchChannelOffsets ==
  OffsetParams \o Dispatch("offset") \o Barrier(<<"offsetScores">>)
    \o Download("offsetScores")
LocalModuleCounts ==
  ModuleCountParams \o Dispatch("moduleCount") \o Barrier(<<"moduleCountResult">>)
    \o Download("moduleCountResult")

\* One alignment pass of the host, with the parameters of its mode; the search
\* over a grid takes four, the one over given positions two.
AlignmentParams         == Update("alignParams") \o Barrier(<<"alignParams">>)
AlignmentPositionParams == Update("alignParams") \o Barrier(<<"alignParams">>)
AlignmentPass == Dispatch("align") \o Barrier(<<"alignCells", "alignTiles">>)
AlignmentSeed == Update("alignCells") \o Barrier(<<"packedMasks", "alignCells">>)
SearchAlignment ==
  AlignmentSeed \o ForEach(4, LAMBDA mode : AlignmentParams \o AlignmentPass)
    \o Download("alignCells")
SearchAlignmentPositions ==
  Fill("alignCells") \o Barrier(<<"packedMasks", "alignCells">>)
    \o ForEach(2, LAMBDA mode : AlignmentPositionParams \o AlignmentPass)
    \o Download("alignCells")

-----------------------------------------------------------------------------
(* On the device's own decision.                                           *)

\* recordFinderGeometrySample: module counts, frame, offsets, then the grid.
GeometryOutputs ==
  Barrier(<<"sampleParams", "sampleResult", "finderGeometryIndirect",
            "primaryResultControl", "offsetParams", "finderDecision">>)
FinderGeometrySample ==
  FillAll(<<"sampleParams", "sampleResult", "finderGeometryIndirect",
            "primaryResultControl">>)
    \o GeometryOutputs
    \o Dispatch("moduleCountResident") \o Barrier(<<"moduleCountResult">>)
    \o Dispatch("finderGeometry") \o GeometryOutputs
    \o DispatchIndirect("offset", "finderGeometryIndirect") \o Barrier(<<"offsetScores">>)
    \o DispatchIndirect("offsetSelect", "finderGeometryIndirect")
    \o Barrier(<<"sampleParams">>)
    \o DispatchIndirect("sample", "finderGeometryIndirect") \o Barrier(<<"sampleResult">>)

\* recordResidentAlignmentRetry: two confirming passes for either side, the
\* grid's four, then the rectangles between the patterns are sampled.
PrepareAlignment ==
  Dispatch("alignPrepare")
    \o Barrier(<<"alignParams", "alignCells", "alignIndirect", "sampleParams",
                 "sampleResult">>)
ResidentAlignmentPass ==
  Poke("alignParams") \o Barrier(<<"alignParams">>)
    \o DispatchIndirect("align", "alignIndirect") \o Barrier(<<"alignCells", "alignTiles">>)
ConfirmAlignment ==
  ForEach(2, LAMBDA mode : ResidentAlignmentPass)
    \o Dispatch("alignConfirm") \o Barrier(<<"alignCells", "alignParams", "alignIndirect">>)
ResidentAlignmentRetry ==
  Poke("sampleParams") \o Poke("alignIndirect")
    \o Barrier(<<"sampleParams", "primaryResult", "alignIndirect">>)
    \o PrepareAlignment \o ConfirmAlignment \o ConfirmAlignment \o PrepareAlignment
    \o ForEach(4, LAMBDA mode : ResidentAlignmentPass)
    \o DispatchIndirect("alignRectsSet", "alignIndirect") \o Barrier(<<"alignRects">>)
    \o DispatchIndirect("alignSample", "alignIndirect") \o Barrier(<<"sampleResult">>)
=============================================================================
