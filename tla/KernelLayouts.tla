---------------------------- MODULE KernelLayouts ----------------------------
(***************************************************************************)
(* The binding layouts of the compute kernels of internal/detect           *)
(* (gpu_kernels.go): for every kernel, what its pipeline may do with each  *)
(* buffer bound to it, in binding order.  A read-write binding may be      *)
(* read, written or both.                                                  *)
(***************************************************************************)
EXTENDS Sequences, TLC

\* Read-only and uniform bindings, and read-write ones.
R == "read"
W == "readWrite"

InOutParams == <<R, W, R>>
ScanLayout  == <<R, W, R, W>>
Chain       == <<R, R, W, R>>
RowChain    == Chain \o <<R, W, W, W>>
ChainColor  == Chain \o <<R, W, R, W>>
Alignment   == <<R, W, R, W>>
ParamsOut   == <<R, W>>

\* Image preparation and finder scans.
ScanKernels ==
  [halve |-> InOutParams, histogramRGB |-> InOutParams, histogramBounds |-> <<W, W>>,
   balanceRGB |-> <<R, W, W, R>>, blockThresholds |-> InOutParams,
   classifyRGB |-> <<R, R, W, R>>, filterBinary |-> InOutParams, packMasks |-> InOutParams,
   finderRowScan |-> InOutParams, finderWindows |-> ScanLayout]

\* The bullseye chains over the windows, and what steers them.
ChainKernels ==
  [finderChain |-> RowChain, finderChainBSI |-> RowChain,
   finderChainDirectional |-> ChainColor, finderChainDirectionalBSI |-> ChainColor,
   finderDispatchArgs |-> <<R, W, W, R>>,
   finderDirectionalControl |-> <<R, R, W, W, W, W>>,
   binarizerPrimaryControl |-> <<W, W, W>>]

\* The retries a pass prepares: average, then pitch and descreening.
RetryKernels ==
  [finderAverage |-> InOutParams, finderAverageReduce |-> <<R, W, W>>,
   finderRetryControl |-> <<R, R, R, W, W, W, W, W>>]

PitchKernels ==
  [pitchSamples |-> InOutParams, pitchLineSums |-> InOutParams, pitchCenter |-> Chain,
   pitchACF |-> InOutParams, pitchSchedule |-> <<R, W, W, W, W, W, W, W, R, W>>,
   descreenHorizontal |-> InOutParams, descreenVertical |-> <<R, W, R, R>>]

\* Candidate folding, pools, selection and the batch decision.
FoldKernels ==
  [finderFold |-> <<R, R, W, W, W>>, finderCandidates |-> <<R, R, W, W, W, R>>,
   finderPool |-> <<R, R, R, W, W>>, finderCorner |-> <<R, R, R, R, W, R, R>>,
   finderDecision |-> <<R, R, R, R, R, R, W, W, W, R, R>>,
   finderFoldControl |-> <<R, W, W, W, W, W, W, W>>,
   finderSelect |-> <<R, R, R, W, R>>, finderSort |-> ParamsOut]

\* Sampling a symbol: geometry, channel offsets, alignment.
SampleKernels ==
  [sampleSymbol |-> InOutParams, localModuleCount |-> InOutParams,
   residentLocalModuleCount |-> <<R, W, R, R>>,
   finderGeometry |-> <<R, R, R, W, W, W, W, W>>,
   channelOffsets |-> InOutParams, channelOffsetSelect |-> <<R, R, W>>,
   alignmentSearch |-> Alignment, alignmentPrepare |-> <<R, W, R, W, W, W, W, R>>,
   alignmentConfirm |-> <<W, W, W, R>>, alignmentRects |-> <<R, R, W>>,
   alignmentSample |-> <<R, W, R, R>>]

\* Error correction.
CorrectionKernels ==
  [ldpcHard |-> Alignment, ldpcMatrix0 |-> <<R, W, W, W, W, R>>,
   ldpcMatrix1 |-> <<R, W, W, W, W, R>>, ldpcSoft |-> <<R, R, R, R, R, W, W>>,
   ldpcSoftGraph |-> <<R, R, R, W>>, ldpcSoftPrepare |-> <<R, R, R, W>>]

\* The payload of one sampled symbol.
PayloadKernels ==
  [payloadMap |-> <<W, W, W, W>>, payloadPermute |-> <<R, W, W>>,
   payloadBits |-> <<R, R, R, R, W>>, payloadReliability |-> <<R, R, R, R, W>>]

\* Its metadata, and the packed result.
MetadataKernels ==
  [admissionFixed |-> <<W, R, W, W>>, metadataPart1 |-> <<R, R, W, W>>,
   metadataParams |-> <<R, W, W, R>>, metadataRows |-> <<W>>,
   metadataLDPCControl |-> <<R, R, W>>, metadataPalette |-> <<R, R, R, W, R>>,
   metadataPart2 |-> <<R, R, W, W>>, metadataFinish |-> <<R, R, W, R>>,
   metadataPayload |-> <<R, R, W, W>>, primaryResult |-> <<R, R, R, R, W, R, R>>]

Layouts ==
  ScanKernels @@ ChainKernels @@ RetryKernels @@ PitchKernels @@ FoldKernels
    @@ SampleKernels @@ CorrectionKernels @@ PayloadKernels @@ MetadataKernels
=============================================================================
