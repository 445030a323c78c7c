---------------------------- MODULE DecodeCommands ----------------------------
(***************************************************************************)
(* From a sampled grid to a corrected payload: gpu_ldpc.go,                *)
(* gpu_ldpc_soft.go, gpu_payload.go, gpu_metadata.go and                   *)
(* gpu_primary_result.go.  The metadata walk leaves the parameters of the  *)
(* payload on the device; without it the host uploads them.  Two caches,   *)
(* of parity matrices and of permutations, live as long as the context.    *)
(***************************************************************************)
EXTENDS SampleCommands

LdpcSets ==
  [ldpc     |-> BindingSet("ldpcHard", <<"ldpcRows", "ldpcBits", "ldpcParams", "ldpcNet">>),
   ldpcSoft |-> BindingSet("ldpcSoft",
                  <<"ldpcRows", "ldpcSoftGraph", "ldpcBits", "ldpcReliability", "ldpcParams",
                    "ldpcMessages", "ldpcNet">>),
   ldpcSoftGraphSet |-> BindingSet("ldpcSoftGraph",
                          <<"ldpcRows", "ldpcParams", "ldpcNet", "ldpcSoftGraph">>)]
MatrixBuffers ==
  <<"payloadParams", "ldpcParams", "ldpcRows", "ldpcMatrixScratch", "ldpcMatrixCache",
    "ldpcCatalog">>
LdpcMatrixSets ==
  [ldpcMatrix     |-> BindingSet("ldpcMatrix0", MatrixBuffers),
   ldpcTailMatrix |-> BindingSet("ldpcMatrix1", MatrixBuffers)]
PayloadSets ==
  [payloadMapSet  |-> BindingSet("payloadMap",
     <<"payloadParams", "payloadMap", "ldpcParams", "ldpcSoftIndirect">>),
   payloadPermute |-> BindingSet("payloadPermute",
     <<"payloadParams", "payloadPermutation", "payloadPermutationCache">>),
   payloadBits    |-> BindingSet("payloadBits",
     <<"payloadParams", "sampleResult", "payloadMap", "payloadPermutation", "ldpcBits">>),
   payloadReliability |-> BindingSet("payloadReliability",
     <<"payloadParams", "sampleResult", "payloadMap", "payloadPermutation",
       "ldpcReliability">>),
   admissionFixed  |-> BindingSet("admissionFixed",
     <<"payloadParams", "sampleResult", "ldpcParams", "ldpcNet">>),
   ldpcSoftPrepare |-> BindingSet("ldpcSoftPrepare",
     <<"payloadParams", "ldpcParams", "ldpcNet", "ldpcSoftIndirect">>)]
MetadataSets ==
  [metadataLDPC |-> BindingSet("ldpcHard",
     <<"metadataRows", "ldpcBits", "ldpcParams", "ldpcNet">>),
   metadataParamsSet  |-> BindingSet("metadataParams",
     <<"sampleParams", "sampleResult", "metadataParams", "metadataStatic">>),
   metadataRowsSet    |-> BindingSet("metadataRows", <<"metadataRows">>),
   metadataCorrection |-> BindingSet("metadataLDPCControl",
     <<"sampleParams", "metadataParams", "ldpcParams">>),
   metadataPart1   |-> BindingSet("metadataPart1",
     <<"metadataParams", "sampleResult", "ldpcBits", "metadataRecord">>),
   metadataPalette |-> BindingSet("metadataPalette",
     <<"metadataParams", "sampleResult", "ldpcNet", "metadataRecord", "ldpcNet">>),
   metadataPart2   |-> BindingSet("metadataPart2",
     <<"metadataParams", "sampleResult", "ldpcBits", "metadataRecord">>),
   metadataFinish  |-> BindingSet("metadataFinish",
     <<"metadataParams", "ldpcNet", "metadataRecord", "ldpcNet">>),
   metadataPayload |-> BindingSet("metadataPayload",
     <<"metadataParams", "metadataRecord", "payloadParams", "ldpcParams">>)]
PrimaryResultSets ==
  [primaryResultSet |-> BindingSet("primaryResult",
     <<"metadataRecord", "payloadParams", "ldpcParams", "ldpcNet", "primaryResult",
       "sampleParams", "primaryResultControl">>)]
DecodeSets == LdpcSets @@ LdpcMatrixSets @@ PayloadSets @@ MetadataSets @@ PrimaryResultSets

-----------------------------------------------------------------------------
(* The payload.                                                            *)

ClearEvidence == Fill("ldpcNet") \o Barrier(<<"ldpcNet">>)

\* recordGPULDPCMatrix; active is the buffer that says whether to run at all.
BuildMatrix(set, active) ==
  DispatchUnder(set, active)
    \o Barrier(<<"ldpcRows", "ldpcParams", "ldpcMatrixScratch", "ldpcMatrixCache">>)

\* The shape the host derived, uploaded where no walk left one.
PayloadShape == Update("payloadParams") \o Update("ldpcParams")
PayloadSelected(active) ==
  ClearEvidence \o Fill("ldpcSoftIndirect") \o Barrier(<<"ldpcSoftIndirect">>)
    \o DispatchUnder("payloadMapSet", active)
    \o Barrier(<<"payloadMap", "payloadParams", "ldpcParams", "ldpcSoftIndirect">>)
    \o DispatchUnder("admissionFixed", active)
    \o Barrier(<<"payloadParams", "ldpcParams", "ldpcNet">>)
    \o BuildMatrix("ldpcMatrix", active) \o BuildMatrix("ldpcTailMatrix", active)
    \o DispatchUnder("payloadPermute", active)
    \o Barrier(<<"payloadPermutation", "payloadPermutationCache">>)

\* The packed result: its payload part for a single correction, all of it when
\* the metadata was read in the same submission.
PackResult(whole, active) ==
  (IF whole THEN DispatchUnder("primaryResultSet", active)
   ELSE DispatchWithin("primaryResultSet", active,
                       {"payloadParams", "ldpcParams", "ldpcNet", "primaryResult"}))
    \o Barrier(<<"primaryResult">>)

\* recordPayloadCorrection: hard correction, then the soft one where it failed.
PayloadCorrection(fallback, resetMatrix, resetPermutation, whole, active) ==
  When(fallback, PayloadShape)
    \o When(resetMatrix, Fill("ldpcMatrixCache"))
    \o When(resetPermutation, Fill("payloadPermutationCache"))
    \o Barrier(<<"payloadParams", "ldpcParams", "ldpcMatrixCache",
                 "payloadPermutationCache">>)
    \o PayloadSelected(active)
    \o DispatchIndirect("payloadBits", "ldpcSoftIndirect") \o Barrier(<<"ldpcBits">>)
    \o DispatchIndirect("ldpc", "ldpcSoftIndirect") \o Barrier(<<"ldpcNet">>)
    \o DispatchUnder("ldpcSoftPrepare", active) \o Barrier(<<"ldpcSoftIndirect">>)
    \o DispatchIndirect("ldpcSoftGraphSet", "ldpcSoftIndirect")
    \o DispatchIndirect("payloadReliability", "ldpcSoftIndirect")
    \o Barrier(<<"ldpcSoftGraph", "ldpcReliability">>)
    \o DispatchIndirect("ldpcSoft", "ldpcSoftIndirect") \o Barrier(<<"ldpcNet">>)
    \o PackResult(whole, active)
CorrectPayload(fallback, resetMatrix, resetPermutation) ==
  PayloadCorrection(fallback, resetMatrix, resetPermutation, FALSE, "")
    \o Download("primaryResult")

-----------------------------------------------------------------------------
(* The metadata.                                                           *)

MetadataRows == Dispatch("metadataRowsSet") \o Barrier(<<"metadataRows">>)

\* recordMetadataCorrection.
MetadataCorrection(active) ==
  Poke("metadataParams") \o Barrier(<<"metadataParams">>)
    \o DispatchUnder("metadataCorrection", active)
    \o Barrier(<<"metadataRows", "ldpcParams">>)
    \o ClearEvidence
    \o DispatchUnder("metadataLDPC", active) \o Barrier(<<"ldpcNet", "ldpcBits">>)

MetadataStage(set, active) ==
  DispatchUnder(set, active) \o Barrier(<<"ldpcBits", "metadataRecord">>)

\* recordMetadataWalkReady: Part I, the palette, Part II, the declared fields,
\* and from them the parameters of the payload.
MetadataWalk(active) ==
  Poke("sampleParams") \o Barrier(<<"sampleParams">>)
    \o DispatchUnder("metadataParamsSet", active)
    \o Barrier(<<"metadataParams", "sampleResult">>)
    \o Fill("ldpcBits") \o Barrier(<<"metadataParams", "ldpcBits">>)
    \o MetadataStage("metadataPart1", active) \o MetadataCorrection(active)
    \o MetadataStage("metadataPalette", active)
    \o Fill("ldpcBits") \o Barrier(<<"ldpcBits">>)
    \o MetadataStage("metadataPart2", active) \o MetadataCorrection(active)
    \o MetadataStage("metadataFinish", active)
    \o DispatchUnder("metadataPayload", active)
    \o Barrier(<<"payloadParams", "ldpcParams">>)

\* WalkMetadata, and the rest of a palette that did not fit the first read.
WalkMetadata(rowsReady) ==
  When(~rowsReady, MetadataRows) \o MetadataWalk("") \o Download("metadataRecord")

-----------------------------------------------------------------------------
(* All of it at once.                                                      *)

\* DecodePrimary: walk and payload in one submission, on parameters the walk
\* leaves on the device.
DecodePrimary(rowsReady, resetMatrix, resetPermutation) ==
  When(~rowsReady, MetadataRows) \o MetadataWalk("")
    \o PayloadCorrection(FALSE, resetMatrix, resetPermutation, TRUE, "")
    \o Download("primaryResult")

\* The decoding half of foldLocateBatchResident: every geometry the decision
\* kept, every variant on it, first as sampled and then resampled along its
\* alignment patterns.  Caches are reset before the first correction only.
DirectAttempt(resetMatrix, resetPermutation) ==
  MetadataWalk("finderGeometryIndirect")
    \o PayloadCorrection(FALSE, resetMatrix, resetPermutation, TRUE, "finderGeometryIndirect")
AlignedAttempt ==
  ResidentAlignmentRetry \o MetadataWalk("alignIndirect")
    \o PayloadCorrection(FALSE, FALSE, FALSE, TRUE, "alignIndirect")
GeometryAttempts(first, variants, resetMatrix, resetPermutation) ==
  Poke("finderDecision") \o Barrier(<<"finderDecision">>) \o FinderGeometrySample
    \o ForEach(variants, LAMBDA v :
         DirectAttempt(first /\ v = 1 /\ resetMatrix, first /\ v = 1 /\ resetPermutation))
    \o ForEach(variants, LAMBDA v : AlignedAttempt)
BatchAttempts(geometries, variants, rowsReady, resetMatrix, resetPermutation) ==
  Fill("primaryResult") \o Barrier(<<"primaryResult">>)
    \o When(~rowsReady, MetadataRows)
    \o ForEach(geometries, LAMBDA g :
         GeometryAttempts(g = 1, variants, resetMatrix, resetPermutation))
    \o Copy("primaryResult", "finderDecision") \o Copy("primaryResult", "finderDecision")
    \o Barrier(<<"primaryResult">>)
BatchResult(kept) ==
  IF kept THEN Copy("batchArena", "primaryResult") ELSE Download("primaryResult")
=============================================================================
