----------------------------- MODULE FoldCommands -----------------------------
(***************************************************************************)
(* Folding the chains' outcomes into finder patterns on the device         *)
(* (gpu_finder_fold.go), and the decision that steers a whole image pass   *)
(* without the host (gpu_finder_decision.go).  Sources are assembled into  *)
(* candidates, sorted and folded; the family and contextual pools          *)
(* accumulate over a route's folds; selection and the fourth corner read   *)
(* them.                                                                   *)
(***************************************************************************)
EXTENDS DirectionalCommands

FoldStageSets ==
  [corner |-> BindingSet("finderCorner",
                <<"cornerParams", "foldSelection", "familyPool", "familyPoolRecord",
                  "cornerRecord", "contextualPool", "contextualPoolRecord">>),
   familyPoolSet |-> BindingSet("finderPool",
                       <<"familyPoolParams", "foldPatterns", "foldRecord", "familyPool",
                         "familyPoolRecord">>),
   group |-> BindingSet("finderPool",
               <<"groupParams", "foldWeak", "foldRecord", "contextualGroups",
                 "contextualGroupsRecord">>),
   contextualPoolSet |-> BindingSet("finderPool",
                           <<"contextualParams", "contextualGroups",
                             "contextualGroupsRecord", "contextualPool",
                             "contextualPoolRecord">>),
   sort |-> BindingSet("finderSort", <<"foldParams", "foldCandidates">>),
   select |-> BindingSet("finderSelect",
                <<"foldParams", "foldPatterns", "foldRecord", "foldSelection",
                  "contextualPoolRecord">>),
   fold |-> BindingSet("finderFold",
              <<"foldParams", "foldCandidates", "foldPatterns", "foldRecord", "foldWeak">>)]

\* newFinderAssemblyCountBindings: a source's outcomes and the buffer its count
\* is in.  The sources a caller makes are closed when its operation ends.
Assembly(outcomes, counts) ==
  BindingSet("finderCandidates",
    <<"assemblyParams", outcomes, "foldCandidates", "foldParams", "assemblyRecord", counts>>)
SourceSets ==
  [rowCounted  |-> Assembly("rowCompacted", "rowSummary"),
   rowKnown    |-> Assembly("rowCompacted", "rowCompacted"),
   directional |-> Assembly("dirBatchOutcomes", "dirBatchSummary")]

DirectionalControl(decision) ==
  BindingSet("finderDirectionalControl",
    <<"params", decision, "finderDirectionalCursor", "dirParams", "dirChainParams",
      "dirArgs">>)
DecisionSets ==
  [finderFoldControl |-> BindingSet("finderFoldControl",
     <<"params", "finderFoldCursor", "foldParams", "assemblyParams", "familyPoolParams",
       "groupParams", "contextualParams", "cornerParams">>),
   finderDecisionSet |-> BindingSet("finderDecision",
     <<"foldSelection", "foldRecord", "assemblyRecord", "familyPoolRecord",
       "contextualPoolRecord", "cornerRecord", "finderDecision", "finderDecisionIndirect",
       "finderRowIndirect", "finderFoldCursor", "foldParams">>),
   finderDirectionalRow   |-> DirectionalControl("finderRowIndirect"),
   finderDirectionalRetry |-> DirectionalControl("finderDecisionIndirect")]

FoldSets == FoldStageSets @@ SourceSets @@ DecisionSets

-----------------------------------------------------------------------------
\* recordFinderDispatch: under an argument buffer when the device decides.
DispatchUnder(set, args) == IF args = "" THEN Dispatch(set) ELSE DispatchIndirect(set, args)

PoolStage(set, entries, record, args) ==
  DispatchUnder(set, args) \o Barrier(<<entries, record>>)

\* recordFinderFold.  The pools and the corner belong to assembled sources.
FoldRecorded(assembled, args) ==
  DispatchUnder("sort", args) \o Barrier(<<"foldCandidates">>)
    \o DispatchUnder("fold", args) \o Barrier(<<"foldPatterns", "foldRecord", "foldWeak">>)
    \o When(assembled,
         PoolStage("familyPoolSet", "familyPool", "familyPoolRecord", args)
           \o PoolStage("group", "contextualGroups", "contextualGroupsRecord", args)
           \o PoolStage("contextualPoolSet", "contextualPool", "contextualPoolRecord", args))
    \o DispatchUnder("select", args) \o Barrier(<<"foldSelection">>)
    \o When(assembled, DispatchUnder("corner", args) \o Barrier(<<"cornerRecord">>))

BeforeFold ==
  Barrier(<<"foldCandidates", "foldParams", "assemblyRecord", "familyPoolParams",
            "groupParams", "contextualParams", "contextualGroupsRecord", "cornerParams">>)

\* recordFinderOutcomes: the host's sources one after another, then the fold.
AssembleSource(set) ==
  Update("assemblyParams")
    \o Barrier(<<"foldParams", "assemblyParams", "assemblyRecord">>) \o Dispatch(set)
FoldOutcomes(sources) ==
  Update("foldParams")
    \o ForEach(Len(sources), LAMBDA i : AssembleSource(sources[i]))
    \o Update("familyPoolParams") \o Update("groupParams") \o Update("contextualParams")
    \o Fill("contextualGroupsRecord") \o Update("cornerParams")
    \o BeforeFold \o FoldRecorded(TRUE, "")

\* materializeFinderFold: what the host reads of a fold, all of it when it
\* keeps a mirror.
ReadFold(mirror) ==
  Download("foldSelection") \o Download("foldRecord") \o When(mirror, Download("foldPatterns"))
    \o Download("assemblyRecord") \o Download("familyPoolRecord")
    \o Download("contextualPoolRecord") \o Download("cornerRecord")
    \o When(mirror, Download("foldWeak") \o Download("familyPool") \o Download("contextualPool"))

\* ResetFinderPools, clearSeedHistogramLocked, MaterializeFinderPool and the
\* read of MaterializeSeedHistogram, each a submission of its own.
ResetPools         == FillAll(<<"familyPoolRecord", "contextualPoolRecord">>)
ClearSeedHistogram == Fill("seedHistogram")
ReadPool           == Download("familyPoolRecord") \o Download("familyPool")
ReadSeedHistogram  == Download("seedHistogram")

-----------------------------------------------------------------------------
(* The decision on the device.                                             *)

\* Mutant: a source is assembled while its parameters are still being written.
ResidentSourceUnsynced(set, args) ==
  Dispatch("finderFoldControl") \o DispatchUnder(set, args)
    \o Barrier(<<"foldCandidates", "foldParams", "assemblyRecord">>)

\* recordResidentFinderOutcomes: a control kernel writes the parameters of each
\* source, and the fold runs where the argument buffer says.
ResidentSource(set, args) ==
  Dispatch("finderFoldControl")
    \o Barrier(<<"finderFoldCursor", "foldParams", "assemblyParams", "familyPoolParams",
                 "groupParams", "contextualParams", "cornerParams", "assemblyRecord">>)
    \o DispatchUnder(set, args)
    \o Barrier(<<"foldCandidates", "foldParams", "assemblyRecord">>)
ResidentOutcomes(sources, args) ==
  ForEach(Len(sources), LAMBDA i : ResidentSource(sources[i], args))
    \o Fill("contextualGroupsRecord") \o BeforeFold \o FoldRecorded(TRUE, args)

\* resetFinderDecision, setFinderDecisionMode and recordFinderDecision.
ResetDecision ==
  FillAll(<<"finderDecision", "finderDecisionIndirect", "finderRowIndirect">>)
    \o Barrier(<<"finderDecision", "finderDecisionIndirect", "finderRowIndirect">>)
DecisionMode == Poke("finderDecision") \o Barrier(<<"finderDecision">>)
Decide(args) ==
  DispatchUnder("finderDecisionSet", args)
    \o Barrier(<<"finderDecision", "finderDecisionIndirect", "finderRowIndirect">>)

\* recordFinderImageDecision: rows, rows with the vertical sweep, then one
\* retry per further direction.  afterRow and afterPass are the preparer's.
ImageDecision(passArgs, directions, afterRow, afterPass) ==
  FillAll(<<"finderDirectionalCursor", "finderFoldCursor">>) \o Poke("finderDecision")
    \o Fill("finderRowIndirect")
    \o Barrier(<<"finderDirectionalCursor", "finderFoldCursor", "finderRowIndirect",
                 "finderDecision">>)
    \o DecisionMode \o ResidentOutcomes(<<"rowCounted">>, passArgs) \o Decide(passArgs)
    \o DecisionMode \o ResidentSweep("finderDirectionalRow")
    \o ResidentOutcomes(<<"rowCounted", "directional">>, "finderRowIndirect")
    \o Decide("finderRowIndirect") \o afterRow
    \o DecisionMode
    \o ForEach(directions - 1, LAMBDA slot :
         ResidentSweep("finderDirectionalRetry")
           \o ResidentOutcomes(<<"directional">>, "finderDecisionIndirect")
           \o Decide("finderDecisionIndirect"))
    \o afterPass
=============================================================================
