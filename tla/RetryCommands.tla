---------------------------- MODULE RetryCommands ----------------------------
(***************************************************************************)
(* The retries of one route over a pass that found nothing                 *)
(* (gpu_finder_preparer.go): thresholds fixed from the average around the  *)
(* seeds, then descreening at the pitch that the image's own               *)
(* autocorrelation suggests.  A retry runs once per submission for the     *)
(* host, or inside the one submission of a resident batch, where a control *)
(* kernel decides what stays active.                                       *)
(***************************************************************************)
EXTENDS BinarizeCommands, FoldCommands

\* The control words behind the average's parameters share its buffer, but the
\* upload of the parameters leaves them alone.  The one the selection of a retry
\* reads, written by the control kernel only, is a buffer of its own here.
KeepMaxSurvivors == Copy("maxSurvivors", "averageParams")

AverageSets ==
  [average       |-> BindingSet("finderAverage",
                       <<"balanced", "averagePartials", "averageParams">>),
   averageReduce |-> BindingSet("finderAverageReduce",
                       <<"averagePartials", "averageResult", "params">>),
   retryControl  |-> BindingSet("finderRetryControl",
                       <<"foldSelection", "foldRecord", "finderDecision", "params",
                         "scanParams", "chainParams", "averageParams",
                         "finderDecisionIndirect">>)]
PitchSets ==
  [pitch       |-> BindingSet("pitchSamples", <<"balanced", "pitchSamples", "params">>),
   pitchSums   |-> BindingSet("pitchLineSums", <<"pitchSamples", "pitchLagSums", "params">>),
   pitchCenter |-> BindingSet("pitchCenter",
                     <<"pitchSamples", "pitchLagSums", "pitchLagCentered", "params">>),
   pitchACF    |-> BindingSet("pitchACF", <<"pitchLagCentered", "pitchLagACF", "params">>),
   pitchScheduleSet |-> BindingSet("pitchSchedule",
                          <<"pitchLagACF", "seedHistogram", "params", "pitchScheduleControl",
                            "pitchSchedule", "descreenParams", "scanParams", "chainParams",
                            "maxSurvivors", "finderDecisionIndirect">>)]
DescreenSets ==
  [descreenH |-> BindingSet("descreenHorizontal",
                   <<"balanced", "descreenLinear", "descreenParams">>),
   descreenV |-> BindingSet("descreenVertical",
                   <<"descreenLinear", "filtered", "balanced", "descreenParams">>)]
RetrySets == AverageSets @@ PitchSets @@ DescreenSets

-----------------------------------------------------------------------------
(* Under the host.                                                         *)

\* recordAverage; averagePixelValue reads it back, prepareAverage goes on to a
\* whole pass whose thresholds are the average.
AverageRecorded ==
  Update("averageParams") \o Dispatch("average") \o Barrier(<<"averagePartials">>)
    \o Dispatch("averageReduce") \o Barrier(<<"averageResult", "params">>)
PrepareAverage(channels, chained, trace) ==
  Update("params") \o AverageRecorded
    \o BinarizeRecorded("balanced", TRUE, channels, chained, FALSE)
    \o When(trace, Download("averageResult"))

\* recordPitchACF, directly or under the control's arguments.
PitchCorrelation(args) ==
  DispatchUnder("pitch", args) \o Barrier(<<"pitchSamples">>)
    \o DispatchUnder("pitchSums", args) \o Barrier(<<"pitchLagSums">>)
    \o DispatchUnder("pitchCenter", args) \o Barrier(<<"pitchLagCentered">>)
    \o DispatchUnder("pitchACF", args) \o Barrier(<<"pitchLagACF">>)

\* pitchResidentACF and estimatePitchDownloaded.
EstimatePitch(resident) ==
  IF resident THEN PitchCorrelation("") \o Download("pitchLagACF")
  ELSE Dispatch("pitch") \o Barrier(<<"pitchSamples">>) \o Download("pitchSamples")

\* descreen: the filtered image of one pair of radii.
Descreened(args) ==
  DispatchUnder("descreenH", args) \o Barrier(<<"descreenLinear">>)
    \o DispatchUnder("descreenV", args) \o Barrier(<<"filtered">>)
Descreen == Update("descreenParams") \o Descreened("")

Retries == <<"descreenFirst", "descreenSecond", "printFirst", "printSecond">>
Prints  == {"printFirst", "printSecond"}

\* The pitch schedule kernel by the stage its control names: the peak of the
\* autocorrelation, the schedule from it and the seeds, one retry selected; only
\* a print retry asks how many candidates survived.
PitchPeak(args) ==
  DispatchWithin("pitchScheduleSet", args, {"pitchLagACF", "pitchScheduleControl"})
PitchReduce(args) ==
  DispatchWithin("pitchScheduleSet", args,
                 {"seedHistogram", "pitchScheduleControl", "pitchSchedule"})
PitchSelect(retry) ==
  DispatchWithin("pitchScheduleSet", "",
    ToSet(PitchSets.pitchScheduleSet.buffers)
      \ ({"pitchLagACF", "seedHistogram"} \cup (IF retry \in Prints THEN {} ELSE {"maxSurvivors"})))

\* recordPitchReduction: valley, peak and lag become a schedule.
PitchReduction(args) ==
  Poke("pitchScheduleControl") \o Barrier(<<"pitchScheduleControl">>)
    \o PitchReduce(args)
    \o Barrier(<<"pitchScheduleControl", "pitchSchedule", "seedHistogram">>)

PitchStage(args) ==
  Poke("pitchScheduleControl") \o Barrier(<<"pitchScheduleControl">>)
    \o PitchPeak(args) \o Barrier(<<"pitchScheduleControl">>)

\* recordPitchSchedule and recordPitchScheduleBatch.
PitchSchedule(args) ==
  FillAll(<<"pitchScheduleControl", "pitchSchedule">>)
    \o (IF args = "" THEN Barrier(<<"params", "pitchScheduleControl", "pitchSchedule">>)
        ELSE Barrier(<<"pitchScheduleControl", "pitchSchedule">>))
    \o PitchCorrelation(args)
    \o PitchStage(args) \o PitchStage(args) \o PitchStage(args)
    \o PitchReduction(args)

\* prepareResidentRetry: the schedule on its first retry, the print reduction
\* on the first print retry after it, then the selected descreening and a pass.
ResidentRetry(retry) ==
  Poke("params")
    \o When(retry = "descreenFirst", PitchSchedule(""))
    \o When(retry = "printFirst", PitchReduction(""))
    \o Poke("params") \o Poke("pitchScheduleControl")
    \o Barrier(<<"pitchScheduleControl", "params">>)
    \o PitchSelect(retry)
    \o Barrier(<<"descreenParams", "pitchSchedule", "params", "scanParams", "chainParams">>)
    \o Descreened("pitchSchedule")
    \o BinarizeIndirect("filtered", "pitchSchedule", TRUE, TRUE)

-----------------------------------------------------------------------------
(* Inside a resident batch.                                                *)

\* recordRetryControl.
RetryControl ==
  Poke("averageParams") \o Barrier(<<"averageParams">>) \o Dispatch("retryControl")
    \o Barrier(<<"averageParams", "params", "scanParams", "chainParams", "finderDecision",
                 "finderDecisionIndirect">>) \o KeepMaxSurvivors

\* recordAverageBatchRetry.
AverageBatchRetry ==
  DispatchIndirect("average", "averageParams") \o Barrier(<<"averagePartials">>)
    \o DispatchIndirect("averageReduce", "averageParams")
    \o Barrier(<<"averageResult", "params">>)
    \o BinarizeIndirect("balanced", "averageParams", FALSE, TRUE)

\* recordScheduledBatchRetry.
ScheduledBatchRetry(retry) ==
  Poke("params") \o Poke("pitchScheduleControl")
    \o Barrier(<<"pitchScheduleControl", "params">>)
    \o PitchSelect(retry)
    \o Barrier(<<"descreenParams", "pitchSchedule", "params", "scanParams", "chainParams",
                 "finderDecisionIndirect">>)
    \o Descreened("pitchSchedule")
    \o BinarizeIndirect("filtered", "pitchSchedule", FALSE, TRUE)

\* The locating part of foldLocateBatchResident: the pass as it is, and with a
\* preparer the average retry and the four scheduled ones.
RetryPass(retry, directions) ==
  When(retry = "printFirst", PitchReduction("averageParams"))
    \o ScheduledBatchRetry(retry)
    \o ImageDecision("finderDecisionIndirect", directions, RetryControl, RetryControl)
    \o When(retry # "printSecond", RetryControl)
LocateBatch(prepared, directions) ==
  FillAll(<<"familyPoolRecord", "contextualPoolRecord">>)
    \o Barrier(<<"familyPoolRecord", "contextualPoolRecord">>) \o ResetDecision
    \o ImageDecision("", directions, When(prepared, RetryControl),
                     When(prepared, RetryControl \o RetryControl))
    \o When(prepared,
         RetryControl \o AverageBatchRetry
           \o ImageDecision("finderDecisionIndirect", directions, RetryControl, RetryControl)
           \o RetryControl \o PitchSchedule("averageParams")
           \o ForEach(Len(Retries), LAMBDA i : RetryPass(Retries[i], directions)))
=============================================================================
