---------------------------- MODULE MCKernelSet ----------------------------
(* Two readers of one device, every combination of limits, and a Close       *)
(* beside the warmer.                                                        *)
EXTENDS KernelSet

\* The stages of compileFinderChains, compilePitchLag and
\* compileDirectionalFinderChain with fewer kernels: all are compiled alike.
MCStageKernels ==
  [row |-> <<"finderChain">>,
   pitch |-> <<"pitchSchedule">>,
   directional |-> <<"finderChainDirectional", "finderDispatchArgs">>]

MCLimits == {[launch |-> TRUE, ballot |-> TRUE], [launch |-> TRUE, ballot |-> FALSE],
             [launch |-> FALSE, ballot |-> FALSE]}
=============================================================================
