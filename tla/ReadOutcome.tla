---------------------------- MODULE ReadOutcome ----------------------------
(***************************************************************************)
(* What one read promises its caller (DecodePyramid's contract in          *)
(* internal/read/pyramid.go): whatever its routes do, it returns once, and *)
(* returns one of the verdicts its input allows.                           *)
(***************************************************************************)
CONSTANT Pending      \* not returned yet

VARIABLES verdicts,   \* what this input allows
          verdict     \* what was returned

Init == verdict = Pending /\ Pending \notin verdicts

Return ==
  /\ verdict = Pending
  /\ verdict' \in verdicts
  /\ UNCHANGED verdicts

Spec == Init /\ [][Return]_<<verdicts, verdict>> /\ WF_<<verdicts, verdict>>(Return)
=============================================================================
