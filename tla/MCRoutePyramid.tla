--------------------------- MODULE MCRoutePyramid ---------------------------
(***************************************************************************)
(* The images of the runs: every image two levels can hold.                *)
(***************************************************************************)
EXTENDS RoutePyramid

EveryImage == {im \in Images : PossibleImage(im)}
=============================================================================
