---------------------------- MODULE MCGpuSession ----------------------------
(***************************************************************************)
(* Small sets of readers and streams over one workspace.                   *)
(***************************************************************************)
EXTENDS GpuSession, TLC

=============================================================================
