---------------------------- MODULE MCRouteSlots ----------------------------
(***************************************************************************)
(* Three regions (the code proposes at most maxDecodeROIs = 2) over two    *)
(* CPU bodies, so that one route always waits for a body.                  *)
(***************************************************************************)
EXTENDS RouteSlots
=============================================================================
