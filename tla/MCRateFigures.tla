---------------------------- MODULE MCRateFigures ----------------------------
(* Windows of the length batch() gives them.                               *)
EXTENDS RateFigures, EndpointPlan

(* Two seconds at full load after a ramp of two. *)
ShortWindow == RpsWindow(TRUE, 4, 1, 1, 2)
=============================================================================
