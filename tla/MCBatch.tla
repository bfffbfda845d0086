------------------------------ MODULE MCBatch ------------------------------
(* Two workers on an endpoint each, and two assert workers. *)
EXTENDS Batch, TLC

CONSTANTS w1, w2, e1, e2, a1, a2

MCEndpointOf == (w1 :> e1) @@ (w2 :> e2)
=============================================================================
