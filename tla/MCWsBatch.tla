------------------------------- MODULE MCWsBatch -------------------------------
(* Instances of WsBatch for TLC. *)
EXTENDS WsBatch

CONSTANTS w1, w2, w3, j1

(* Two workers of the first endpoint, one of the second. *)
MCEndpointOf == [w \in {w1, w2, w3} |-> IF w = w3 THEN 2 ELSE 1]
================================================================================
