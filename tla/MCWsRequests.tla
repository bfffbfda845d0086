----------------------------- MODULE MCWsRequests -----------------------------
(* Instances of WsRequests for TLC. *)
EXTENDS WsRequests

CONSTANTS a, b

(* One key for all (the Sequential matcher, or a key that repeats), a key  *)
(* that comes back, and a message that has none.                           *)
MCKeyMaps == {<<a, a, a>>, <<a, b, a>>, <<a, NoKey, b>>}
================================================================================
