---------------------------- MODULE MCTemplateValues ----------------------------
(* Instances of TemplateValues for TLC: one worker whose setup logs in and *)
(* then fetches an item, one whose setup extracts a name that is a column. *)
EXTENDS TemplateValues, TLC

CONSTANTS w1, w2

MCGlobalSetup == << <<"host">> >>
MCSetup == (w1 :> << <<"token">>, <<"item", "price">> >>) @@ (w2 :> << <<"user">> >>)
MCTeardown == (w1 :> << <<"left">> >>) @@ (w2 :> << >>)
================================================================================
