---------------------------- MODULE MCLocalEvents ----------------------------
(***************************************************************************)
(* Bounded instances of LocalEvents.  One file and one content; the        *)
(* bounds on changes, seconds and crashes are in the configurations.       *)
(***************************************************************************)
EXTENDS LocalEvents
=============================================================================
