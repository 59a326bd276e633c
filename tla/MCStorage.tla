----------------------------- MODULE MCStorage -----------------------------
(***************************************************************************)
(* Bounded instances of Storage; all bounds are in the configurations.  A  *)
(* memtable is full after one write, so that three writes make two table   *)
(* files to merge.  A log that recovery reads is a file of level 0, so a   *)
(* fourth write waits when one file there is too many.                     *)
(***************************************************************************)
EXTENDS Storage
=============================================================================
