--------------------------- MODULE MCUpdateDelivery ---------------------------
(* A directory that may be shared later: e1 adds a file and e2 modifies it. *)
EXTENDS UpdateDelivery, TLC

CONSTANTS t1, e1, e2

MCTopDirOf == [e \in Entries |-> t1]
MCKeyOrder == [e \in Entries |-> IF e = e2 THEN 2 ELSE 1]
MCAddition == [e \in Entries |-> IF e = e2 THEN e1 ELSE None]
=============================================================================
