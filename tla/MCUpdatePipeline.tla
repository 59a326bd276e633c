--------------------------- MODULE MCUpdatePipeline ---------------------------
(* A top directory of user u1, who has two devices, shared with u2. *)
EXTENDS UpdatePipeline, TLC

CONSTANTS u1, u2, d1, d2, d3, r1, r2

MCDeviceUser == d1 :> u1 @@ d2 :> u1 @@ d3 :> u2
MCRegistrant == [r \in RelPaths |-> IF r = r1 THEN d1 ELSE d2]
ThreadSymmetry == Permutations(Threads)
QueuerSymmetry == Permutations(Queuers)
=============================================================================
