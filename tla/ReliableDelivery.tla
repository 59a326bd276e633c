--------------------------- MODULE ReliableDelivery ---------------------------
(***************************************************************************)
(* What a device may rely on: every update that the server addressed to it *)
(* is handled, once, and again only because the client process ended: an   *)
(* end brings back at most two deliveries of an update, one the server     *)
(* still holds and one the client was working on.                          *)
(***************************************************************************)
EXTENDS Integers

CONSTANT Entries   \* the DEVICE_SYNC entries of the device

VARIABLES todo, handled, ends

vars == <<todo, handled, ends>>

Seen(e) == todo[e] + handled[e]

Init ==
  /\ todo = [e \in Entries |-> 0]
  /\ handled = [e \in Entries |-> 0]
  /\ ends = 0

Send(e) ==
  /\ Seen(e) = 0
  /\ todo' = [todo EXCEPT ![e] = 1]
  /\ UNCHANGED <<handled, ends>>

Handle(e) ==
  /\ todo[e] > 0
  /\ todo' = [todo EXCEPT ![e] = @ - 1]
  /\ handled' = [handled EXCEPT ![e] = @ + 1]
  /\ UNCHANGED ends

\* The late answer to a request of an earlier run saves a second delivery.
DropDuplicate(e) ==
  /\ todo[e] > 0
  /\ Seen(e) > 1
  /\ todo' = [todo EXCEPT ![e] = @ - 1]
  /\ UNCHANGED <<handled, ends>>

\* Each update may be delivered up to two times more; none is forgotten.
End ==
  /\ ends' = ends + 1
  /\ todo' \in [Entries -> Nat]
  /\ \A e \in Entries :
       IF Seen(e) = 0 THEN todo'[e] = 0
       ELSE todo'[e] <= todo[e] + 2 /\ todo'[e] + handled[e] > 0
  /\ UNCHANGED handled

Next ==
  \/ \E e \in Entries : Send(e) \/ Handle(e) \/ DropDuplicate(e)
  \/ End

Spec == Init /\ [][Next]_vars
=============================================================================
