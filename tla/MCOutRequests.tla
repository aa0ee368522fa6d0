---------------------------- MODULE MCOutRequests ----------------------------
(* Instances of OutRequests for TLC. *)
EXTENDS OutRequests, TLC

CONSTANTS r1, r2

TwoRequesters == {r1, r2}
OneAndTwo     == r1 :> 2 @@ r2 :> 1
TwoSlots      == {2}
===============================================================================
