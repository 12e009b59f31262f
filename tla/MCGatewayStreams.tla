-------------------------- MODULE MCGatewayStreams --------------------------
(* GatewayStreams with two modules.  Both remote streams go to module 1 and *)
(* both local streams come from module 2, so that one may follow the other  *)
(* after its end was lost, and a cross-banded stream may meet both.         *)
EXTENDS GatewayStreams, TLC

CONSTANTS r1, r2, l1, l2

ToFirst == r1 :> 1 @@ r2 :> 1
FromSecond == l1 :> 2 @@ l2 :> 2
=============================================================================
