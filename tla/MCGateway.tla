------------------------------ MODULE MCGateway ------------------------------
(***************************************************************************)
(* The gateway with an alarm after more than one tick, silent and beeping  *)
(* messages, and a queue that holds what a closing under alarm sends; the  *)
(* message being shown is no longer in it.                                 *)
(***************************************************************************)
EXTENDS Gateway

MCSpiResults == {-1, 3}
=============================================================================
