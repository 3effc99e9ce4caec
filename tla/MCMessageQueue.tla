--------------------------- MODULE MCMessageQueue ---------------------------
(***************************************************************************)
(* Two threads that push and two that wait: with a single consumer a       *)
(* wake-up cannot reach the wrong one.                                     *)
(***************************************************************************)
EXTENDS MessageQueue
=============================================================================
