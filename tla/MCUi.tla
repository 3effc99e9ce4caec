-------------------------------- MODULE MCUi --------------------------------
(***************************************************************************)
(* The Ui with two threads that use the alarm and a message of each kind   *)
(* of presentation: silent, one beep, two beeps.                           *)
(***************************************************************************)
EXTENDS Ui
=============================================================================
