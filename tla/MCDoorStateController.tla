----------------------- MODULE MCDoorStateController -----------------------
(***************************************************************************)
(* A small instance of DoorStateController, and the statement about the    *)
(* results that a boot with the door open breaks.                          *)
(***************************************************************************)
EXTENDS DoorStateController

\* tailgateanalyzer.h:73, getResults returns "the passages observed in the
\* last monitoring session": what is reported was counted in a session.
ReportsASession == reported # "garbage"
=============================================================================
