---------------------- MODULE MCFingerprintController ----------------------
(***************************************************************************)
(* A small instance of FingerprintController: two users, an int and a      *)
(* thrift exception, and a statement of the source the code does not keep. *)
(***************************************************************************)
EXTENDS FingerprintController

\* fingerprintcontroller.cpp:132, the handler of a failing call tells
\* "Network Error" and the loop goes on: a failing server call never ends
\* the process.
SurvivesNetworkErrors == life # "terminated"
=============================================================================
