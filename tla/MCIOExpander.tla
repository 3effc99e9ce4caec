---------------------------- MODULE MCIOExpander ----------------------------
(***************************************************************************)
(* IOExpander as main wires it: the display's enable and data pins and the *)
(* strike's pin on bank A, a backlight pin on bank B, the Ui thread and the  *)
(* fingerprint thread.                                                     *)
(***************************************************************************)
EXTENDS IOExpander

CONSTANTS GPIOA, GPIOB, strike, enable, data, ui, fingerprint

MCBanks == {GPIOA, GPIOB}
MCPins == {strike, enable, data}
MCThreads == {ui, fingerprint}
MCLockPins == {strike}
MCDisplayPins == [b \in MCBanks |-> IF b = GPIOA THEN {enable, data} ELSE {data}]

\* lock.cpp:25, "The lock is locked when the pin is low, and open when the
\* pin is high", with ioexpander.h:69, "This will leave unspecified pins at
\* the same value": when no call is in flight, a locked Lock has a low pin.
LockedMeansLow ==
    (boot = "running" /\ (\A t \in Threads : pc[t] = "idle") /\ lockState = "locked") =>
        LockPins \cap reg[LockBank] = {}

\* ioexpander.h:40-41, initialize "will set all pins to write 0".
InitializedIsLow ==
    (boot = "display" /\ \A b \in Banks : sure[b] = {}) =>
        \A b \in Banks : reg[b] = {}
=============================================================================
