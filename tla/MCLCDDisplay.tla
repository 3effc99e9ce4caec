---------------------------- MODULE MCLCDDisplay ----------------------------
(***************************************************************************)
(* LCDDisplay as main wires it, with one character, one command and one    *)
(* color to send: '!' is 0x21, clear is 0x01.                              *)
(***************************************************************************)
EXTENDS LCDDisplay

CONSTANTS GPIOA, GPIOB, ui, fingerprint

MCBanks == {GPIOA, GPIOB}
MCPins == 0 .. 5 \cup {7}
MCThreads == {ui, fingerprint}
MCLockPins == {7}
MCDisplayPins == [b \in MCBanks |-> IF b = GPIOA THEN 0 .. 5 ELSE 0 .. 2]
MCCharacters == {<<{1}, {0}>>}
MCCommands == {<<{}, {0}>>}
MCColors == {0}
=============================================================================
