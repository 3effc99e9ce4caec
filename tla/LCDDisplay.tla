----------------------------- MODULE LCDDisplay -----------------------------
(***************************************************************************)
(* The display behind the expander (lcddisplay.cpp).  Each operation of    *)
(* LCDDisplay is a sequence of calls of makeHigh and makeLow: a byte goes  *)
(* out in two nibbles, each latched by the device at the falling edge of   *)
(* the enable pin.  The Ui thread makes these calls while the fingerprint  *)
(* thread moves the strike on the same bank, and the process can die       *)
(* between any two of them.                                                *)
(*                                                                         *)
(* Pins are numbered; a nibble is the set of its data pins that are high   *)
(* and a byte the pair of its nibbles.  The device is a HD44780: what it   *)
(* shows is left to the bytes it receives, their timing is not modelled.   *)
(***************************************************************************)
EXTENDS IOExpander, Sequences

CONSTANTS
    UiThread,    \* the only thread that uses the display
    ColorBank,   \* colorGPIO, the bank of the backlight
    Characters, Commands, Colors  \* what the Ui sends

DataPins == 0 .. 3   \* LCD_DB4 to LCD_DB7
EnablePin == 4       \* LCD_E
SelectPin == 5       \* LCD_RS: high for a character, low for a command
ColorPins == 0 .. 2  \* color[]
NoColor == -1        \* Color::none
Bytes == (SUBSET DataPins) \X (SUBSET DataPins)

ASSUME DisplayAssumption ==
    /\ UiThread \in Threads /\ UiThread # LockThread
    /\ ColorBank \in Banks /\ ColorBank # LockBank
    /\ DisplayPins[LockBank] = DataPins \cup {EnablePin, SelectPin}
    /\ DisplayPins[ColorBank] = ColorPins
    /\ Characters \subseteq Bytes /\ Commands \subseteq Bytes
    /\ \A byte \in Commands : byte[1] # {0, 1}  \* none sets the 8-bit mode
    /\ Colors \subseteq ColorPins \cup {NoColor}

VARIABLES
    todo,      \* the calls left of the operation the Ui thread is in
    lcd,       \* the device: 8-bit mode or not, the nibble it has of a byte,
               \* and history: the bytes received for the operation
    sent,      \* history: the bytes the operation sends
    disturbed  \* history: calls on the display's bank have overlapped

displayVars == <<vars, todo, lcd, sent, disturbed>>

-----------------------------------------------------------------------------

High(bank, pins) == [bank |-> bank, pins |-> pins, level |-> "high"]
Low(bank, pins) == [bank |-> bank, pins |-> pins, level |-> "low"]

Strobe == <<High(LockBank, {EnablePin}), Low(LockBank, {EnablePin})>>

SendNibble(nibble) == <<Low(LockBank, DataPins), High(LockBank, nibble)>> \o Strobe

\* Fault: the low nibble goes first.
SendDataCmdSwapped(byte) == SendNibble(byte[2]) \o SendNibble(byte[1])

SendDataCmd(byte) == SendNibble(byte[1]) \o SendNibble(byte[2])

PutCommand(byte) == <<Low(LockBank, {SelectPin})>> \o SendDataCmd(byte)

PutChar(byte) == <<High(LockBank, {SelectPin})>> \o SendDataCmd(byte)

Put4Command(nibble) ==
    <<Low(LockBank, DataPins \cup {SelectPin}), High(LockBank, nibble)>> \o Strobe

SetBacklightColor(color) ==
    <<Low(ColorBank, ColorPins)>> \o
    (IF color = NoColor THEN <<>> ELSE <<High(ColorBank, {color})>>)

\* Fault: one function set less.
InitializeTwice ==
    <<Low(LockBank, DataPins \cup {EnablePin, SelectPin})>>
    \o Put4Command({0, 1}) \o Put4Command({0, 1})
    \o Put4Command({1})
    \o PutCommand(<<{1}, {3}>>) \o PutCommand(<<{}, {2, 3}>>) \o PutCommand(<<{}, {1, 2}>>)
    \o SendDataCmd(<<{}, {1}>>) \o SendDataCmd(<<{}, {0}>>)
    \o <<High(LockBank, {SelectPin})>>

\* LCDDisplay::initialize: three function sets to 8-bit mode and one to
\* 4-bit mode, two rows, display on, entry mode, home and clear.
InitializeDisplay ==
    <<Low(LockBank, DataPins \cup {EnablePin, SelectPin})>>
    \o Put4Command({0, 1}) \o Put4Command({0, 1}) \o Put4Command({0, 1})
    \o Put4Command({1})
    \o PutCommand(<<{1}, {3}>>) \o PutCommand(<<{}, {2, 3}>>) \o PutCommand(<<{}, {1, 2}>>)
    \o SendDataCmd(<<{}, {1}>>) \o SendDataCmd(<<{}, {0}>>)
    \o <<High(LockBank, {SelectPin})>>

\* What main does with the display: initialize and setBacklightPins.
BootCalls == InitializeDisplay \o SetBacklightColor(NoColor)

\* The operations of the Ui thread: their calls and the bytes they send.
Operations ==
    {[calls |-> PutChar(byte), bytes |-> <<[byte |-> byte, command |-> FALSE]>>] :
        byte \in Characters}
    \cup
    {[calls |-> PutCommand(byte), bytes |-> <<[byte |-> byte, command |-> TRUE]>>] :
        byte \in Commands}
    \cup
    {[calls |-> SetBacklightColor(color), bytes |-> <<>>] : color \in Colors}

-----------------------------------------------------------------------------

\* The device with nothing received.
Device(wide, half) == [wide |-> wide, half |-> half, bytes |-> <<>>]

AnyDevice == {Device(wide, half) : wide \in BOOLEAN,
                                   half \in {<<>>} \cup {<<n>> : n \in SUBSET DataPins}}

\* The mode after a byte: the command function set, 001x, chooses it.
Wide(high, command) == IF command /\ high \in {{1}, {0, 1}} THEN 0 \in high ELSE lcd.wide

\* The device after it latches a nibble, which is a byte of its own in 8-bit
\* mode and the first or second half of one in 4-bit mode.
Latched(nibble, command) ==
    IF ~lcd.wide /\ lcd.half = <<>> THEN [lcd EXCEPT !.half = <<nibble>>]
    ELSE LET high == IF lcd.wide THEN nibble ELSE lcd.half[1]
             low == IF lcd.wide THEN {} ELSE nibble
             byte == [byte |-> <<high, low>>, command |-> command]
         IN  [wide |-> Wide(high, command), half |-> <<>>,
              bytes |-> IF boot = "running" THEN Append(lcd.bytes, byte) ELSE <<>>]

\* What the device makes of a write to its bank.  If the other pins change
\* with the enable pin it may see them before or after.  Once calls have
\* overlapped the device is not followed any more.
React ==
    LET before == reg[LockBank]
        after == reg'[LockBank]
    IN  IF disturbed' THEN lcd' = Device(FALSE, <<>>)
        ELSE IF EnablePin \in before /\ EnablePin \notin after
        THEN \E bus \in {before, after} :
                 lcd' = Latched(bus \cap DataPins, SelectPin \notin bus)
        ELSE UNCHANGED lcd

\* Power comes on: the device starts in 8-bit mode.
DisplayInit ==
    /\ Init
    /\ reg = [b \in Banks |-> {}]
    /\ todo = BootCalls /\ sent = <<>> /\ disturbed = FALSE
    /\ lcd = Device(TRUE, <<>>)

\* main, before there are other threads.  A device that was not followed
\* may be in any state.
BootExpander ==
    /\ Initialize
    /\ IF disturbed THEN lcd' \in AnyDevice ELSE UNCHANGED lcd
    /\ disturbed' = FALSE
    /\ UNCHANGED <<todo, sent>>

BootDisplayCall ==
    /\ todo # <<>>
    /\ BootCall(Head(todo))
    /\ todo' = Tail(todo)
    /\ UNCHANGED <<sent, disturbed>>
    /\ React

BootThreads ==
    /\ todo = <<>>
    /\ BootDisplay \/ BootLock
    /\ UNCHANGED <<todo, lcd, sent, disturbed>>

\* The Ui thread starts an operation.
Operate ==
    /\ boot = "running" /\ pc[UiThread] = "idle" /\ todo = <<>>
    /\ \E operation \in Operations :
         todo' = operation.calls /\ sent' = operation.bytes
    /\ lcd' = [lcd EXCEPT !.bytes = <<>>]
    /\ UNCHANGED <<vars, disturbed>>

\* A call on the display's bank begins while another is under way there.
Overlapping(bank) == disturbed \/ (bank = LockBank /\ Active(LockBank) # {})

\* The Ui thread makes the next call of its operation.
OperationCall ==
    /\ todo # <<>>
    /\ DisplayCall(UiThread, Head(todo))
    /\ todo' = Tail(todo)
    /\ disturbed' = Overlapping(Head(todo).bank)
    /\ React
    /\ UNCHANGED sent

\* The fingerprint thread moves the strike.
LockOperation(s) ==
    /\ SetState(s)
    /\ disturbed' = Overlapping(LockBank)
    /\ React
    /\ UNCHANGED <<todo, sent>>

\* A call under way goes on.
CallStep(t) ==
    /\ Load(t) \/ Store(t) \/ Argument(t) \/ Write(t)
    /\ UNCHANGED <<todo, sent, disturbed>>
    /\ React

\* The process dies and starts again; the device keeps its state.
DisplayRestart ==
    /\ Restart
    /\ todo' = BootCalls /\ sent' = <<>>
    /\ lcd' = [lcd EXCEPT !.bytes = <<>>]
    /\ UNCHANGED disturbed

DisplayNext ==
    \/ BootExpander \/ BootDisplayCall \/ BootThreads
    \/ Operate \/ OperationCall \/ DisplayRestart
    \/ \E s \in {"locked", "unlocked"} : LockOperation(s)
    \/ \E t \in Threads : CallStep(t)

DisplaySpec == DisplayInit /\ [][DisplayNext]_displayVars

-----------------------------------------------------------------------------

DisplayTypeOK ==
    /\ TypeOK
    /\ todo \in Seq(Calls)
    /\ \A i \in DOMAIN todo : todo[i].pins \subseteq DisplayPins[todo[i].bank]
    /\ lcd.wide \in BOOLEAN /\ lcd.half \in Seq(SUBSET DataPins)
    /\ lcd.bytes \in Seq([byte : Bytes, command : BOOLEAN])
    /\ sent \in Seq([byte : Bytes, command : BOOLEAN])
    /\ disturbed \in BOOLEAN

\* However the last process died, in the middle of a byte or with the
\* enable pin high, and whatever mode the device was left in: when the
\* display has been initialized the device is in 4-bit mode and between two
\* bytes (lines 99-125).
BootResyncs == boot = "lock" => lcd = Device(FALSE, <<>>)

\* As long as no call on the display's bank has overlapped another since the
\* boot, every operation has sent the device its bytes and nothing else,
\* also if the strike moved between the calls of one byte (lines 52-79).
BytesArrive ==
    (boot = "running" /\ ~disturbed /\ todo = <<>> /\ pc[UiThread] = "idle") =>
        ~lcd.wide /\ lcd.half = <<>> /\ lcd.bytes = sent
=============================================================================
