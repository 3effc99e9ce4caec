-------------------------- MODULE LCDDisplay_proofs --------------------------
(***************************************************************************)
(* The calls that the operations of LCDDisplay are made of are calls that  *)
(* IOExpander allows, so the display with its operations implements the    *)
(* expander with arbitrary display calls, and what is proved of the latter *)
(* holds of the former.                                                    *)
(*                                                                         *)
(* The device: where the calls left of an operation are, what the earlier  *)
(* ones made of the pins, and what the device made of those, go together   *)
(* (NibbleAt, ByteAt, BootAt, RunAt).  A call of the display moves all     *)
(* three to the next place, a call on the lock's pins none of them, and    *)
(* the byte the expander keeps is the register's as long as no call has    *)
(* overlapped another on the bank (CopyInv).                               *)
(***************************************************************************)
EXTENDS LCDDisplay, IOExpander_proofs, SequenceTheorems

\* The calls on pins the display owns.
PinCalls == {call \in Calls : call.pins \subseteq DisplayPins[call.bank]}

\* A call on the pins of the data bus is one of the display's ...
LEMMA CallsOnPins ==
    ASSUME NEW pins, pins \subseteq DataPins \cup {EnablePin, SelectPin}
    PROVE  High(LockBank, pins) \in PinCalls /\ Low(LockBank, pins) \in PinCalls
  BY WiringAssumption, DisplayAssumption DEF High, Low, PinCalls, Calls

\* ... and so is a call on the pins of the backlight.
LEMMA CallsOnColors ==
    ASSUME NEW pins, pins \subseteq ColorPins
    PROVE  High(ColorBank, pins) \in PinCalls /\ Low(ColorBank, pins) \in PinCalls
  BY WiringAssumption, DisplayAssumption DEF High, Low, PinCalls, Calls

\* The operations are built from calls on these pins: the strobe,
LEMMA StrobeCalls == Strobe \in Seq(PinCalls)
  BY CallsOnPins DEF Strobe

\* sendNibble,
LEMMA SendNibbleCalls ==
    ASSUME NEW nibble \in SUBSET DataPins
    PROVE  SendNibble(nibble) \in Seq(PinCalls)
  <1>1. Low(LockBank, DataPins) \in PinCalls /\ High(LockBank, nibble) \in PinCalls
    BY CallsOnPins
  <1>2. <<Low(LockBank, DataPins), High(LockBank, nibble)>> \in Seq(PinCalls)
    BY <1>1
  <1> QED BY <1>2, StrobeCalls DEF SendNibble

\* sendDataCmd,
LEMMA SendDataCmdCalls ==
    ASSUME NEW byte \in Bytes
    PROVE  SendDataCmd(byte) \in Seq(PinCalls)
  <1>1. byte[1] \in SUBSET DataPins /\ byte[2] \in SUBSET DataPins
    BY DEF Bytes
  <1> QED BY <1>1, SendNibbleCalls DEF SendDataCmd

\* putCommand and putChar,
LEMMA PutCalls ==
    ASSUME NEW byte \in Bytes
    PROVE  PutCommand(byte) \in Seq(PinCalls) /\ PutChar(byte) \in Seq(PinCalls)
  <1>1. Low(LockBank, {SelectPin}) \in PinCalls /\ High(LockBank, {SelectPin}) \in PinCalls
    BY CallsOnPins
  <1>2. /\ <<Low(LockBank, {SelectPin})>> \in Seq(PinCalls)
        /\ <<High(LockBank, {SelectPin})>> \in Seq(PinCalls)
    BY <1>1
  <1> QED BY <1>2, SendDataCmdCalls DEF PutCommand, PutChar

\* put4Command,
LEMMA Put4CommandCalls ==
    ASSUME NEW nibble \in SUBSET DataPins
    PROVE  Put4Command(nibble) \in Seq(PinCalls)
  <1>1. /\ Low(LockBank, DataPins \cup {SelectPin}) \in PinCalls
        /\ High(LockBank, nibble) \in PinCalls
    BY CallsOnPins
  <1>2. <<Low(LockBank, DataPins \cup {SelectPin}), High(LockBank, nibble)>> \in Seq(PinCalls)
    BY <1>1
  <1> QED BY <1>2, StrobeCalls DEF Put4Command

\* and setBacklightColor.
LEMMA BacklightCalls ==
    ASSUME NEW color \in ColorPins \cup {NoColor}
    PROVE  SetBacklightColor(color) \in Seq(PinCalls)
  <1>1. Low(ColorBank, ColorPins) \in PinCalls
    BY CallsOnColors
  <1>2. color # NoColor => High(ColorBank, {color}) \in PinCalls
    BY CallsOnColors
  <1>3. <<Low(ColorBank, ColorPins)>> \in Seq(PinCalls)
    BY <1>1
  <1>4. (IF color = NoColor THEN <<>> ELSE <<High(ColorBank, {color})>>) \in Seq(PinCalls)
    BY <1>2
  <1> QED BY <1>3, <1>4 DEF SetBacklightColor

\* What main does with the display before the other threads exist.
LEMMA BootCallsOK == BootCalls \in Seq(PinCalls)
  <1>1. /\ {} \in SUBSET DataPins /\ {0} \in SUBSET DataPins /\ {1} \in SUBSET DataPins
        /\ {3} \in SUBSET DataPins /\ {0, 1} \in SUBSET DataPins
        /\ {2, 3} \in SUBSET DataPins /\ {1, 2} \in SUBSET DataPins
    BY DEF DataPins
  <1>2. /\ Put4Command({0, 1}) \in Seq(PinCalls) /\ Put4Command({1}) \in Seq(PinCalls)
    BY <1>1, Put4CommandCalls
  <1>3. /\ <<{1}, {3}>> \in Bytes /\ <<{}, {2, 3}>> \in Bytes /\ <<{}, {1, 2}>> \in Bytes
        /\ <<{}, {1}>> \in Bytes /\ <<{}, {0}>> \in Bytes
    BY <1>1 DEF Bytes
  <1>4. /\ PutCommand(<<{1}, {3}>>) \in Seq(PinCalls)
        /\ PutCommand(<<{}, {2, 3}>>) \in Seq(PinCalls)
        /\ PutCommand(<<{}, {1, 2}>>) \in Seq(PinCalls)
    BY <1>3, PutCalls
  <1>5. SendDataCmd(<<{}, {1}>>) \in Seq(PinCalls) /\ SendDataCmd(<<{}, {0}>>) \in Seq(PinCalls)
    BY <1>3, SendDataCmdCalls
  <1>6. /\ <<Low(LockBank, DataPins \cup {EnablePin, SelectPin})>> \in Seq(PinCalls)
        /\ <<High(LockBank, {SelectPin})>> \in Seq(PinCalls)
    BY CallsOnPins
  <1>7. SetBacklightColor(NoColor) \in Seq(PinCalls)
    BY BacklightCalls
  <1>8. ASSUME NEW S, NEW s \in Seq(S), NEW t \in Seq(S)
        PROVE  s \o t \in Seq(S)
    OBVIOUS
  <1>9. InitializeDisplay \in Seq(PinCalls)
    BY <1>2, <1>4, <1>5, <1>6, <1>8, Zenon DEF InitializeDisplay
  <1> QED BY <1>7, <1>8, <1>9, Zenon DEF BootCalls

\* What the Ui thread asks of the display.
LEMMA OperationCalls ==
    ASSUME NEW operation \in Operations
    PROVE  operation.calls \in Seq(PinCalls)
  <1>1. CASE \E byte \in Characters : operation.calls = PutChar(byte)
    BY <1>1, PutCalls, DisplayAssumption
  <1>2. CASE \E byte \in Commands : operation.calls = PutCommand(byte)
    BY <1>2, PutCalls, DisplayAssumption
  <1>3. CASE \E color \in Colors : operation.calls = SetBacklightColor(color)
    BY <1>3, BacklightCalls, DisplayAssumption
  <1> QED BY <1>1, <1>2, <1>3 DEF Operations

-----------------------------------------------------------------------------

\* The calls left of an operation are calls on the display's pins.
TodoInv == todo \in Seq(PinCalls)

\* What is left of a sequence is one of the same set.
LEMMA HeadAndTail ==
    ASSUME NEW S, NEW s \in Seq(S), s # <<>>
    PROVE  Head(s) \in S /\ Tail(s) \in Seq(S)
  OBVIOUS

\* It is so in every reachable state.
LEMMA TodoInvariant == DisplaySpec => []TodoInv
  <1>1. DisplayInit => TodoInv
    BY BootCallsOK DEF DisplayInit, TodoInv
  <1>2. TodoInv /\ [DisplayNext]_displayVars => TodoInv'
    <2> SUFFICES ASSUME TodoInv, [DisplayNext]_displayVars PROVE TodoInv'
      OBVIOUS
    <2> USE DEF TodoInv
    <2>1. CASE BootExpander BY <2>1 DEF BootExpander
    <2>2. CASE BootDisplayCall BY <2>2, HeadAndTail DEF BootDisplayCall
    <2>3. CASE BootThreads BY <2>3 DEF BootThreads
    <2>4. CASE Operate BY <2>4, OperationCalls DEF Operate
    <2>5. CASE OperationCall BY <2>5, HeadAndTail DEF OperationCall
    <2>6. CASE DisplayRestart BY <2>6, BootCallsOK DEF DisplayRestart
    <2>7. ASSUME NEW s \in {"locked", "unlocked"}, LockOperation(s) PROVE TodoInv'
      BY <2>7 DEF LockOperation
    <2>8. ASSUME NEW t \in Threads, CallStep(t) PROVE TodoInv'
      BY <2>8 DEF CallStep
    <2>9. CASE UNCHANGED displayVars BY <2>9 DEF displayVars
    <2> QED BY <2>1, <2>2, <2>3, <2>4, <2>5, <2>6, <2>7, <2>8, <2>9 DEF DisplayNext
  <1> QED BY <1>1, <1>2, PTL DEF DisplaySpec

\* Every step of the display with its operations is a step of the expander
\* with arbitrary calls on the display's pins, or changes nothing of it.
LEMMA DisplayStep ==
    ASSUME TodoInv, [DisplayNext]_displayVars
    PROVE  [Next]_vars
  <1> USE DEF TodoInv
  <1>1. CASE BootExpander BY <1>1 DEF BootExpander, Next
  <1>2. CASE BootDisplayCall
    <2>1. Head(todo) \in Calls /\ BootCall(Head(todo))
      BY <1>2, HeadAndTail DEF BootDisplayCall, PinCalls
    <2> QED BY <2>1 DEF Next
  <1>3. CASE BootThreads BY <1>3 DEF BootThreads, Next
  <1>4. CASE Operate BY <1>4 DEF Operate, vars
  <1>5. CASE OperationCall
    <2>1. Head(todo) \in Calls /\ DisplayCall(UiThread, Head(todo))
      BY <1>5, HeadAndTail DEF OperationCall, PinCalls
    <2> QED BY <2>1, DisplayAssumption DEF Next
  <1>6. CASE DisplayRestart BY <1>6 DEF DisplayRestart, Next
  <1>7. ASSUME NEW s \in {"locked", "unlocked"}, LockOperation(s) PROVE Next
    BY <1>7 DEF LockOperation, Next
  <1>8. ASSUME NEW t \in Threads, CallStep(t) PROVE Next
    BY <1>8 DEF CallStep, Next
  <1>9. CASE UNCHANGED displayVars BY <1>9 DEF displayVars, vars
  <1> QED BY <1>1, <1>2, <1>3, <1>4, <1>5, <1>6, <1>7, <1>8, <1>9 DEF DisplayNext

\* The display, operation by operation, implements the expander under
\* arbitrary display calls.
THEOREM ImplementsExpander == DisplaySpec => Spec
  <1>1. DisplayInit => Init
    BY DEF DisplayInit
  <1>2. TodoInv /\ [DisplayNext]_displayVars => [Next]_vars
    BY DisplayStep
  <1> QED BY <1>1, <1>2, TodoInvariant, PTL DEF DisplaySpec, Spec

\* The device as a record, and the bytes of an operation.
Received == Seq([byte : Bytes, command : BOOLEAN])

DeviceInv ==
    /\ lcd \in [wide : BOOLEAN, half : Seq(SUBSET DataPins), bytes : Received]
    /\ sent \in Received /\ disturbed \in BOOLEAN

\* A device with nothing received is one.
LEMMA DeviceType ==
    ASSUME NEW wide \in BOOLEAN, NEW half \in Seq(SUBSET DataPins)
    PROVE  Device(wide, half) \in [wide : BOOLEAN, half : Seq(SUBSET DataPins),
                                   bytes : Received]
  BY DEF Device, Received

\* The device stays a device when it latches a nibble: where it completes a
\* byte in 4-bit mode, it has the first half.
LEMMA LatchedType ==
    ASSUME DeviceInv, NEW nibble \in SUBSET DataPins, NEW command \in BOOLEAN
    PROVE  Latched(nibble, command) \in
             [wide : BOOLEAN, half : Seq(SUBSET DataPins), bytes : Received]
  <1> USE DEF DeviceInv
  <1>1. CASE ~lcd.wide /\ lcd.half = <<>>
    <2>1. <<nibble>> \in Seq(SUBSET DataPins) OBVIOUS
    <2> QED BY <1>1, <2>1 DEF Latched
  <1>2. CASE ~(~lcd.wide /\ lcd.half = <<>>)
    <2> DEFINE high == IF lcd.wide THEN nibble ELSE lcd.half[1]
               low == IF lcd.wide THEN {} ELSE nibble
               byte == [byte |-> <<high, low>>, command |-> command]
               bytes == IF boot = "running" THEN Append(lcd.bytes, byte) ELSE <<>>
    <2>1. high \in SUBSET DataPins
      <3>1. ~lcd.wide => 1 \in DOMAIN lcd.half BY <1>2
      <3> QED BY <3>1
    <2>2. low \in SUBSET DataPins OBVIOUS
    <2>3. byte \in [byte : Bytes, command : BOOLEAN]
      BY <2>1, <2>2 DEF Bytes
    <2>4. bytes \in Received
      <3> HIDE DEF byte, high, low
      <3>1. lcd.bytes \in Received OBVIOUS
      <3>2. Append(lcd.bytes, byte) \in Received
        BY <2>3, <3>1 DEF Received
      <3>3. <<>> \in Received BY DEF Received
      <3> QED BY <3>2, <3>3
    <2>5. Wide(high, command) \in BOOLEAN
      <3> HIDE DEF high
      <3>1. lcd.wide \in BOOLEAN OBVIOUS
      <3>2. CASE command /\ high \in {{1}, {0, 1}}
        <4>1. Wide(high, command) = (0 \in high) BY <3>2 DEF Wide
        <4> QED BY <4>1
      <3>3. CASE ~(command /\ high \in {{1}, {0, 1}})
        BY <3>1, <3>3 DEF Wide
      <3> QED BY <3>2, <3>3
    <2>6. Latched(nibble, command) =
            [wide |-> Wide(high, command), half |-> <<>>, bytes |-> bytes]
      BY <1>2 DEF Latched
    <2>7. <<>> \in Seq(SUBSET DataPins) OBVIOUS
    <2> HIDE DEF high, low, byte, bytes
    <2> QED BY <2>4, <2>5, <2>6, <2>7
  <1> QED BY <1>1, <1>2

\* What the device makes of a write keeps its type.
LEMMA ReactType ==
    ASSUME DeviceInv, disturbed' \in BOOLEAN, React
    PROVE  lcd' \in [wide : BOOLEAN, half : Seq(SUBSET DataPins), bytes : Received]
  <1>1. CASE disturbed'
    <2>1. <<>> \in Seq(SUBSET DataPins) OBVIOUS
    <2> QED BY <1>1, <2>1, DeviceType DEF React
  <1>2. CASE ~disturbed' /\ EnablePin \in reg[LockBank] /\ EnablePin \notin reg'[LockBank]
    <2>1. PICK bus \in {reg[LockBank], reg'[LockBank]} :
            lcd' = Latched(bus \cap DataPins, SelectPin \notin bus)
      BY <1>2 DEF React
    <2>2. bus \cap DataPins \in SUBSET DataPins /\ (SelectPin \notin bus) \in BOOLEAN
      OBVIOUS
    <2> QED BY <2>1, <2>2, LatchedType
  <1>3. CASE ~disturbed' /\ ~(EnablePin \in reg[LockBank] /\ EnablePin \notin reg'[LockBank])
    BY <1>3 DEF React, DeviceInv
  <1> QED BY <1>1, <1>2, <1>3

\* The bytes an operation sends.
LEMMA OperationBytes ==
    ASSUME NEW operation \in Operations
    PROVE  operation.bytes \in Received
  <1>1. ASSUME NEW byte \in Bytes, NEW command \in BOOLEAN
        PROVE  <<[byte |-> byte, command |-> command]>> \in Received
    BY DEF Received
  <1>2. <<>> \in Received
    BY DEF Received
  <1>3. CASE \E byte \in Characters :
               operation = [calls |-> PutChar(byte),
                            bytes |-> <<[byte |-> byte, command |-> FALSE]>>]
    <2>1. PICK byte \in Characters :
            operation = [calls |-> PutChar(byte),
                         bytes |-> <<[byte |-> byte, command |-> FALSE]>>]
      BY <1>3
    <2>2. operation.bytes = <<[byte |-> byte, command |-> FALSE]>>
      BY <2>1
    <2>3. byte \in Bytes BY DisplayAssumption
    <2> QED BY <1>1, <2>2, <2>3
  <1>4. CASE \E byte \in Commands :
               operation = [calls |-> PutCommand(byte),
                            bytes |-> <<[byte |-> byte, command |-> TRUE]>>]
    <2>1. PICK byte \in Commands :
            operation = [calls |-> PutCommand(byte),
                         bytes |-> <<[byte |-> byte, command |-> TRUE]>>]
      BY <1>4
    <2>2. operation.bytes = <<[byte |-> byte, command |-> TRUE]>>
      BY <2>1
    <2>3. byte \in Bytes BY DisplayAssumption
    <2> QED BY <1>1, <2>2, <2>3
  <1>5. CASE \E color \in Colors :
               operation = [calls |-> SetBacklightColor(color), bytes |-> <<>>]
    BY <1>2, <1>5
  <1> QED BY <1>3, <1>4, <1>5 DEF Operations

\* The device never completes a byte of which it has no first half.
LEMMA DeviceInvariant == DisplaySpec => []DeviceInv
  <1>1. DisplayInit => DeviceInv
    <2>1. <<>> \in Seq(SUBSET DataPins) /\ <<>> \in Received BY DEF Received
    <2> QED BY <2>1, DeviceType DEF DisplayInit, DeviceInv
  <1>2. DeviceInv /\ [DisplayNext]_displayVars => DeviceInv'
    <2> SUFFICES ASSUME DeviceInv, [DisplayNext]_displayVars PROVE DeviceInv'
      OBVIOUS
    <2>0. <<>> \in Received BY DEF Received
    <2>1. CASE BootExpander
      <3>1. CASE disturbed
        <4>1. lcd' \in AnyDevice BY <2>1, <3>1 DEF BootExpander
        <4>2. PICK wide \in BOOLEAN, half \in {<<>>} \cup {<<n>> : n \in SUBSET DataPins} :
                lcd' = Device(wide, half)
          BY <4>1 DEF AnyDevice
        <4>3. half \in Seq(SUBSET DataPins)
          <5>1. CASE half = <<>> BY <5>1
          <5>2. ASSUME NEW n \in SUBSET DataPins, half = <<n>>
                PROVE  half \in Seq(SUBSET DataPins)
            BY <5>2
          <5> QED BY <5>1, <5>2
        <4> QED BY <2>1, <4>2, <4>3, DeviceType DEF BootExpander, DeviceInv
      <3>2. CASE ~disturbed BY <2>1, <3>2 DEF BootExpander, DeviceInv
      <3> QED BY <3>1, <3>2
    <2>2. CASE BootDisplayCall BY <2>2, ReactType DEF BootDisplayCall, DeviceInv
    <2>3. CASE BootThreads BY <2>3 DEF BootThreads, DeviceInv
    <2>4. CASE Operate
      <3>1. PICK operation \in Operations : sent' = operation.bytes
        BY <2>4 DEF Operate
      <3>2. sent' \in Received BY <3>1, OperationBytes
      <3> QED BY <2>0, <2>4, <3>2 DEF Operate, DeviceInv
    <2>5. CASE OperationCall
      <3>1. disturbed' \in BOOLEAN
        BY <2>5 DEF OperationCall, Overlapping, DeviceInv
      <3> QED BY <2>5, <3>1, ReactType DEF OperationCall, DeviceInv
    <2>6. CASE DisplayRestart BY <2>0, <2>6 DEF DisplayRestart, DeviceInv
    <2>7. ASSUME NEW s \in {"locked", "unlocked"}, LockOperation(s) PROVE DeviceInv'
      <3>1. disturbed' \in BOOLEAN
        BY <2>7 DEF LockOperation, Overlapping, DeviceInv
      <3> QED BY <2>7, <3>1, ReactType DEF LockOperation, DeviceInv
    <2>8. ASSUME NEW t \in Threads, CallStep(t) PROVE DeviceInv'
      BY <2>8, ReactType DEF CallStep, DeviceInv
    <2>9. CASE UNCHANGED displayVars BY <2>9 DEF displayVars, DeviceInv
    <2> QED BY <2>1, <2>2, <2>3, <2>4, <2>5, <2>6, <2>7, <2>8, <2>9 DEF DisplayNext
  <1> QED BY <1>1, <1>2, PTL DEF DisplaySpec

\* Every variable keeps its type: the device never completes a byte of which
\* it has no first half, and no operation leaves the display's pins.
THEOREM DisplayTypeCorrect == DisplaySpec => []DisplayTypeOK
  <1>1. TypeOK /\ TodoInv /\ DeviceInv => DisplayTypeOK
    <2> SUFFICES ASSUME TypeOK, TodoInv, DeviceInv PROVE DisplayTypeOK
      OBVIOUS
    <2>1. todo \in Seq(Calls) /\ \A i \in DOMAIN todo :
            todo[i].pins \subseteq DisplayPins[todo[i].bank]
      BY DEF TodoInv, PinCalls
    <2> QED BY <2>1 DEF DeviceInv, Received, DisplayTypeOK
  <1> QED BY <1>1, TodoInvariant, DeviceInvariant, ImplementsExpander, TypeCorrect, PTL

\* Calls that had their bank to themselves are obeyed, whatever the display
\* shows meanwhile.
THEOREM DisplaySettledPinsHold == DisplaySpec => []SettledPinsHold
  BY ImplementsExpander, SettledCallsObeyed, PTL

\* An undisturbed order to the strike is obeyed in the middle of a display
\* operation as well.
THEOREM DisplaySettledLockObeyed == DisplaySpec => []SettledLockObeyed
  BY ImplementsExpander, SettledLockSafe, PTL

\* The backlight's bank is exactly what the Ui thread asked for.
THEOREM DisplaySoleBankExact == DisplaySpec => []SoleBankExact
  BY ImplementsExpander, SoleBankSafe, PTL

-----------------------------------------------------------------------------
\* Operations, call by call.

\* A call and the calls after it.
Then(call, rest) == <<call>> \o rest

\* The head of these calls, and what is left of them.
LEMMA ThenFacts ==
    ASSUME NEW call \in PinCalls, NEW rest \in Seq(PinCalls)
    PROVE  /\ Then(call, rest) \in Seq(PinCalls) /\ Then(call, rest) # <<>>
           /\ Head(Then(call, rest)) = call /\ Tail(Then(call, rest)) = rest
  BY DEF Then

\* Concatenation of calls is associative.
LEMMA Associative ==
    ASSUME NEW s \in Seq(PinCalls), NEW t \in Seq(PinCalls), NEW u \in Seq(PinCalls)
    PROVE  (s \o t) \o u = s \o (t \o u)
  OBVIOUS

\* Calls written as a tuple come one after the other.
LEMMA Singles ==
    ASSUME NEW a \in PinCalls, NEW b \in PinCalls, NEW rest \in Seq(PinCalls)
    PROVE  /\ <<a>> \o rest = Then(a, rest)
           /\ <<a, b>> \o rest = Then(a, Then(b, rest))
  <1>1. <<>> \in Seq(PinCalls) /\ <<a>> \in Seq(PinCalls) /\ <<b>> \in Seq(PinCalls)
    OBVIOUS
  <1>2. <<a, b>> = <<a>> \o <<b>>
    <2>1. Len(<<a>> \o <<b>>) = 2 /\ (<<a>> \o <<b>>)[1] = a /\ (<<a>> \o <<b>>)[2] = b
      OBVIOUS
    <2>2. <<a>> \o <<b>> \in Seq(PinCalls) /\ <<a, b>> \in Seq(PinCalls)
      BY <1>1
    <2>3. Len(<<a, b>>) = 2 /\ <<a, b>>[1] = a /\ <<a, b>>[2] = b
      OBVIOUS
    <2>4. \A i \in 1 .. 2 : (<<a>> \o <<b>>)[i] = <<a, b>>[i]
      BY <2>1, <2>3
    <2> QED BY <2>1, <2>2, <2>3, <2>4, SeqEqual
  <1>3. (<<a>> \o <<b>>) \o rest = <<a>> \o (<<b>> \o rest)
    BY <1>1, Associative
  <1> QED BY <1>2, <1>3 DEF Then

\* The pins of the display's data bus.
Owned == DataPins \cup {EnablePin, SelectPin}

\* The pins that are cleared before a nibble: put4Command clears the select
\* pin as well.
Clearing == {DataPins, DataPins \cup {SelectPin}}

\* The device gets nibble from the calls up to rest: those left of them, and
\* what the earlier ones made of the pins.
NibbleAt(s, pins, clear, nibble, rest) ==
    LET strobe == Then(High(LockBank, {EnablePin}),
                       Then(Low(LockBank, {EnablePin}), rest))
    IN  \/ /\ s = Then(Low(LockBank, clear), Then(High(LockBank, nibble), strobe))
           /\ EnablePin \notin pins
        \/ /\ s = Then(High(LockBank, nibble), strobe)
           /\ EnablePin \notin pins /\ pins \cap DataPins = {}
        \/ /\ s = strobe
           /\ EnablePin \notin pins /\ pins \cap DataPins = nibble
        \/ /\ s = Then(Low(LockBank, {EnablePin}), rest)
           /\ EnablePin \in pins /\ pins \cap DataPins = nibble

\* The pins after the next call of s.
Played(s, pins) ==
    IF Head(s).bank = LockBank THEN Applied(Head(s), pins) ELSE pins

\* The next call of a nibble: it leads to the next place, and the last of them,
\* the only one to lower the enable pin, shows the device the nibble.
LEMMA NibbleStep ==
    ASSUME NEW nibble \in SUBSET DataPins, NEW rest \in Seq(PinCalls), NEW s,
           NEW pins, NEW clear \in Clearing,
           SelectPin \in clear => SelectPin \notin pins,
           NibbleAt(s, pins, clear, nibble, rest)
    PROVE  /\ s # <<>> /\ Head(s) \in PinCalls
           /\ SelectPin \in Played(s, pins) <=> SelectPin \in pins
           /\ EnablePin \in pins =>
                /\ Tail(s) = rest /\ EnablePin \notin Played(s, pins)
                /\ pins \cap DataPins = nibble /\ Played(s, pins) \cap DataPins = nibble
           /\ EnablePin \notin pins =>
                NibbleAt(Tail(s), Played(s, pins), clear, nibble, rest)
  <1> DEFINE last == Low(LockBank, {EnablePin})
             rise == High(LockBank, {EnablePin})
             set == High(LockBank, nibble)
             reset == Low(LockBank, clear)
  <1>1. last \in PinCalls /\ rise \in PinCalls /\ set \in PinCalls /\ reset \in PinCalls
    BY CallsOnPins DEF Clearing
  <1>2. Then(last, rest) \in Seq(PinCalls) /\ Then(last, rest) # <<>>
        /\ Head(Then(last, rest)) = last /\ Tail(Then(last, rest)) = rest
    BY <1>1, ThenFacts
  <1> DEFINE s3 == Then(last, rest)
             s2 == Then(rise, s3)
             s1 == Then(set, s2)
             s0 == Then(reset, s1)
  <1>3. s2 \in Seq(PinCalls) /\ s2 # <<>> /\ Head(s2) = rise /\ Tail(s2) = s3
    BY <1>1, <1>2, ThenFacts
  <1>4. s1 \in Seq(PinCalls) /\ s1 # <<>> /\ Head(s1) = set /\ Tail(s1) = s2
    BY <1>1, <1>3, ThenFacts
  <1>5. s0 \in Seq(PinCalls) /\ s0 # <<>> /\ Head(s0) = reset /\ Tail(s0) = s1
    BY <1>1, <1>4, ThenFacts
  <1>6. \/ s = s0 /\ EnablePin \notin pins
        \/ s = s1 /\ EnablePin \notin pins /\ pins \cap DataPins = {}
        \/ s = s2 /\ EnablePin \notin pins /\ pins \cap DataPins = nibble
        \/ s = s3 /\ EnablePin \in pins /\ pins \cap DataPins = nibble
    BY DEF NibbleAt
  <1>7. ASSUME NEW s_, NEW p_,
               \/ s_ = s1 /\ EnablePin \notin p_ /\ p_ \cap DataPins = {}
               \/ s_ = s2 /\ EnablePin \notin p_ /\ p_ \cap DataPins = nibble
               \/ s_ = s3 /\ EnablePin \in p_ /\ p_ \cap DataPins = nibble
        PROVE  NibbleAt(s_, p_, clear, nibble, rest)
    BY <1>7 DEF NibbleAt
  <1> HIDE DEF s0, s1, s2, s3
  <1>12. /\ DataPins \subseteq Owned /\ EnablePin \in Owned
         /\ EnablePin \notin DataPins /\ SelectPin \notin DataPins
         /\ EnablePin # SelectPin /\ EnablePin \notin clear /\ DataPins \subseteq clear
    BY DEF Clearing, Owned, DataPins, EnablePin, SelectPin
  <1>8. CASE s = s0 /\ EnablePin \notin pins
    <2>1. Played(s, pins) = pins \ clear
      BY <1>5, <1>8 DEF Played, Low, Applied
    <2>2. /\ EnablePin \notin pins \ clear /\ (pins \ clear) \cap DataPins = {}
          /\ SelectPin \in pins \ clear <=> SelectPin \in pins
      BY <1>8, <1>12
    <2>3. NibbleAt(s1, pins \ clear, clear, nibble, rest)
      BY <1>7, <2>2
    <2> QED BY <1>1, <1>5, <1>8, <2>1, <2>2, <2>3
  <1>9. CASE s = s1 /\ EnablePin \notin pins /\ pins \cap DataPins = {}
    <2>1. Played(s, pins) = pins \cup nibble
      BY <1>4, <1>9 DEF Played, High, Applied
    <2>2. /\ EnablePin \notin pins \cup nibble /\ (pins \cup nibble) \cap DataPins = nibble
          /\ SelectPin \in pins \cup nibble <=> SelectPin \in pins
      BY <1>9, <1>12
    <2>3. NibbleAt(s2, pins \cup nibble, clear, nibble, rest)
      BY <1>7, <2>2
    <2> QED BY <1>1, <1>4, <1>9, <2>1, <2>2, <2>3
  <1>10. CASE s = s2 /\ EnablePin \notin pins /\ pins \cap DataPins = nibble
    <2>1. Played(s, pins) = pins \cup {EnablePin}
      BY <1>3, <1>10 DEF Played, High, Applied
    <2>2. /\ (pins \cup {EnablePin}) \cap DataPins = nibble
          /\ SelectPin \in pins \cup {EnablePin} <=> SelectPin \in pins
      BY <1>10, <1>12
    <2>3. NibbleAt(s3, pins \cup {EnablePin}, clear, nibble, rest)
      BY <1>7, <2>2
    <2> QED BY <1>1, <1>3, <1>10, <2>1, <2>2, <2>3
  <1>11. CASE s = s3 /\ EnablePin \in pins /\ pins \cap DataPins = nibble
    <2>1. Played(s, pins) = pins \ {EnablePin}
      BY <1>2, <1>11 DEF Played, Low, Applied, s3
    <2>2. /\ EnablePin \notin pins \ {EnablePin}
          /\ (pins \ {EnablePin}) \cap DataPins = nibble
          /\ SelectPin \in pins \ {EnablePin} <=> SelectPin \in pins
      BY <1>11, <1>12
    <2> QED BY <1>1, <1>2, <1>11, <2>1, <2>2 DEF s3
  <1> QED BY <1>6, <1>8, <1>9, <1>10, <1>11

\* The calls of a nibble, from their start.
LEMMA NibbleStart ==
    ASSUME NEW nibble \in SUBSET DataPins, NEW rest \in Seq(PinCalls), NEW pins,
           EnablePin \notin pins
    PROVE  /\ NibbleAt(SendNibble(nibble) \o rest, pins, DataPins, nibble, rest)
           /\ NibbleAt(Put4Command(nibble) \o rest, pins, DataPins \cup {SelectPin},
                       nibble, rest)
  <1> DEFINE strobe == Then(High(LockBank, {EnablePin}),
                            Then(Low(LockBank, {EnablePin}), rest))
  <1>1. Strobe \o rest = strobe
    BY CallsOnPins, Singles DEF Strobe
  <1>2. Strobe \o rest \in Seq(PinCalls)
    BY StrobeCalls, ConcatProperties
  <1>3. ASSUME NEW clear \in Clearing
        PROVE  (<<Low(LockBank, clear), High(LockBank, nibble)>> \o Strobe) \o rest
                  = Then(Low(LockBank, clear), Then(High(LockBank, nibble), strobe))
    <2>1. Low(LockBank, clear) \in PinCalls /\ High(LockBank, nibble) \in PinCalls
      BY CallsOnPins DEF Clearing
    <2>2. <<Low(LockBank, clear), High(LockBank, nibble)>> \in Seq(PinCalls)
      BY <2>1
    <2>3. (<<Low(LockBank, clear), High(LockBank, nibble)>> \o Strobe) \o rest
            = <<Low(LockBank, clear), High(LockBank, nibble)>> \o (Strobe \o rest)
      BY <2>2, StrobeCalls, Associative
    <2>4. @ = Then(Low(LockBank, clear), Then(High(LockBank, nibble), Strobe \o rest))
      BY <1>2, <2>1, Singles
    <2> QED BY <1>1, <2>3, <2>4, Zenon
  <1> HIDE DEF strobe
  <1>4. SendNibble(nibble) \o rest
          = Then(Low(LockBank, DataPins), Then(High(LockBank, nibble), strobe))
    BY <1>3 DEF SendNibble, Clearing
  <1>5. Put4Command(nibble) \o rest
          = Then(Low(LockBank, DataPins \cup {SelectPin}),
                 Then(High(LockBank, nibble), strobe))
    BY <1>3 DEF Put4Command, Clearing
  <1> QED BY <1>4, <1>5 DEF NibbleAt, strobe

\* The device in 4-bit mode gets a byte from the calls up to rest: those left
\* of them, and what the earlier ones made of the pins and the device.
ByteAt(s, pins, device, byte, rest) ==
    \/ /\ NibbleAt(s, pins, DataPins, byte[1], SendNibble(byte[2]) \o rest)
       /\ device = Device(FALSE, <<>>)
    \/ /\ NibbleAt(s, pins, DataPins, byte[2], rest)
       /\ device = Device(FALSE, <<byte[1]>>)

\* The calls of a byte, from their start.
LEMMA ByteStart ==
    ASSUME NEW byte \in Bytes, NEW rest \in Seq(PinCalls), NEW pins,
           EnablePin \notin pins
    PROVE  /\ ByteAt(SendDataCmd(byte) \o rest, pins, Device(FALSE, <<>>), byte, rest)
           /\ SendDataCmd(byte) \o rest \in Seq(PinCalls)
           /\ PutCommand(byte) \o rest
                = Then(Low(LockBank, {SelectPin}), SendDataCmd(byte) \o rest)
           /\ PutChar(byte) \o rest
                = Then(High(LockBank, {SelectPin}), SendDataCmd(byte) \o rest)
  <1>1. byte[1] \in SUBSET DataPins /\ byte[2] \in SUBSET DataPins
    BY DEF Bytes
  <1>2. SendNibble(byte[1]) \in Seq(PinCalls) /\ SendNibble(byte[2]) \in Seq(PinCalls)
    BY <1>1, SendNibbleCalls
  <1>3. SendNibble(byte[2]) \o rest \in Seq(PinCalls)
    BY <1>2, ConcatProperties
  <1>4. SendDataCmd(byte) \o rest = SendNibble(byte[1]) \o (SendNibble(byte[2]) \o rest)
    BY <1>2, Associative DEF SendDataCmd
  <1>5. SendDataCmd(byte) \in Seq(PinCalls)
    BY SendDataCmdCalls
  <1>6. Low(LockBank, {SelectPin}) \in PinCalls /\ High(LockBank, {SelectPin}) \in PinCalls
    BY CallsOnPins
  <1>7. SendDataCmd(byte) \o rest \in Seq(PinCalls)
    BY <1>5, ConcatProperties
  <1>8. ASSUME NEW call \in PinCalls
        PROVE  (<<call>> \o SendDataCmd(byte)) \o rest = Then(call, SendDataCmd(byte) \o rest)
    <2>1. <<call>> \in Seq(PinCalls)
      OBVIOUS
    <2> QED BY <1>5, <2>1, Associative DEF Then
  <1>9. ByteAt(SendDataCmd(byte) \o rest, pins, Device(FALSE, <<>>), byte, rest)
    BY <1>1, <1>3, <1>4, NibbleStart DEF ByteAt
  <1> QED BY <1>6, <1>7, <1>8, <1>9 DEF PutCommand, PutChar

-----------------------------------------------------------------------------
\* The device follows the calls.

\* The pins of the display.
Bus == reg[LockBank] \cap Owned

\* The calls of the operation whose write is still to come.
Left == IF pc[UiThread] = "idle" THEN todo ELSE Then(op[UiThread], todo)

\* The next of these calls reaches the device, and nothing else happens.
PlayNext ==
    /\ Left # <<>> /\ Left' = Tail(Left) /\ Bus' = Played(Left, Bus)
    /\ IF EnablePin \in Bus /\ EnablePin \notin Bus'
       THEN \E bus \in {Bus, Bus'} :
                lcd' = Latched(bus \cap DataPins, SelectPin \notin bus)
       ELSE lcd' = lcd
    /\ boot' = boot

\* The next call of a nibble: the last one makes the device latch it.
LEMMA NibblePlayed ==
    ASSUME NEW nibble \in SUBSET DataPins, NEW rest \in Seq(PinCalls),
           NEW clear \in Clearing,
           SelectPin \in clear => SelectPin \notin Bus,
           NibbleAt(Left, Bus, clear, nibble, rest), PlayNext
    PROVE  /\ SelectPin \in Bus' <=> SelectPin \in Bus
           /\ \/ NibbleAt(Left', Bus', clear, nibble, rest) /\ lcd' = lcd
              \/ /\ Left' = rest /\ EnablePin \notin Bus'
                 /\ lcd' = Latched(nibble, SelectPin \notin Bus)
  <1>2. /\ SelectPin \in Played(Left, Bus) <=> SelectPin \in Bus
        /\ EnablePin \in Bus =>
             /\ Tail(Left) = rest /\ EnablePin \notin Played(Left, Bus)
             /\ Bus \cap DataPins = nibble /\ Played(Left, Bus) \cap DataPins = nibble
        /\ EnablePin \notin Bus =>
             NibbleAt(Tail(Left), Played(Left, Bus), clear, nibble, rest)
    BY NibbleStep
  <1>3. Left' = Tail(Left) /\ Bus' = Played(Left, Bus)
    BY Zenon DEF PlayNext
  <1>4. CASE EnablePin \in Bus
    <2>1. PICK bus \in {Bus, Bus'} : lcd' = Latched(bus \cap DataPins, SelectPin \notin bus)
      BY <1>2, <1>3, <1>4 DEF PlayNext
    <2>2. bus \cap DataPins = nibble
      BY <1>2, <1>3, <1>4
    <2>3. (SelectPin \notin bus) = (SelectPin \notin Bus)
      BY <1>2, <1>3
    <2>4. lcd' = Latched(nibble, SelectPin \notin Bus)
      BY <2>1, <2>2, <2>3, Zenon
    <2> QED BY <1>2, <1>3, <1>4, <2>4
  <1>5. CASE EnablePin \notin Bus
    BY <1>2, <1>3, <1>5 DEF PlayNext
  <1> QED BY <1>4, <1>5

\* What the device makes of a nibble, by its mode and what it has of a byte.
LEMMA LatchedWide ==
    ASSUME NEW nibble, NEW half, lcd = Device(TRUE, half), boot # "running"
    PROVE  Latched(nibble, TRUE) =
             Device(IF nibble = {1} THEN FALSE ELSE TRUE, <<>>)
  <1>1. lcd.wide = TRUE /\ lcd.bytes = <<>>
    BY DEF Device
  <1>2. Wide(nibble, TRUE) = IF nibble = {1} THEN FALSE ELSE TRUE
    <2>1. CASE nibble = {1}
      <3>1. nibble \in {{1}, {0, 1}} /\ 0 \notin nibble
        BY <2>1
      <3>2. Wide(nibble, TRUE) = (0 \in nibble)
        BY <3>1, Zenon DEF Wide
      <3>3. (0 \in nibble) = FALSE
        BY <3>1
      <3> QED BY <2>1, <3>2, <3>3
    <2>2. CASE nibble = {0, 1}
      <3>1. nibble \in {{1}, {0, 1}} /\ 0 \in nibble /\ nibble # {1}
        BY <2>2
      <3>2. Wide(nibble, TRUE) = (0 \in nibble)
        BY <3>1, Zenon DEF Wide
      <3> QED BY <3>1, <3>2
    <2>3. CASE nibble \notin {{1}, {0, 1}}
      BY <1>1, <2>3 DEF Wide
    <2> QED BY <2>1, <2>2, <2>3
  <1>3. Latched(nibble, TRUE) = [wide |-> Wide(nibble, TRUE), half |-> <<>>, bytes |-> <<>>]
    BY <1>1 DEF Latched
  <1> QED BY <1>2, <1>3 DEF Device

\* The first nibble in 4-bit mode is kept ...
LEMMA LatchedFirst ==
    ASSUME NEW nibble, NEW command, lcd = Device(FALSE, <<>>)
    PROVE  Latched(nibble, command) = Device(FALSE, <<nibble>>)
  BY DEF Latched, Device

\* ... and the second completes the byte, which may be a function set.
LEMMA LatchedSecond ==
    ASSUME NEW high, NEW low, NEW command \in BOOLEAN, lcd = Device(FALSE, <<high>>)
    PROVE  Latched(low, command) =
             [wide |-> command /\ high = {0, 1}, half |-> <<>>,
              bytes |-> IF boot = "running"
                        THEN <<[byte |-> <<high, low>>, command |-> command]>>
                        ELSE <<>>]
  <1>1. lcd.wide = FALSE /\ lcd.bytes = <<>> /\ lcd.half = <<high>>
    BY DEF Device
  <1>2. lcd.half[1] = high /\ lcd.half # <<>>
    <2>1. <<high>>[1] = high /\ <<high>> # <<>>
      OBVIOUS
    <2> QED BY <1>1, <2>1
  <1>3. Wide(high, command) = (command /\ high = {0, 1})
    <2>1. CASE high = {1}
      <3>1. high \in {{1}, {0, 1}} /\ 0 \notin high /\ high # {0, 1}
        BY <2>1
      <3>2. command => Wide(high, command) = (0 \in high)
        BY <3>1, Zenon DEF Wide
      <3>3. ~command => Wide(high, command) = FALSE
        BY <1>1, Zenon DEF Wide
      <3>4. (0 \in high) = FALSE
        BY <3>1
      <3>5. Wide(high, command) = FALSE
        BY <3>2, <3>3, <3>4
      <3> QED BY <3>1, <3>5
    <2>2. CASE high = {0, 1}
      <3>1. high \in {{1}, {0, 1}} /\ 0 \in high
        BY <2>2
      <3>2. command => Wide(high, command) = (0 \in high)
        BY <3>1, Zenon DEF Wide
      <3>3. ~command => Wide(high, command) = FALSE
        BY <1>1, Zenon DEF Wide
      <3> QED BY <2>2, <3>1, <3>2, <3>3
    <2>3. CASE high \notin {{1}, {0, 1}}
      BY <1>1, <2>3 DEF Wide
    <2> QED BY <2>1, <2>2, <2>3
  <1>4. Append(<<>>, [byte |-> <<high, low>>, command |-> command])
          = <<[byte |-> <<high, low>>, command |-> command]>>
    OBVIOUS
  <1> QED BY <1>1, <1>2, <1>3, <1>4, Zenon DEF Latched

\* The next call of a byte: the last one leaves the device with the byte.
LEMMA BytePlayed ==
    ASSUME NEW byte \in Bytes, NEW rest \in Seq(PinCalls), PlayNext,
           ByteAt(Left, Bus, lcd, byte, rest), SelectPin \notin Bus => byte[1] # {0, 1}
    PROVE  /\ SelectPin \in Bus' <=> SelectPin \in Bus
           /\ \/ ByteAt(Left', Bus', lcd', byte, rest)
              \/ /\ Left' = rest /\ EnablePin \notin Bus'
                 /\ lcd' = [wide |-> FALSE, half |-> <<>>,
                            bytes |-> IF boot = "running"
                                      THEN <<[byte |-> byte, command |-> SelectPin \notin Bus]>>
                                      ELSE <<>>]
  <1> DEFINE high == byte[1]
             low == byte[2]
             rest1 == SendNibble(low) \o rest
  <1>1. high \in SUBSET DataPins /\ low \in SUBSET DataPins /\ byte = <<high, low>>
    BY DEF Bytes
  <1>2. rest1 \in Seq(PinCalls)
    BY <1>1, SendNibbleCalls, ConcatProperties
  <1>3. DataPins \in Clearing /\ SelectPin \notin DataPins
    BY DEF Clearing, DataPins, SelectPin
  <1>4. CASE NibbleAt(Left, Bus, DataPins, high, rest1) /\ lcd = Device(FALSE, <<>>)
    <2>1. CASE NibbleAt(Left', Bus', DataPins, high, rest1) /\ lcd' = lcd
      BY <1>1, <1>2, <1>3, <1>4, <2>1, NibblePlayed DEF ByteAt
    <2>2. CASE /\ Left' = rest1 /\ EnablePin \notin Bus'
               /\ lcd' = Latched(high, SelectPin \notin Bus)
      <3>1. lcd' = Device(FALSE, <<high>>)
        BY <1>4, <2>2, LatchedFirst
      <3>2. NibbleAt(Left', Bus', DataPins, low, rest)
        BY <1>1, <2>2, NibbleStart
      <3> QED BY <1>1, <1>2, <1>3, <1>4, <3>1, <3>2, NibblePlayed DEF ByteAt
    <2> QED BY <1>1, <1>2, <1>3, <1>4, <2>1, <2>2, NibblePlayed
  <1>5. CASE NibbleAt(Left, Bus, DataPins, low, rest) /\ lcd = Device(FALSE, <<high>>)
    <2>1. CASE NibbleAt(Left', Bus', DataPins, low, rest) /\ lcd' = lcd
      BY <1>1, <1>3, <1>5, <2>1, NibblePlayed DEF ByteAt
    <2>2. CASE /\ Left' = rest /\ EnablePin \notin Bus'
               /\ lcd' = Latched(low, SelectPin \notin Bus)
      <3> DEFINE command == SelectPin \notin Bus
      <3>1. command \in BOOLEAN /\ (command /\ high = {0, 1}) = FALSE
        OBVIOUS
      <3> HIDE DEF command
      <3>2. lcd' = [wide |-> command /\ high = {0, 1}, half |-> <<>>,
                    bytes |-> IF boot = "running"
                              THEN <<[byte |-> <<high, low>>, command |-> command]>>
                              ELSE <<>>]
        BY <1>5, <2>2, <3>1, LatchedSecond DEF command
      <3>3. lcd' = [wide |-> FALSE, half |-> <<>>,
                    bytes |-> IF boot = "running"
                              THEN <<[byte |-> byte, command |-> command]>>
                              ELSE <<>>]
        BY <1>1, <3>1, <3>2, Zenon
      <3> QED BY <1>1, <1>3, <1>5, <2>2, <3>3, NibblePlayed DEF command
    <2> QED BY <1>1, <1>3, <1>5, <2>1, <2>2, NibblePlayed
  <1> QED BY <1>4, <1>5 DEF ByteAt

-----------------------------------------------------------------------------
\* The boot.

\* What is left of BootCalls after each of its bytes ...
After5 == <<High(LockBank, {SelectPin})>> \o SetBacklightColor(NoColor)
After4 == SendDataCmd(<<{}, {0}>>) \o After5
After3 == SendDataCmd(<<{}, {1}>>) \o After4
After2 == PutCommand(<<{}, {1, 2}>>) \o After3
After1 == PutCommand(<<{}, {2, 3}>>) \o After2
After0 == PutCommand(<<{1}, {3}>>) \o After1

\* ... and before that, after each function set of a nibble.
Sync3 == Put4Command({1}) \o After0
Sync2 == Put4Command({0, 1}) \o Sync3
Sync1 == Put4Command({0, 1}) \o Sync2
Sync0 == Put4Command({0, 1}) \o Sync1

\* The nibbles and bytes that the boot sends.
LEMMA BootBytes ==
    /\ {} \in SUBSET DataPins /\ {0} \in SUBSET DataPins /\ {1} \in SUBSET DataPins
    /\ {3} \in SUBSET DataPins /\ {0, 1} \in SUBSET DataPins
    /\ <<{1}, {3}>> \in Bytes /\ <<{}, {2, 3}>> \in Bytes /\ <<{}, {1, 2}>> \in Bytes
    /\ <<{}, {1}>> \in Bytes /\ <<{}, {0}>> \in Bytes
  BY DEF DataPins, Bytes

\* All of these are calls on the display's pins.
LEMMA BootRests ==
    /\ After5 \in Seq(PinCalls) /\ After4 \in Seq(PinCalls) /\ After3 \in Seq(PinCalls)
    /\ After2 \in Seq(PinCalls) /\ After1 \in Seq(PinCalls) /\ After0 \in Seq(PinCalls)
    /\ Sync3 \in Seq(PinCalls) /\ Sync2 \in Seq(PinCalls) /\ Sync1 \in Seq(PinCalls)
    /\ Sync0 \in Seq(PinCalls)
  <1>1. <<High(LockBank, {SelectPin})>> \in Seq(PinCalls)
    BY CallsOnPins
  <1>2. After5 \in Seq(PinCalls)
    BY <1>1, BacklightCalls, ConcatProperties DEF After5
  <1>3. After4 \in Seq(PinCalls) /\ After3 \in Seq(PinCalls)
    BY <1>2, BootBytes, SendDataCmdCalls, ConcatProperties DEF After4, After3
  <1>4. After2 \in Seq(PinCalls) /\ After1 \in Seq(PinCalls) /\ After0 \in Seq(PinCalls)
    BY <1>3, BootBytes, PutCalls, ConcatProperties DEF After2, After1, After0
  <1>5. /\ Sync3 \in Seq(PinCalls) /\ Sync2 \in Seq(PinCalls)
        /\ Sync1 \in Seq(PinCalls) /\ Sync0 \in Seq(PinCalls)
    BY <1>4, BootBytes, Put4CommandCalls, ConcatProperties DEF Sync3, Sync2, Sync1, Sync0
  <1> QED BY <1>2, <1>3, <1>4, <1>5

\* The boot clears the bus and then synchronizes the device.
LEMMA BootFirst == BootCalls = Then(Low(LockBank, Owned), Sync0)
  <1> DEFINE c0 == <<Low(LockBank, Owned)>>
             c1 == Put4Command({0, 1})
             c4 == Put4Command({1})
             c5 == PutCommand(<<{1}, {3}>>)
             c6 == PutCommand(<<{}, {2, 3}>>)
             c7 == PutCommand(<<{}, {1, 2}>>)
             c8 == SendDataCmd(<<{}, {1}>>)
             c9 == SendDataCmd(<<{}, {0}>>)
             c10 == <<High(LockBank, {SelectPin})>>
             c11 == SetBacklightColor(NoColor)
  <1>1. /\ c0 \in Seq(PinCalls) /\ c1 \in Seq(PinCalls) /\ c4 \in Seq(PinCalls)
        /\ c5 \in Seq(PinCalls) /\ c6 \in Seq(PinCalls) /\ c7 \in Seq(PinCalls)
        /\ c8 \in Seq(PinCalls) /\ c9 \in Seq(PinCalls) /\ c10 \in Seq(PinCalls)
        /\ c11 \in Seq(PinCalls)
    <2>1. c0 \in Seq(PinCalls) /\ c10 \in Seq(PinCalls)
      BY CallsOnPins DEF Owned
    <2>2. c1 \in Seq(PinCalls) /\ c4 \in Seq(PinCalls)
      BY BootBytes, Put4CommandCalls
    <2>3. c5 \in Seq(PinCalls) /\ c6 \in Seq(PinCalls) /\ c7 \in Seq(PinCalls)
      BY BootBytes, PutCalls
    <2>4. c8 \in Seq(PinCalls) /\ c9 \in Seq(PinCalls)
      BY BootBytes, SendDataCmdCalls
    <2> QED BY <2>1, <2>2, <2>3, <2>4, BacklightCalls
  <1>2. BootCalls = (((((((((((c0 \o c1) \o c1) \o c1) \o c4) \o c5) \o c6) \o c7)
                          \o c8) \o c9) \o c10) \o c11)
    BY Zenon DEF BootCalls, InitializeDisplay, Owned
  <1> HIDE DEF c0, c1, c4, c5, c6, c7, c8, c9, c10, c11
  <1> DEFINE d1 == c0 \o c1
             d2 == d1 \o c1
             d3 == d2 \o c1
             d4 == d3 \o c4
             d5 == d4 \o c5
             d6 == d5 \o c6
             d7 == d6 \o c7
             d8 == d7 \o c8
             d9 == d8 \o c9
  <1>3. /\ d1 \in Seq(PinCalls) /\ d2 \in Seq(PinCalls) /\ d3 \in Seq(PinCalls)
        /\ d4 \in Seq(PinCalls) /\ d5 \in Seq(PinCalls) /\ d6 \in Seq(PinCalls)
        /\ d7 \in Seq(PinCalls) /\ d8 \in Seq(PinCalls) /\ d9 \in Seq(PinCalls)
    BY <1>1, ConcatProperties
  <1>4. BootCalls = (d9 \o c10) \o c11
    BY <1>2
  <1> HIDE DEF d1, d2, d3, d4, d5, d6, d7, d8, d9
  <1>5. (d9 \o c10) \o c11 = d9 \o After5
    <2>1. d9 \in Seq(PinCalls) /\ c10 \in Seq(PinCalls) /\ c11 \in Seq(PinCalls)
      BY <1>1, <1>3, BootRests
    <2>2. (d9 \o c10) \o c11 = d9 \o (c10 \o c11)
      BY <2>1, Associative
    <2> QED BY <2>2, Zenon DEF After5, c10, c11
  <1>6. d9 \o After5 = d8 \o After4
    <2>1. d8 \in Seq(PinCalls) /\ c9 \in Seq(PinCalls) /\ After5 \in Seq(PinCalls)
      BY <1>1, <1>3, BootRests
    <2>2. (d8 \o c9) \o After5 = d8 \o (c9 \o After5)
      BY <2>1, Associative
    <2> QED BY <2>2, Zenon DEF d9, After4, c9
  <1>7. d8 \o After4 = d7 \o After3
    <2>1. d7 \in Seq(PinCalls) /\ c8 \in Seq(PinCalls) /\ After4 \in Seq(PinCalls)
      BY <1>1, <1>3, BootRests
    <2>2. (d7 \o c8) \o After4 = d7 \o (c8 \o After4)
      BY <2>1, Associative
    <2> QED BY <2>2, Zenon DEF d8, After3, c8
  <1>8. d7 \o After3 = d6 \o After2
    <2>1. d6 \in Seq(PinCalls) /\ c7 \in Seq(PinCalls) /\ After3 \in Seq(PinCalls)
      BY <1>1, <1>3, BootRests
    <2>2. (d6 \o c7) \o After3 = d6 \o (c7 \o After3)
      BY <2>1, Associative
    <2> QED BY <2>2, Zenon DEF d7, After2, c7
  <1>9. d6 \o After2 = d5 \o After1
    <2>1. d5 \in Seq(PinCalls) /\ c6 \in Seq(PinCalls) /\ After2 \in Seq(PinCalls)
      BY <1>1, <1>3, BootRests
    <2>2. (d5 \o c6) \o After2 = d5 \o (c6 \o After2)
      BY <2>1, Associative
    <2> QED BY <2>2, Zenon DEF d6, After1, c6
  <1>10. d5 \o After1 = d4 \o After0
    <2>1. d4 \in Seq(PinCalls) /\ c5 \in Seq(PinCalls) /\ After1 \in Seq(PinCalls)
      BY <1>1, <1>3, BootRests
    <2>2. (d4 \o c5) \o After1 = d4 \o (c5 \o After1)
      BY <2>1, Associative
    <2> QED BY <2>2, Zenon DEF d5, After0, c5
  <1>11. d4 \o After0 = d3 \o Sync3
    <2>1. d3 \in Seq(PinCalls) /\ c4 \in Seq(PinCalls) /\ After0 \in Seq(PinCalls)
      BY <1>1, <1>3, BootRests
    <2>2. (d3 \o c4) \o After0 = d3 \o (c4 \o After0)
      BY <2>1, Associative
    <2> QED BY <2>2, Zenon DEF d4, Sync3, c4
  <1>12. d3 \o Sync3 = d2 \o Sync2
    <2>1. d2 \in Seq(PinCalls) /\ c1 \in Seq(PinCalls) /\ Sync3 \in Seq(PinCalls)
      BY <1>1, <1>3, BootRests
    <2>2. (d2 \o c1) \o Sync3 = d2 \o (c1 \o Sync3)
      BY <2>1, Associative
    <2> QED BY <2>2, Zenon DEF d3, Sync2, c1
  <1>13. d2 \o Sync2 = d1 \o Sync1
    <2>1. d1 \in Seq(PinCalls) /\ c1 \in Seq(PinCalls) /\ Sync2 \in Seq(PinCalls)
      BY <1>1, <1>3, BootRests
    <2>2. (d1 \o c1) \o Sync2 = d1 \o (c1 \o Sync2)
      BY <2>1, Associative
    <2> QED BY <2>2, Zenon DEF d2, Sync1, c1
  <1>14. d1 \o Sync1 = c0 \o Sync0
    <2>1. c0 \in Seq(PinCalls) /\ c1 \in Seq(PinCalls) /\ Sync1 \in Seq(PinCalls)
      BY <1>1, <1>3, BootRests
    <2>2. (c0 \o c1) \o Sync1 = c0 \o (c1 \o Sync1)
      BY <2>1, Associative
    <2> QED BY <2>2, Zenon DEF d1, Sync0, c1
  <1> QED BY <1>4, <1>5, <1>6, <1>7, <1>8, <1>9, <1>10, <1>11, <1>12, <1>13, <1>14
          DEF c0, Then

\* The device in 4-bit mode, in 8-bit mode, and in 4-bit mode with the function
\* set to 8-bit mode for the first half of a byte.
Bit4 == Device(FALSE, <<>>)
Bit8 == Device(TRUE, <<>>)
HalfReset == Device(FALSE, <<{0, 1}>>)

\* The function sets: after the first one the device has either obeyed or
\* taken it for half a byte, after three it is in 8-bit mode.
SyncAt(s, pins, device) ==
    LET clear == DataPins \cup {SelectPin}
    IN  \/ NibbleAt(s, pins, clear, {0, 1}, Sync1) /\ device \in AnyDevice
        \/ NibbleAt(s, pins, clear, {0, 1}, Sync2) /\ device \in {Bit8, Bit4, HalfReset}
        \/ NibbleAt(s, pins, clear, {0, 1}, Sync3) /\ device \in {Bit8, HalfReset}
        \/ NibbleAt(s, pins, clear, {1}, After0) /\ device = Bit8

\* A function set to 8-bit mode, given to any device.
LEMMA FunctionSet ==
    ASSUME boot # "running"
    PROVE  /\ lcd = Bit8 => Latched({0, 1}, TRUE) = Bit8 /\ Latched({1}, TRUE) = Bit4
           /\ lcd = Bit4 => Latched({0, 1}, TRUE) = HalfReset
           /\ lcd = HalfReset => Latched({0, 1}, TRUE) = Bit8
           /\ lcd \in AnyDevice => Latched({0, 1}, TRUE) \in {Bit8, Bit4, HalfReset}
  <1>0. {0, 1} # {1}
    <2>1. 0 \in {0, 1} /\ 0 \notin {1}
      OBVIOUS
    <2> QED BY <2>1
  <1>1. ASSUME NEW half, lcd = Device(TRUE, half)
        PROVE  Latched({0, 1}, TRUE) = Bit8 /\ Latched({1}, TRUE) = Bit4
    BY <1>0, <1>1, LatchedWide DEF Bit8, Bit4
  <1>2. lcd = Bit4 => Latched({0, 1}, TRUE) = HalfReset
    BY LatchedFirst DEF Bit4, HalfReset
  <1>3. ASSUME NEW high, lcd = Device(FALSE, <<high>>)
        PROVE  Latched({0, 1}, TRUE) = IF high = {0, 1} THEN Bit8 ELSE Bit4
    <2>1. Latched({0, 1}, TRUE) =
            [wide |-> TRUE /\ high = {0, 1}, half |-> <<>>, bytes |-> <<>>]
      BY <1>3, LatchedSecond, Zenon
    <2>2. CASE high = {0, 1}
      BY <2>1, <2>2 DEF Bit8, Device
    <2>3. CASE high # {0, 1}
      BY <2>1, <2>3 DEF Bit4, Device
    <2> QED BY <2>2, <2>3
  <1>4. ASSUME lcd \in AnyDevice
        PROVE  Latched({0, 1}, TRUE) \in {Bit8, Bit4, HalfReset}
    <2>1. PICK wide \in BOOLEAN, half \in {<<>>} \cup {<<n>> : n \in SUBSET DataPins} :
            lcd = Device(wide, half)
      BY <1>4 DEF AnyDevice
    <2>2. CASE wide
      BY <1>1, <2>1, <2>2
    <2>3. CASE ~wide /\ half = <<>>
      BY <1>2, <2>1, <2>3 DEF Bit4
    <2>4. ASSUME NEW n, ~wide, half = <<n>>
          PROVE  Latched({0, 1}, TRUE) \in {Bit8, Bit4, HalfReset}
      BY <1>3, <2>1, <2>4
    <2> QED BY <2>1, <2>2, <2>3, <2>4
  <1>5. lcd = HalfReset => Latched({0, 1}, TRUE) = Bit8
    BY <1>3 DEF HalfReset
  <1> QED BY <1>1, <1>2, <1>4, <1>5 DEF Bit8

\* The next call of the function sets.
LEMMA SyncPlayed ==
    ASSUME SyncAt(Left, Bus, lcd), SelectPin \notin Bus, PlayNext, boot # "running"
    PROVE  /\ SelectPin \notin Bus'
           /\ \/ SyncAt(Left', Bus', lcd')
              \/ Left' = After0 /\ EnablePin \notin Bus' /\ lcd' = Bit4
  <1> DEFINE clear == DataPins \cup {SelectPin}
  <1>1. clear \in Clearing
    BY DEF Clearing
  <1>2. (SelectPin \notin Bus) = TRUE
    OBVIOUS
  <1>3. ASSUME NEW n \in {{0, 1}, {1}}, NEW rest \in Seq(PinCalls),
               NibbleAt(Left, Bus, clear, n, rest)
        PROVE  /\ SelectPin \notin Bus'
               /\ \/ NibbleAt(Left', Bus', clear, n, rest) /\ lcd' = lcd
                  \/ Left' = rest /\ EnablePin \notin Bus' /\ lcd' = Latched(n, TRUE)
    <2>1. n \in SUBSET DataPins
      BY BootBytes
    <2> HIDE DEF clear
    <2>2. /\ SelectPin \in Bus' <=> SelectPin \in Bus
          /\ \/ NibbleAt(Left', Bus', clear, n, rest) /\ lcd' = lcd
             \/ /\ Left' = rest /\ EnablePin \notin Bus'
                /\ lcd' = Latched(n, SelectPin \notin Bus)
      BY <1>1, <1>3, <2>1, NibblePlayed
    <2> QED BY <1>2, <2>2, Zenon
  <1>4. ASSUME NEW n \in SUBSET DataPins, NEW rest \in Seq(PinCalls), EnablePin \notin Bus',
               Left' = Put4Command(n) \o rest
        PROVE  NibbleAt(Left', Bus', clear, n, rest)
    BY <1>4, NibbleStart
  <1> HIDE DEF clear
  <1>5. CASE NibbleAt(Left, Bus, clear, {0, 1}, Sync1) /\ lcd \in AnyDevice
    <2>1. \/ NibbleAt(Left', Bus', clear, {0, 1}, Sync1) /\ lcd' \in AnyDevice
          \/ NibbleAt(Left', Bus', clear, {0, 1}, Sync2) /\ lcd' \in {Bit8, Bit4, HalfReset}
      BY <1>3, <1>4, <1>5, BootRests, BootBytes, FunctionSet DEF Sync1
    <2> QED BY <1>3, <1>5, <2>1, BootRests DEF SyncAt, clear
  <1>6. CASE NibbleAt(Left, Bus, clear, {0, 1}, Sync2) /\ lcd \in {Bit8, Bit4, HalfReset}
    <2>1. \/ /\ NibbleAt(Left', Bus', clear, {0, 1}, Sync2)
             /\ lcd' \in {Bit8, Bit4, HalfReset}
          \/ NibbleAt(Left', Bus', clear, {0, 1}, Sync3) /\ lcd' \in {Bit8, HalfReset}
      BY <1>3, <1>4, <1>6, BootRests, BootBytes, FunctionSet DEF Sync2
    <2> QED BY <1>3, <1>6, <2>1, BootRests DEF SyncAt, clear
  <1>7. CASE NibbleAt(Left, Bus, clear, {0, 1}, Sync3) /\ lcd \in {Bit8, HalfReset}
    <2>1. \/ NibbleAt(Left', Bus', clear, {0, 1}, Sync3) /\ lcd' \in {Bit8, HalfReset}
          \/ NibbleAt(Left', Bus', clear, {1}, After0) /\ lcd' = Bit8
      BY <1>3, <1>4, <1>7, BootRests, BootBytes, FunctionSet DEF Sync3
    <2> QED BY <1>3, <1>7, <2>1, BootRests DEF SyncAt, clear
  <1>8. CASE NibbleAt(Left, Bus, clear, {1}, After0) /\ lcd = Bit8
    <2>1. \/ NibbleAt(Left', Bus', clear, {1}, After0) /\ lcd' = Bit8
          \/ Left' = After0 /\ EnablePin \notin Bus' /\ lcd' = Bit4
      BY <1>3, <1>8, BootRests, FunctionSet
    <2> QED BY <1>3, <1>8, <2>1, BootRests DEF SyncAt, clear
  <1> QED BY <1>5, <1>6, <1>7, <1>8 DEF SyncAt, clear

\* The next call when it moves the select pin, or drives the backlight.
LEMMA SelectPlayed ==
    ASSUME NEW rest \in Seq(PinCalls), NEW level \in {"high", "low"}, PlayNext,
           Left = Then([bank |-> LockBank, pins |-> {SelectPin}, level |-> level], rest),
           EnablePin \notin Bus
    PROVE  /\ Left' = rest /\ EnablePin \notin Bus' /\ lcd' = lcd
           /\ SelectPin \in Bus' <=> level = "high"
  <1> DEFINE call == [bank |-> LockBank, pins |-> {SelectPin}, level |-> level]
  <1>1. call \in PinCalls
    BY CallsOnPins DEF High, Low
  <1>2. Head(Left) = call /\ Tail(Left) = rest
    BY <1>1, ThenFacts
  <1>3. /\ call.bank = LockBank /\ call.pins = {SelectPin} /\ call.level = level
    OBVIOUS
  <1> HIDE DEF call
  <1>6. Played(Left, Bus) =
          IF level = "high" THEN Bus \cup {SelectPin} ELSE Bus \ {SelectPin}
    BY <1>2, <1>3 DEF Played, Applied
  <1>4. EnablePin # SelectPin
    BY DEF EnablePin, SelectPin
  <1>5. Left' = Tail(Left) /\ Bus' = Played(Left, Bus) /\ lcd' = lcd
    BY Zenon DEF PlayNext
  <1>7. CASE level = "high"
    <2>1. Bus' = Bus \cup {SelectPin}
      BY <1>5, <1>6, <1>7
    <2>2. EnablePin \notin Bus' /\ SelectPin \in Bus'
      BY <1>4, <2>1
    <2> QED BY <1>2, <1>5, <1>7, <2>2
  <1>8. CASE level = "low"
    <2>1. Bus' = Bus \ {SelectPin}
      BY <1>5, <1>6, <1>8
    <2>2. EnablePin \notin Bus' /\ SelectPin \notin Bus'
      BY <2>1
    <2> QED BY <1>2, <1>5, <1>8, <2>2
  <1> QED BY <1>7, <1>8

\* The calls on the backlight.
ColorCalls == {call \in PinCalls : call.bank = ColorBank}

\* The device sees none of them.
LEMMA ColorPlayed ==
    ASSUME PlayNext, Left \in Seq(ColorCalls), EnablePin \notin Bus
    PROVE  Left' \in Seq(ColorCalls) /\ EnablePin \notin Bus' /\ lcd' = lcd
  <1>1. Left # <<>> /\ Left' = Tail(Left) /\ Bus' = Played(Left, Bus) /\ lcd' = lcd
    BY Zenon DEF PlayNext
  <1>2. Head(Left) \in ColorCalls /\ Tail(Left) \in Seq(ColorCalls)
    BY <1>1, HeadAndTail
  <1>3. Head(Left).bank # LockBank
    BY <1>2, DisplayAssumption DEF ColorCalls
  <1> QED BY <1>1, <1>2, <1>3 DEF Played

\* setBacklightColor makes no other calls.
LEMMA BacklightColors ==
    ASSUME NEW color \in ColorPins \cup {NoColor}
    PROVE  SetBacklightColor(color) \in Seq(ColorCalls)
  <1>1. Low(ColorBank, ColorPins) \in ColorCalls
    BY CallsOnColors DEF ColorCalls, Low
  <1>2. color # NoColor => High(ColorBank, {color}) \in ColorCalls
    BY CallsOnColors DEF ColorCalls, High
  <1>3. <<Low(ColorBank, ColorPins)>> \in Seq(ColorCalls)
    BY <1>1
  <1>4. (IF color = NoColor THEN <<>> ELSE <<High(ColorBank, {color})>>) \in Seq(ColorCalls)
    BY <1>2
  <1> QED BY <1>3, <1>4 DEF SetBacklightColor

\* The bytes of the boot, each with what is left after it.
Setup ==
    {[byte |-> <<{1}, {3}>>, rest |-> After1],
     [byte |-> <<{}, {2, 3}>>, rest |-> After2],
     [byte |-> <<{}, {1, 2}>>, rest |-> After3],
     [byte |-> <<{}, {1}>>, rest |-> After4],
     [byte |-> <<{}, {0}>>, rest |-> After5]}

\* Where the display's boot can be once the bus has been cleared.
BootAt(s, pins, device) ==
    \/ SelectPin \notin pins /\ SyncAt(s, pins, device)
    \/ /\ s \in {After0, After1, After2, After5} /\ device = Bit4
       /\ SelectPin \notin pins /\ EnablePin \notin pins
    \/ /\ \E step \in Setup : ByteAt(s, pins, device, step.byte, step.rest)
       /\ SelectPin \notin pins
    \/ s \in Seq(ColorCalls) /\ device = Bit4 /\ EnablePin \notin pins

\* After a byte the boot is where the next one starts.
LEMMA AfterByte ==
    ASSUME NEW s \in {After1, After2, After3, After4, After5}, NEW pins,
           SelectPin \notin pins, EnablePin \notin pins
    PROVE  BootAt(s, pins, Bit4)
  <1>1. CASE s \in {After1, After2, After5}
    BY <1>1 DEF BootAt
  <1>2. ASSUME NEW byte \in Bytes, NEW rest \in Seq(PinCalls),
               [byte |-> byte, rest |-> rest] \in Setup, s = SendDataCmd(byte) \o rest
        PROVE  BootAt(s, pins, Bit4)
    <2>1. ByteAt(s, pins, Bit4, byte, rest)
      BY <1>2, ByteStart DEF Bit4
    <2> DEFINE step == [byte |-> byte, rest |-> rest]
    <2>2. step \in Setup /\ step.byte = byte /\ step.rest = rest
      BY <1>2
    <2> QED BY <2>1, <2>2, Zenon DEF BootAt
  <1>3. CASE s = After3
    <2>1. [byte |-> <<{}, {1}>>, rest |-> After4] \in Setup
      BY Zenon DEF Setup
    <2> QED BY <1>2, <1>3, <2>1, BootBytes, BootRests DEF After3
  <1>4. CASE s = After4
    <2>1. [byte |-> <<{}, {0}>>, rest |-> After5] \in Setup
      BY Zenon DEF Setup
    <2> QED BY <1>2, <1>4, <2>1, BootBytes, BootRests DEF After4
  <1> QED BY <1>1, <1>3, <1>4

\* A command starts with its select pin low.
LEMMA CommandPlayed ==
    ASSUME NEW byte \in Bytes, NEW rest \in Seq(PinCalls),
           [byte |-> byte, rest |-> rest] \in Setup,
           Left = PutCommand(byte) \o rest, lcd = Bit4, EnablePin \notin Bus, PlayNext
    PROVE  BootAt(Left', Bus', lcd')
  <1> DEFINE data == SendDataCmd(byte) \o rest
             step == [byte |-> byte, rest |-> rest]
  <1>1. data \in Seq(PinCalls) /\ Left = Then(Low(LockBank, {SelectPin}), data)
    BY ByteStart
  <1>2. Left' = data /\ EnablePin \notin Bus' /\ SelectPin \notin Bus' /\ lcd' = lcd
    <2>1. Left = Then([bank |-> LockBank, pins |-> {SelectPin}, level |-> "low"], data)
      BY <1>1 DEF Low
    <2> QED BY <1>1, <2>1, SelectPlayed
  <1>3. ByteAt(Left', Bus', lcd', byte, rest)
    BY <1>2, ByteStart DEF Bit4
  <1>4. step \in Setup /\ step.byte = byte /\ step.rest = rest
    OBVIOUS
  <1> QED BY <1>2, <1>3, <1>4, Zenon DEF BootAt

\* The next call of the boot leads to where the boot can be.
LEMMA BootPlayed ==
    ASSUME BootAt(Left, Bus, lcd), PlayNext, boot # "running"
    PROVE  BootAt(Left', Bus', lcd')
  <1>1. CASE SelectPin \notin Bus /\ SyncAt(Left, Bus, lcd)
    <2>1. \/ SelectPin \notin Bus' /\ SyncAt(Left', Bus', lcd')
          \/ /\ SelectPin \notin Bus'
             /\ Left' = After0 /\ EnablePin \notin Bus' /\ lcd' = Bit4
      BY <1>1, SyncPlayed
    <2> QED BY <2>1 DEF BootAt
  <1>2. CASE /\ Left \in {After0, After1, After2, After5} /\ lcd = Bit4
             /\ SelectPin \notin Bus /\ EnablePin \notin Bus
    <2>1. ASSUME NEW byte \in Bytes, NEW rest \in Seq(PinCalls),
                 [byte |-> byte, rest |-> rest] \in Setup, Left = PutCommand(byte) \o rest
          PROVE  BootAt(Left', Bus', lcd')
      BY <1>2, <2>1, CommandPlayed
    <2>2. /\ [byte |-> <<{1}, {3}>>, rest |-> After1] \in Setup
          /\ [byte |-> <<{}, {2, 3}>>, rest |-> After2] \in Setup
          /\ [byte |-> <<{}, {1, 2}>>, rest |-> After3] \in Setup
      BY Zenon DEF Setup
    <2>3. CASE Left = After0
      BY <2>1, <2>2, <2>3, BootBytes, BootRests DEF After0
    <2>4. CASE Left = After1
      BY <2>1, <2>2, <2>4, BootBytes, BootRests DEF After1
    <2>5. CASE Left = After2
      BY <2>1, <2>2, <2>5, BootBytes, BootRests DEF After2
    <2>6. CASE Left = After5
      <3>1. SetBacklightColor(NoColor) \in Seq(ColorCalls)
        BY BacklightColors
      <3>2. SetBacklightColor(NoColor) \in Seq(PinCalls)
        BY BacklightCalls
      <3>3. Left = Then([bank |-> LockBank, pins |-> {SelectPin}, level |-> "high"],
                        SetBacklightColor(NoColor))
        BY <2>6 DEF After5, Then, High
      <3>4. Left' = SetBacklightColor(NoColor) /\ EnablePin \notin Bus' /\ lcd' = lcd
        BY <1>2, <3>2, <3>3, SelectPlayed
      <3> QED BY <1>2, <3>1, <3>4 DEF BootAt
    <2> QED BY <1>2, <2>3, <2>4, <2>5, <2>6
  <1>3. ASSUME NEW step \in Setup, ByteAt(Left, Bus, lcd, step.byte, step.rest),
               SelectPin \notin Bus
        PROVE  BootAt(Left', Bus', lcd')
    <2>1. /\ step.byte \in Bytes /\ step.byte[1] # {0, 1}
          /\ step.rest \in {After1, After2, After3, After4, After5}
      <3>1. {1} # {0, 1} /\ {} # {0, 1}
        <4>1. 0 \in {0, 1} /\ 0 \notin {1} /\ 0 \notin {}
          OBVIOUS
        <4> QED BY <4>1
      <3>2. /\ <<{1}, {3}>>[1] = {1} /\ <<{}, {2, 3}>>[1] = {} /\ <<{}, {1, 2}>>[1] = {}
            /\ <<{}, {1}>>[1] = {} /\ <<{}, {0}>>[1] = {}
        OBVIOUS
      <3> QED BY <3>1, <3>2, BootBytes DEF Setup
    <2>2. step.rest \in Seq(PinCalls)
      BY <2>1, BootRests
    <2> DEFINE byte == step.byte
               rest == step.rest
    <2> HIDE DEF byte, rest
    <2>3. /\ SelectPin \in Bus' <=> SelectPin \in Bus
          /\ \/ ByteAt(Left', Bus', lcd', byte, rest)
             \/ /\ Left' = rest /\ EnablePin \notin Bus'
                /\ lcd' = [wide |-> FALSE, half |-> <<>>,
                           bytes |-> IF boot = "running"
                                     THEN <<[byte |-> byte, command |-> SelectPin \notin Bus]>>
                                     ELSE <<>>]
      BY <1>3, <2>1, <2>2, BytePlayed DEF byte, rest
    <2>4. CASE ByteAt(Left', Bus', lcd', byte, rest)
      BY <1>3, <2>3, <2>4, Zenon DEF BootAt, byte, rest
    <2>5. CASE /\ Left' = rest /\ EnablePin \notin Bus'
               /\ lcd' = [wide |-> FALSE, half |-> <<>>, bytes |-> <<>>]
      <3>1. lcd' = Bit4
        BY <2>5 DEF Bit4, Device
      <3> QED BY <1>3, <2>1, <2>3, <2>5, <3>1, AfterByte DEF rest
    <2> QED BY <2>3, <2>4, <2>5
  <1>4. CASE Left \in Seq(ColorCalls) /\ lcd = Bit4 /\ EnablePin \notin Bus
    BY <1>4, ColorPlayed DEF BootAt
  <1> QED BY <1>1, <1>2, <1>3, <1>4 DEF BootAt

-----------------------------------------------------------------------------
\* The operations.

\* Where an undisturbed operation that sends bytes can be.
RunAt(s, pins, device, bytes) ==
    \/ /\ s = <<>> /\ EnablePin \notin pins
       /\ device = [wide |-> FALSE, half |-> <<>>, bytes |-> bytes]
    \/ s \in Seq(ColorCalls) /\ device = Bit4 /\ EnablePin \notin pins /\ bytes = <<>>
    \/ \E byte \in Bytes, command \in BOOLEAN :
         /\ bytes = <<[byte |-> byte, command |-> command]>>
         /\ command => byte[1] # {0, 1}
         /\ \/ /\ s = Then([bank |-> LockBank, pins |-> {SelectPin},
                            level |-> IF command THEN "low" ELSE "high"], SendDataCmd(byte))
               /\ device = Bit4 /\ EnablePin \notin pins
            \/ /\ ByteAt(s, pins, device, byte, <<>>)
               /\ SelectPin \in pins <=> ~command

\* An operation may have nothing left to do.
LEMMA NoCallsLeft == <<>> \in Seq(PinCalls)
  OBVIOUS

\* An operation starts where it can be.
LEMMA RunStart ==
    ASSUME NEW operation \in Operations, NEW pins, EnablePin \notin pins
    PROVE  RunAt(operation.calls, pins, Bit4, operation.bytes)
  <1>1. ASSUME NEW byte \in Bytes
        PROVE  /\ PutCommand(byte) = Then(Low(LockBank, {SelectPin}), SendDataCmd(byte))
               /\ PutChar(byte) = Then(High(LockBank, {SelectPin}), SendDataCmd(byte))
    BY DEF PutCommand, PutChar, Then
  <1>2. CASE \E byte \in Characters :
               operation = [calls |-> PutChar(byte),
                            bytes |-> <<[byte |-> byte, command |-> FALSE]>>]
    <2>1. PICK byte \in Characters :
            operation = [calls |-> PutChar(byte),
                         bytes |-> <<[byte |-> byte, command |-> FALSE]>>]
      BY <1>2
    <2>2. byte \in Bytes
      BY DisplayAssumption
    <2> DEFINE command == FALSE
    <2>3. operation.calls = Then([bank |-> LockBank, pins |-> {SelectPin},
                            level |-> IF command THEN "low" ELSE "high"], SendDataCmd(byte))
      BY <1>1, <2>1, <2>2 DEF High
    <2>4. operation.bytes = <<[byte |-> byte, command |-> command]>>
      BY <2>1
    <2> QED BY <2>2, <2>3, <2>4, Zenon DEF RunAt
  <1>3. CASE \E byte \in Commands :
               operation = [calls |-> PutCommand(byte),
                            bytes |-> <<[byte |-> byte, command |-> TRUE]>>]
    <2>1. PICK byte \in Commands :
            operation = [calls |-> PutCommand(byte),
                         bytes |-> <<[byte |-> byte, command |-> TRUE]>>]
      BY <1>3
    <2>2. byte \in Bytes /\ byte[1] # {0, 1}
      BY DisplayAssumption
    <2> DEFINE command == TRUE
    <2>3. operation.calls = Then([bank |-> LockBank, pins |-> {SelectPin},
                            level |-> IF command THEN "low" ELSE "high"], SendDataCmd(byte))
      BY <1>1, <2>1, <2>2 DEF Low
    <2>4. operation.bytes = <<[byte |-> byte, command |-> command]>>
      BY <2>1
    <2> QED BY <2>2, <2>3, <2>4, Zenon DEF RunAt
  <1>4. CASE \E color \in Colors :
               operation = [calls |-> SetBacklightColor(color), bytes |-> <<>>]
    <2>1. operation.calls \in Seq(ColorCalls) /\ operation.bytes = <<>>
      BY <1>4, BacklightColors, DisplayAssumption
    <2> QED BY <2>1 DEF RunAt
  <1> QED BY <1>2, <1>3, <1>4 DEF Operations

\* The next call of an operation leads to where the operation can be.
LEMMA RunPlayed ==
    ASSUME NEW bytes, RunAt(Left, Bus, lcd, bytes), PlayNext, boot = "running"
    PROVE  RunAt(Left', Bus', lcd', bytes)
  <1>1. CASE Left = <<>>
    BY <1>1 DEF PlayNext
  <1>2. CASE Left \in Seq(ColorCalls) /\ lcd = Bit4 /\ EnablePin \notin Bus /\ bytes = <<>>
    BY <1>2, ColorPlayed DEF RunAt
  <1>3. ASSUME NEW byte \in Bytes, NEW command \in BOOLEAN,
               bytes = <<[byte |-> byte, command |-> command]>>,
               command => byte[1] # {0, 1},
               Left = Then([bank |-> LockBank, pins |-> {SelectPin},
                            level |-> IF command THEN "low" ELSE "high"], SendDataCmd(byte)),
               lcd = Bit4, EnablePin \notin Bus
        PROVE  RunAt(Left', Bus', lcd', bytes)
    <2>1. /\ SendDataCmd(byte) \in Seq(PinCalls)
          /\ SendDataCmd(byte) \o <<>> = SendDataCmd(byte)
      BY SendDataCmdCalls, ConcatEmptySeq
    <2> DEFINE level == IF command THEN "low" ELSE "high"
    <2>2. level \in {"high", "low"} /\ (level = "high" <=> ~command)
      OBVIOUS
    <2>3. Left = Then([bank |-> LockBank, pins |-> {SelectPin}, level |-> level],
                      SendDataCmd(byte))
      BY <1>3
    <2> HIDE DEF level
    <2>4. /\ Left' = SendDataCmd(byte) /\ EnablePin \notin Bus' /\ lcd' = lcd
          /\ SelectPin \in Bus' <=> ~command
      BY <1>3, <2>1, <2>2, <2>3, SelectPlayed
    <2>5. ByteAt(Left', Bus', lcd', byte, <<>>)
      BY <1>3, <2>1, <2>4, NoCallsLeft, ByteStart DEF Bit4
    <2> QED BY <1>3, <2>4, <2>5, Zenon DEF RunAt
  <1>4. ASSUME NEW byte \in Bytes, NEW command \in BOOLEAN,
               bytes = <<[byte |-> byte, command |-> command]>>,
               command => byte[1] # {0, 1},
               ByteAt(Left, Bus, lcd, byte, <<>>), SelectPin \in Bus <=> ~command
        PROVE  RunAt(Left', Bus', lcd', bytes)
    <2>1. /\ SelectPin \in Bus' <=> SelectPin \in Bus
          /\ \/ ByteAt(Left', Bus', lcd', byte, <<>>)
             \/ /\ Left' = <<>> /\ EnablePin \notin Bus'
                /\ lcd' = [wide |-> FALSE, half |-> <<>>,
                           bytes |-> IF boot = "running"
                                     THEN <<[byte |-> byte, command |-> SelectPin \notin Bus]>>
                                     ELSE <<>>]
      BY <1>4, NoCallsLeft, BytePlayed
    <2>2. (SelectPin \notin Bus) = command
      BY <1>4
    <2>3. CASE ByteAt(Left', Bus', lcd', byte, <<>>)
      BY <1>4, <2>1, <2>3, Zenon DEF RunAt
    <2>4. CASE ~ByteAt(Left', Bus', lcd', byte, <<>>)
      <3>1. lcd' = [wide |-> FALSE, half |-> <<>>, bytes |-> bytes]
        BY <1>4, <2>1, <2>2, <2>4, Zenon
      <3> QED BY <2>1, <2>4, <3>1 DEF RunAt
    <2> QED BY <2>3, <2>4
  <1> QED BY <1>1, <1>2, <1>3, <1>4, Zenon DEF RunAt

-----------------------------------------------------------------------------
\* The inductive invariant.

\* Who calls: the Ui thread on the display's pins, the fingerprint thread on
\* the lock's, and nobody before the boot is over.
CallersInv ==
    /\ \A t \in Threads \ {UiThread, LockThread} : pc[t] = "idle"
    /\ pc[LockThread] # "idle" =>
         op[LockThread].bank = LockBank /\ op[LockThread].pins = LockPins
    /\ pc[UiThread] # "idle" => op[UiThread] \in PinCalls
    /\ boot # "running" => \A t \in Threads : pc[t] = "idle"
    /\ boot \in {"display", "lock"} => ~disturbed

\* The copies of the byte of the display's bank in the call of t, which has
\* the bank to itself.
Copies(t) ==
    /\ Active(LockBank) = {t}
    /\ pc[t] \in {"load", "store"} => cache[LockBank] = reg[LockBank]
    /\ pc[t] # "load" => tmp[t] = Applied(op[t], reg[LockBank])
    /\ pc[t] \in {"argument", "write"} => cache[LockBank] = tmp[t]

\* The cached byte of the display's bank is the register's, up to the call
\* under way.
CopyInv ==
    /\ boot = "lock" => cache[LockBank] = reg[LockBank]
    /\ boot = "running" /\ ~disturbed =>
          \/ Active(LockBank) = {} /\ cache[LockBank] = reg[LockBank]
          \/ \E t \in {UiThread, LockThread} : Copies(t)

\* What the device has of a byte.
Halves == {<<>>} \cup {<<n>> : n \in SUBSET DataPins}

\* Where the display's calls and the device are.
ProtocolInv ==
    /\ lcd.half \in Halves
    /\ boot # "running" => lcd.bytes = <<>> /\ sent = <<>>
    /\ boot = "initialize" => todo = BootCalls
    /\ boot = "display" => \/ todo = BootCalls /\ cache[LockBank] = {}
                           \/ BootAt(todo, Bus, lcd) /\ cache[LockBank] = reg[LockBank]
    /\ boot = "lock" => todo = <<>> /\ lcd = Bit4 /\ EnablePin \notin Bus
    /\ boot = "running" /\ ~disturbed => RunAt(Left, Bus, lcd, sent)

\* The invariant of the display: its callers, their copies of the byte, and what
\* the device has of it.
DisplayInv == CallersInv /\ CopyInv /\ ProtocolInv

\* The two users of the display's bank and their pins.
LEMMA UiAndLock ==
    /\ UiThread \in Threads /\ LockThread \in Threads /\ UiThread # LockThread
    /\ LockBank \in Banks /\ ColorBank # LockBank /\ LockPins \cap Owned = {}
    /\ LockPins \subseteq Pins /\ DisplayPins[LockBank] = Owned
  BY WiringAssumption, DisplayAssumption DEF Owned

\* Callers keep to what is theirs.
LEMMA CallersStep ==
    ASSUME TypeOK, TodoInv, DisplayInv, [DisplayNext]_displayVars
    PROVE  CallersInv'
  <1> USE UiAndLock DEF DisplayInv, CallersInv, TypeOK
  <1>1. CASE BootExpander BY <1>1 DEF BootExpander, Initialize
  <1>2. CASE BootDisplayCall BY <1>2 DEF BootDisplayCall, BootCall
  <1>3. CASE BootThreads BY <1>3 DEF BootThreads, BootDisplay, BootLock
  <1>4. CASE Operate BY <1>4 DEF Operate, vars
  <1>5. CASE OperationCall
    <2>1. Head(todo) \in PinCalls
      BY <1>5, HeadAndTail DEF OperationCall, TodoInv
    <2>2. /\ boot = "running" /\ boot' = boot /\ pc' = [pc EXCEPT ![UiThread] = "load"]
          /\ op' = [op EXCEPT ![UiThread] = Head(todo)]
      BY <1>5 DEF OperationCall, DisplayCall, Begin
    <2> QED BY <2>1, <2>2
  <1>6. CASE DisplayRestart BY <1>6 DEF DisplayRestart, Restart
  <1>7. ASSUME NEW s \in {"locked", "unlocked"}, LockOperation(s) PROVE CallersInv'
    BY <1>7 DEF LockOperation, SetState, Begin, LockCall
  <1>8. ASSUME NEW t \in Threads, CallStep(t) PROVE CallersInv'
    <2>1. /\ pc[t] # "idle" /\ UNCHANGED <<boot, op, disturbed>>
          /\ \E where \in {"store", "argument", "write", "idle"} :
                pc' = [pc EXCEPT ![t] = where]
      BY <1>8 DEF CallStep, Load, Store, Argument, Write
    <2> QED BY <2>1
  <1>9. CASE UNCHANGED displayVars BY <1>9 DEF displayVars, vars
  <1> QED BY <1>1, <1>2, <1>3, <1>4, <1>5, <1>6, <1>7, <1>8, <1>9 DEF DisplayNext

\* A call that begins on a bank of its own finds the byte as the register.
LEMMA CopiesBegun ==
    ASSUME TypeOK, DisplayInv, ~disturbed, NEW t \in {UiThread, LockThread},
           NEW call \in Calls, Begin(t, call),
           call.bank = LockBank => Active(LockBank) = {},
           ~disturbed'
    PROVE  CopyInv'
  <1> USE UiAndLock DEF DisplayInv, CopyInv, TypeOK
  <1>1. /\ boot = "running" /\ boot' = boot /\ pc[t] = "idle"
        /\ pc' = [pc EXCEPT ![t] = "load"] /\ op' = [op EXCEPT ![t] = call]
        /\ UNCHANGED <<cache, reg, tmp>>
    BY DEF Begin
  <1>2. CASE call.bank = LockBank
    <2>1. Active(LockBank)' = {t}
      BY <1>1, <1>2 DEF Active
    <2> QED BY <1>1, <1>2, <2>1 DEF Copies
  <1>3. CASE call.bank # LockBank
    <2>1. Active(LockBank)' = Active(LockBank) /\ t \notin Active(LockBank)
      BY <1>1, <1>3 DEF Active
    <2>2. CASE Active(LockBank) = {}
      BY <1>1, <2>1, <2>2 DEF Copies
    <2>3. ASSUME NEW u \in {UiThread, LockThread}, Copies(u) PROVE CopyInv'
      <3>1. u # t /\ pc'[u] = pc[u] /\ op'[u] = op[u]
        BY <1>1, <2>1, <2>3 DEF Copies
      <3>2. Copies(u)'
        BY <1>1, <2>1, <2>3, <3>1 DEF Copies
      <3> QED BY <1>1, <3>2
    <2> QED BY <1>1, <2>2, <2>3
  <1> QED BY <1>2, <1>3

\* A call goes on: its copies stay right, and the write is the only step that
\* another one of the bank's users sees.
LEMMA CopiesKept ==
    ASSUME TypeOK, DisplayInv, NEW t \in Threads, boot = "running", ~disturbed,
           UNCHANGED disturbed, Load(t) \/ Store(t) \/ Argument(t) \/ Write(t)
    PROVE  /\ CopyInv'
           /\ reg'[LockBank] = IF Write(t) /\ op[t].bank = LockBank
                               THEN Applied(op[t], reg[LockBank]) ELSE reg[LockBank]
  <1> USE UiAndLock DEF DisplayInv, TypeOK
  <1>1. pc[t] # "idle" /\ boot' = boot /\ op' = op
    BY DEF Load, Store, Argument, Write
  <1>2. CASE op[t].bank = LockBank
    <2>1. t \in {UiThread, LockThread} /\ Copies(t)
      BY <1>1, <1>2 DEF Active, Copies, CopyInv, CallersInv
    <2>2. CASE Load(t)
      <3>1. Active(LockBank)' = {t}
        BY <2>1, <2>2 DEF Load, Active, Copies
      <3>2. Copies(t)'
        BY <1>2, <2>1, <2>2, <3>1 DEF Load, Copies
      <3> QED BY <1>1, <2>1, <2>2, <3>2 DEF CopyInv, Load, Write
    <2>3. CASE Store(t)
      <3>1. Active(LockBank)' = {t}
        BY <2>1, <2>3 DEF Store, Active, Copies
      <3>2. Copies(t)'
        BY <1>2, <2>1, <2>3, <3>1 DEF Store, Copies
      <3> QED BY <1>1, <2>1, <2>3, <3>2 DEF CopyInv, Store, Write
    <2>4. CASE Argument(t)
      <3>1. Active(LockBank)' = {t}
        BY <2>1, <2>4 DEF Argument, Active, Copies
      <3>2. Copies(t)'
        BY <1>2, <2>1, <2>4, <3>1 DEF Argument, Copies
      <3> QED BY <1>1, <2>1, <2>4, <3>2 DEF CopyInv, Argument, Write
    <2>5. CASE Write(t)
      <3>1. Active(LockBank)' = {}
        BY <2>1, <2>5 DEF Write, Active, Copies
      <3>2. reg'[LockBank] = tmp[t] /\ cache' = cache
        BY <1>2, <2>5 DEF Write, Written
      <3>3. tmp[t] = Applied(op[t], reg[LockBank]) /\ cache[LockBank] = tmp[t]
        BY <2>1, <2>5 DEF Copies, Write
      <3> QED BY <1>1, <1>2, <2>5, <3>1, <3>2, <3>3 DEF CopyInv
    <2> QED BY <2>2, <2>3, <2>4, <2>5
  <1>3. CASE op[t].bank # LockBank
    <2>1. reg'[LockBank] = reg[LockBank] /\ cache'[LockBank] = cache[LockBank]
      BY <1>3 DEF Load, Store, Argument, Write, Written
    <2>2. Active(LockBank)' = Active(LockBank) /\ t \notin Active(LockBank)
      BY <1>3 DEF Load, Store, Argument, Write, Active
    <2>3. ASSUME NEW u \in {UiThread, LockThread}, Copies(u) PROVE Copies(u)'
      <3>1. u # t /\ pc'[u] = pc[u] /\ tmp'[u] = tmp[u]
        BY <2>2, <2>3 DEF Copies, Load, Store, Argument, Write
      <3> QED BY <1>1, <2>1, <2>2, <2>3, <3>1 DEF Copies
    <2>4. CopyInv'
      BY <1>1, <2>1, <2>2, <2>3 DEF CopyInv
    <2> QED BY <1>3, <2>1, <2>4
  <1> QED BY <1>2, <1>3

\* What the device makes of a step, by the pins of the display.
LEMMA Followed ==
    ASSUME React, ~disturbed'
    PROVE  /\ EnablePin \in Bus /\ EnablePin \notin Bus' =>
                \E bus \in {Bus, Bus'} :
                    lcd' = Latched(bus \cap DataPins, SelectPin \notin bus)
           /\ ~(EnablePin \in Bus /\ EnablePin \notin Bus') => lcd' = lcd
  <1> DEFINE before == reg[LockBank]
             after == reg'[LockBank]
  <1>1. Bus = before \cap Owned /\ Bus' = after \cap Owned
    BY DEF Bus
  <1>2. EnablePin \in Owned /\ SelectPin \in Owned /\ DataPins \subseteq Owned
    BY DEF Owned
  <1> HIDE DEF before, after
  <1>3. /\ EnablePin \in Bus <=> EnablePin \in before
        /\ EnablePin \in Bus' <=> EnablePin \in after
        /\ Bus \cap DataPins = before \cap DataPins
        /\ Bus' \cap DataPins = after \cap DataPins
        /\ (SelectPin \notin Bus) = (SelectPin \notin before)
        /\ (SelectPin \notin Bus') = (SelectPin \notin after)
    BY <1>1, <1>2
  <1>4. /\ EnablePin \in before /\ EnablePin \notin after =>
             \E bus \in {before, after} :
                 lcd' = Latched(bus \cap DataPins, SelectPin \notin bus)
        /\ ~(EnablePin \in before /\ EnablePin \notin after) => lcd' = lcd
    BY Zenon DEF React, before, after
  <1>5. ASSUME EnablePin \in Bus, EnablePin \notin Bus'
        PROVE  \E bus \in {Bus, Bus'} :
                   lcd' = Latched(bus \cap DataPins, SelectPin \notin bus)
    <2>1. PICK bus \in {before, after} :
              lcd' = Latched(bus \cap DataPins, SelectPin \notin bus)
      BY <1>3, <1>4, <1>5, Zenon
    <2>2. CASE bus = before
      BY <1>3, <2>1, <2>2, Zenon
    <2>3. CASE bus = after
      BY <1>3, <2>1, <2>3, Zenon
    <2> QED BY <2>1, <2>2, <2>3
  <1> QED BY <1>3, <1>4, <1>5, Zenon

\* A call changes the display's pins as it changes the byte.
LEMMA BusApplied ==
    ASSUME NEW call \in PinCalls, call.bank = LockBank, TypeOK,
           reg'[LockBank] = Applied(call, reg[LockBank])
    PROVE  Bus' = Applied(call, Bus)
  <1>1. call.pins \subseteq Owned
    BY UiAndLock DEF PinCalls
  <1> QED BY <1>1 DEF Bus, Applied

\* The device has half a byte at most, and keeps no bytes of a boot.
LEMMA HalfKept ==
    ASSUME DeviceInv, lcd.half \in Halves, React
    PROVE  /\ lcd'.half \in Halves
           /\ boot # "running" /\ lcd.bytes = <<>> => lcd'.bytes = <<>>
  <1>1. ASSUME NEW nibble \in SUBSET DataPins, NEW command
        PROVE  /\ Latched(nibble, command).half \in Halves
               /\ boot # "running" /\ lcd.bytes = <<>> =>
                    Latched(nibble, command).bytes = <<>>
    <2>1. CASE ~lcd.wide /\ lcd.half = <<>>
      <3>1. Latched(nibble, command) = [lcd EXCEPT !.half = <<nibble>>]
        BY <2>1 DEF Latched
      <3>2. /\ Latched(nibble, command).half = <<nibble>>
            /\ Latched(nibble, command).bytes = lcd.bytes
        BY <3>1 DEF DeviceInv
      <3> QED BY <3>2 DEF Halves
    <2>2. CASE ~(~lcd.wide /\ lcd.half = <<>>)
      <3>1. /\ Latched(nibble, command).half = <<>>
            /\ boot # "running" => Latched(nibble, command).bytes = <<>>
        BY <2>2 DEF Latched
      <3> QED BY <3>1 DEF Halves
    <2> QED BY <2>1, <2>2
  <1>2. CASE disturbed'
    BY <1>2 DEF React, Device, Halves
  <1>3. CASE \E bus : lcd' = Latched(bus \cap DataPins, SelectPin \notin bus)
    <2>1. PICK bus : lcd' = Latched(bus \cap DataPins, SelectPin \notin bus)
      BY <1>3
    <2>2. bus \cap DataPins \in SUBSET DataPins
      OBVIOUS
    <2> QED BY <1>1, <2>1, <2>2, Zenon
  <1>4. CASE lcd' = lcd
    BY <1>4
  <1> QED BY <1>2, <1>3, <1>4, Zenon DEF React

\* Nothing is left of an operation only where it is over.
LEMMA NibbleLeft ==
    ASSUME NEW nibble \in SUBSET DataPins, NEW rest \in Seq(PinCalls),
           NEW clear \in Clearing, NEW s, NEW pins, NibbleAt(s, pins, clear, nibble, rest)
    PROVE  s # <<>>
  <1> DEFINE last == Low(LockBank, {EnablePin})
             rise == High(LockBank, {EnablePin})
             set == High(LockBank, nibble)
             reset == Low(LockBank, clear)
  <1>1. last \in PinCalls /\ rise \in PinCalls /\ set \in PinCalls /\ reset \in PinCalls
    BY CallsOnPins DEF Clearing
  <1>2. Then(last, rest) \in Seq(PinCalls) /\ Then(last, rest) # <<>>
    BY <1>1, ThenFacts
  <1>3. /\ Then(rise, Then(last, rest)) \in Seq(PinCalls)
        /\ Then(rise, Then(last, rest)) # <<>>
    BY <1>1, <1>2, ThenFacts
  <1>4. /\ Then(set, Then(rise, Then(last, rest))) \in Seq(PinCalls)
        /\ Then(set, Then(rise, Then(last, rest))) # <<>>
    BY <1>1, <1>3, ThenFacts
  <1>5. Then(reset, Then(set, Then(rise, Then(last, rest)))) # <<>>
    BY <1>1, <1>4, ThenFacts
  <1> QED BY <1>2, <1>3, <1>4, <1>5 DEF NibbleAt

\* The same of a byte.
LEMMA ByteLeft ==
    ASSUME NEW byte \in Bytes, NEW rest \in Seq(PinCalls), NEW s, NEW pins, NEW device,
           ByteAt(s, pins, device, byte, rest)
    PROVE  s # <<>>
  <1>1. byte[1] \in SUBSET DataPins /\ byte[2] \in SUBSET DataPins
    BY DEF Bytes
  <1>2. SendNibble(byte[2]) \o rest \in Seq(PinCalls)
    BY <1>1, SendNibbleCalls, ConcatProperties
  <1>3. DataPins \in Clearing
    BY DEF Clearing
  <1> QED BY <1>1, <1>2, <1>3, NibbleLeft DEF ByteAt

\* The boot ends with the device in 4-bit mode.
LEMMA BootEnd ==
    ASSUME NEW pins, NEW device, BootAt(<<>>, pins, device)
    PROVE  device = Bit4 /\ EnablePin \notin pins
  <1>1. ~SyncAt(<<>>, pins, device)
    <2>1. DataPins \cup {SelectPin} \in Clearing
      BY DEF Clearing
    <2>2. ASSUME NEW n \in {{0, 1}, {1}}, NEW rest \in {Sync1, Sync2, Sync3, After0}
          PROVE  ~NibbleAt(<<>>, pins, DataPins \cup {SelectPin}, n, rest)
      <3>1. n \in SUBSET DataPins /\ rest \in Seq(PinCalls)
        BY BootBytes, BootRests
      <3> DEFINE clear == DataPins \cup {SelectPin}
      <3>2. clear \in Clearing
        BY <2>1
      <3> HIDE DEF clear
      <3>3. ~NibbleAt(<<>>, pins, clear, n, rest)
        BY <3>1, <3>2, NibbleLeft
      <3> QED BY <3>3 DEF clear
    <2> DEFINE clear == DataPins \cup {SelectPin}
    <2>3. /\ ~NibbleAt(<<>>, pins, clear, {0, 1}, Sync1)
          /\ ~NibbleAt(<<>>, pins, clear, {0, 1}, Sync2)
          /\ ~NibbleAt(<<>>, pins, clear, {0, 1}, Sync3)
          /\ ~NibbleAt(<<>>, pins, clear, {1}, After0)
      BY <2>2, Zenon
    <2> QED BY <2>3, Zenon DEF SyncAt
  <1>2. ASSUME NEW step \in Setup
        PROVE  ~ByteAt(<<>>, pins, device, step.byte, step.rest)
    <2>1. step.byte \in Bytes /\ step.rest \in Seq(PinCalls)
      <3>1. \E byte \in Bytes, rest \in Seq(PinCalls) :
               step = [byte |-> byte, rest |-> rest]
        BY BootBytes, BootRests, Zenon DEF Setup
      <3> QED BY <3>1
    <2> QED BY <2>1, ByteLeft
  <1> QED BY <1>1, <1>2 DEF BootAt

\* An operation ends with its bytes received.
LEMMA RunEnd ==
    ASSUME NEW pins, NEW device, NEW bytes, RunAt(<<>>, pins, device, bytes)
    PROVE  /\ device = [wide |-> FALSE, half |-> <<>>, bytes |-> bytes]
           /\ EnablePin \notin pins
  <1>1. ASSUME NEW byte \in Bytes, NEW level \in {"high", "low"}
        PROVE  <<>> # Then([bank |-> LockBank, pins |-> {SelectPin}, level |-> level],
                           SendDataCmd(byte))
    <2>1. [bank |-> LockBank, pins |-> {SelectPin}, level |-> level] \in PinCalls
      BY CallsOnPins DEF High, Low
    <2> QED BY <2>1, SendDataCmdCalls, ThenFacts
  <1>2. ASSUME NEW byte \in Bytes
        PROVE  ~ByteAt(<<>>, pins, device, byte, <<>>)
    BY ByteLeft, NoCallsLeft
  <1>3. Bit4 = [wide |-> FALSE, half |-> <<>>, bytes |-> <<>>]
    BY DEF Bit4, Device
  <1> QED BY <1>1, <1>2, <1>3, Zenon DEF RunAt

\* The cached byte follows the register in every step.
LEMMA CopyStep ==
    ASSUME TypeOK, TodoInv, DisplayInv, DeviceInv, [DisplayNext]_displayVars
    PROVE  CopyInv'
  <1>1. CASE BootExpander \/ DisplayRestart
    BY <1>1 DEF BootExpander, Initialize, DisplayRestart, Restart, CopyInv
  <1>2. CASE BootDisplayCall BY <1>2 DEF BootDisplayCall, BootCall, CopyInv
  <1>3. CASE BootThreads
    <2>1. CASE BootDisplay
      <3>1. todo # BootCalls
        <4>1. Low(LockBank, Owned) \in PinCalls
          BY CallsOnPins DEF Owned
        <4> QED BY <1>3, <4>1, BootFirst, BootRests, ThenFacts DEF BootThreads
      <3>2. cache[LockBank] = reg[LockBank]
        BY <2>1, <3>1 DEF BootDisplay, DisplayInv, ProtocolInv
      <3> QED BY <2>1, <3>2 DEF BootDisplay, CopyInv
    <2>2. CASE BootLock
      <3>1. Active(LockBank)' = {}
        BY <2>2 DEF BootLock, Active, DisplayInv, CallersInv
      <3>2. cache'[LockBank] = reg'[LockBank]
        BY <2>2, UiAndLock DEF BootLock, Written, TypeOK
      <3> QED BY <2>2, <3>1, <3>2 DEF BootLock, CopyInv
    <2> QED BY <1>3, <2>1, <2>2 DEF BootThreads
  <1>4. CASE Operate \/ UNCHANGED displayVars
    BY <1>4 DEF Operate, displayVars, vars, DisplayInv, CopyInv, Copies, Active
  <1>5. CASE OperationCall
    <2>1. Head(todo) \in Calls /\ Begin(UiThread, Head(todo))
      BY <1>5, HeadAndTail DEF OperationCall, DisplayCall, TodoInv, PinCalls
    <2>2. disturbed' = Overlapping(Head(todo).bank)
      BY <1>5 DEF OperationCall
    <2>3. CASE disturbed'
      BY <2>1, <2>3 DEF CopyInv, Begin
    <2>4. CASE ~disturbed'
      <3>1. ~disturbed /\ (Head(todo).bank = LockBank => Active(LockBank) = {})
        BY <2>2, <2>4 DEF Overlapping
      <3> QED BY <2>1, <2>4, <3>1, CopiesBegun
    <2> QED BY <2>3, <2>4
  <1>6. ASSUME NEW s \in {"locked", "unlocked"}, LockOperation(s) PROVE CopyInv'
    <2>1. PICK call \in Calls : call.bank = LockBank /\ Begin(LockThread, call)
      <3> DEFINE call == LockCall(IF s = "locked" THEN "low" ELSE "high")
      <3>1. call \in Calls /\ call.bank = LockBank
        BY UiAndLock DEF LockCall, Calls
      <3>2. Begin(LockThread, call)
        BY <1>6 DEF LockOperation, SetState
      <3> QED BY <3>1, <3>2
    <2>2. disturbed' = Overlapping(LockBank)
      BY <1>6 DEF LockOperation
    <2>3. CASE disturbed'
      BY <2>1, <2>3 DEF CopyInv, Begin
    <2>4. CASE ~disturbed'
      <3>1. ~disturbed /\ Active(LockBank) = {}
        BY <2>2, <2>4 DEF Overlapping
      <3> QED BY <2>1, <2>4, <3>1, CopiesBegun
    <2> QED BY <2>3, <2>4
  <1>7. ASSUME NEW t \in Threads, CallStep(t) PROVE CopyInv'
    <2>1. UNCHANGED <<boot, disturbed>> /\ (Load(t) \/ Store(t) \/ Argument(t) \/ Write(t))
      BY <1>7 DEF CallStep, Load, Store, Argument, Write
    <2>2. boot = "running"
      BY <2>1 DEF DisplayInv, CallersInv, Load, Store, Argument, Write, TypeOK
    <2>3. CASE disturbed
      BY <2>1, <2>2, <2>3 DEF CopyInv
    <2>4. CASE ~disturbed
      BY <2>1, <2>2, <2>4, CopiesKept
    <2> QED BY <2>3, <2>4
  <1> QED BY <1>1, <1>2, <1>3, <1>4, <1>5, <1>6, <1>7 DEF DisplayNext

\* A call of the boot reaches the device.
LEMMA BootPlays ==
    ASSUME TypeOK, TodoInv, DisplayInv, BootDisplayCall, cache[LockBank] = reg[LockBank]
    PROVE  PlayNext /\ cache'[LockBank] = reg'[LockBank] /\ Left' = todo'
  <1> DEFINE call == Head(todo)
  <1>1. call \in PinCalls /\ todo # <<>> /\ BootCall(call) /\ todo' = Tail(todo)
    BY HeadAndTail DEF BootDisplayCall, TodoInv
  <1> HIDE DEF call
  <1>2. call.bank \in Banks
    BY <1>1 DEF PinCalls, Calls
  <1>3. /\ boot = "display" /\ boot' = boot /\ pc' = pc
        /\ cache' = [cache EXCEPT ![call.bank] = Applied(call, @)]
        /\ reg' = [reg EXCEPT ![call.bank] = cache'[call.bank]]
    BY <1>1 DEF BootCall, Written
  <1>4. Left = todo /\ Left' = todo'
    BY <1>3, UiAndLock DEF DisplayInv, CallersInv, Left
  <1>5. ~disturbed'
    BY <1>3 DEF BootDisplayCall, DisplayInv, CallersInv
  <1>6. CASE call.bank = LockBank
    <2>1. /\ cache'[LockBank] = Applied(call, cache[LockBank])
          /\ reg'[LockBank] = Applied(call, reg[LockBank])
      BY <1>2, <1>3, <1>6 DEF TypeOK
    <2>2. Bus' = Applied(call, Bus)
      BY <1>1, <1>6, <2>1, BusApplied
    <2>3. Bus' = Played(Left, Bus)
      BY <1>4, <1>6, <2>2 DEF Played, call
    <2> QED BY <1>1, <1>3, <1>4, <1>5, <2>1, <2>3, Followed DEF PlayNext, BootDisplayCall
  <1>7. CASE call.bank # LockBank
    <2>1. cache'[LockBank] = cache[LockBank] /\ reg'[LockBank] = reg[LockBank]
      BY <1>2, <1>3, <1>7, UiAndLock DEF TypeOK
    <2>2. Bus' = Bus
      BY <2>1 DEF Bus
    <2>3. Bus' = Played(Left, Bus)
      BY <1>4, <1>7, <2>2 DEF Played, call
    <2> QED BY <1>1, <1>3, <1>4, <1>5, <2>1, <2>3, Followed DEF PlayNext, BootDisplayCall
  <1> QED BY <1>6, <1>7

\* A call under way that has its bank to itself: the write of the display's
\* reaches the device, and nothing else does.
LEMMA CallPlays ==
    ASSUME TypeOK, DisplayInv, TodoInv, NEW t \in Threads, CallStep(t), ~disturbed
    PROVE  \/ PlayNext
           \/ Left' = Left /\ Bus' = Bus /\ lcd' = lcd
  <1>1. /\ UNCHANGED <<boot, disturbed, todo>> /\ React /\ pc[t] # "idle"
        /\ Load(t) \/ Store(t) \/ Argument(t) \/ Write(t)
    BY DEF CallStep, Load, Store, Argument, Write
  <1>2. boot = "running" /\ t \in {UiThread, LockThread}
    BY <1>1 DEF DisplayInv, CallersInv, TypeOK
  <1>3. reg'[LockBank] = IF Write(t) /\ op[t].bank = LockBank
                         THEN Applied(op[t], reg[LockBank]) ELSE reg[LockBank]
    BY <1>1, <1>2, CopiesKept
  <1>4. CASE Bus' = Bus /\ Left' = Left
    BY <1>1, <1>4, Followed
  <1>5. CASE ~Write(t)
    <2>1. Bus' = Bus
      BY <1>3, <1>5 DEF Bus
    <2>2. op' = op /\ (pc[UiThread] = "idle" <=> pc'[UiThread] = "idle")
      BY <1>1, <1>5, UiAndLock DEF Load, Store, Argument, TypeOK
    <2>3. Left' = Left
      BY <1>1, <2>2 DEF Left
    <2> QED BY <1>4, <2>1, <2>3
  <1>6. CASE Write(t) /\ t = LockThread
    <2>1. op[t].bank = LockBank /\ op[t].pins \cap Owned = {}
      BY <1>1, <1>6, UiAndLock DEF DisplayInv, CallersInv
    <2>2. Bus' = Bus
      BY <1>3, <1>6, <2>1 DEF Bus, Applied
    <2>3. op' = op /\ pc'[UiThread] = pc[UiThread]
      BY <1>6, UiAndLock DEF Write, TypeOK
    <2>4. Left' = Left
      BY <1>1, <2>3 DEF Left
    <2> QED BY <1>4, <2>2, <2>4
  <1>7. CASE Write(t) /\ t = UiThread
    <2> DEFINE call == op[UiThread]
    <2>1. call \in PinCalls
      BY <1>1, <1>7 DEF DisplayInv, CallersInv
    <2>2. pc'[UiThread] = "idle"
      BY <1>7, UiAndLock DEF Write, TypeOK
    <2>3. Left = Then(call, todo) /\ Left' = todo
      BY <1>1, <1>7, <2>2 DEF Left
    <2> HIDE DEF call
    <2>4. Left # <<>> /\ Head(Left) = call /\ Tail(Left) = todo
      BY <2>1, <2>3, ThenFacts DEF TodoInv
    <2>5. Bus' = IF call.bank = LockBank THEN Applied(call, Bus) ELSE Bus
      <3>1. CASE call.bank = LockBank
        BY <1>3, <1>7, <2>1, <3>1, BusApplied DEF call
      <3>2. CASE call.bank # LockBank
        BY <1>3, <1>7, <3>2 DEF call, Bus
      <3> QED BY <3>1, <3>2
    <2>6. Bus' = Played(Left, Bus)
      BY <2>4, <2>5 DEF Played
    <2> QED BY <1>1, <2>3, <2>4, <2>6, Followed DEF PlayNext
  <1> QED BY <1>2, <1>5, <1>6, <1>7

\* What ProtocolInv says of lcd and sent in every step.
LEMMA QuietStep ==
    ASSUME TypeOK, DeviceInv, DisplayInv, [DisplayNext]_displayVars
    PROVE  /\ lcd'.half \in Halves
           /\ boot' # "running" => lcd'.bytes = <<>> /\ sent' = <<>>
  <1> USE DEF DisplayInv, ProtocolInv
  <1>1. CASE BootExpander
    <2>1. CASE lcd' = lcd
      BY <1>1, <2>1 DEF BootExpander, Initialize
    <2>2. CASE lcd' \in AnyDevice
      <3>1. lcd'.half \in Halves /\ lcd'.bytes = <<>>
        BY <2>2 DEF AnyDevice, Device, Halves
      <3> QED BY <1>1, <3>1 DEF BootExpander, Initialize
    <2> QED BY <1>1, <2>1, <2>2 DEF BootExpander
  <1>2. CASE BootDisplayCall
    BY <1>2, HalfKept DEF BootDisplayCall, BootCall
  <1>3. CASE BootThreads
    BY <1>3 DEF BootThreads, BootDisplay, BootLock
  <1>4. CASE Operate
    <2>1. lcd'.half = lcd.half
      BY <1>4 DEF Operate, DeviceInv
    <2> QED BY <1>4, <2>1 DEF Operate, vars
  <1>5. CASE OperationCall
    BY <1>5, HalfKept DEF OperationCall, DisplayCall, Begin
  <1>6. CASE DisplayRestart
    <2>1. lcd'.half = lcd.half /\ lcd'.bytes = <<>>
      BY <1>6 DEF DisplayRestart, DeviceInv
    <2> QED BY <1>6, <2>1 DEF DisplayRestart
  <1>7. ASSUME NEW s \in {"locked", "unlocked"}, LockOperation(s)
        PROVE  /\ lcd'.half \in Halves
               /\ boot' # "running" => lcd'.bytes = <<>> /\ sent' = <<>>
    BY <1>7, HalfKept DEF LockOperation, SetState, Begin
  <1>8. ASSUME NEW t \in Threads, CallStep(t)
        PROVE  /\ lcd'.half \in Halves
               /\ boot' # "running" => lcd'.bytes = <<>> /\ sent' = <<>>
    <2>1. boot' = boot /\ sent' = sent
      BY <1>8 DEF CallStep, Load, Store, Argument, Write
    <2> QED BY <1>8, <2>1, HalfKept DEF CallStep
  <1>9. CASE UNCHANGED displayVars
    BY <1>9 DEF displayVars, vars
  <1> QED BY <1>1, <1>2, <1>3, <1>4, <1>5, <1>6, <1>7, <1>8, <1>9 DEF DisplayNext

\* The first call of the boot clears the bus, whatever was on it.
LEMMA BootBegins ==
    ASSUME TypeOK, TodoInv, DeviceInv', DisplayInv, BootDisplayCall,
           lcd'.half \in Halves, lcd'.bytes = <<>>,
           todo = BootCalls, cache[LockBank] = {}
    PROVE  BootAt(todo', Bus', lcd') /\ cache'[LockBank] = reg'[LockBank]
  <1> DEFINE call == Low(LockBank, Owned)
  <1>1. call \in PinCalls /\ call.bank = LockBank
    BY CallsOnPins DEF Owned, Low
  <1>2. Applied(call, {}) = {}
    BY DEF Low, Applied
  <1> HIDE DEF call
  <1>3. Head(todo) = call /\ Tail(todo) = Sync0
    BY <1>1, BootFirst, BootRests, ThenFacts DEF call
  <1>4. todo' = Sync0 /\ BootCall(call)
    BY <1>3 DEF BootDisplayCall
  <1>5. cache'[LockBank] = {} /\ reg'[LockBank] = {}
    BY <1>1, <1>2, <1>4, UiAndLock DEF BootCall, Written, TypeOK
  <1>6. Bus' = {}
    BY <1>5 DEF Bus
  <1>7. lcd' \in AnyDevice
    <2>1. /\ lcd' = [wide |-> lcd'.wide, half |-> lcd'.half, bytes |-> <<>>]
          /\ lcd'.wide \in BOOLEAN
      BY DEF DeviceInv
    <2>2. lcd' = Device(lcd'.wide, lcd'.half)
      BY <2>1 DEF Device
    <2> QED BY <2>1, <2>2 DEF AnyDevice, Halves
  <1>8. NibbleAt(Sync0, Bus', DataPins \cup {SelectPin}, {0, 1}, Sync1)
    BY <1>6, BootBytes, BootRests, NibbleStart DEF Sync0
  <1>9. SyncAt(todo', Bus', lcd')
    BY <1>4, <1>7, <1>8, Zenon DEF SyncAt
  <1> QED BY <1>5, <1>6, <1>9 DEF BootAt

\* An operation begins when the one before has ended.
LEMMA OperationBegins ==
    ASSUME TypeOK, TodoInv, DeviceInv, DisplayInv, Operate, ~disturbed
    PROVE  RunAt(Left', Bus', lcd', sent')
  <1>1. PICK operation \in Operations : todo' = operation.calls /\ sent' = operation.bytes
    BY DEF Operate
  <1>2. /\ todo = <<>> /\ pc[UiThread] = "idle" /\ pc' = pc /\ reg' = reg
        /\ lcd' = [lcd EXCEPT !.bytes = <<>>] /\ boot = "running"
    BY DEF Operate, vars
  <1>3. Left = <<>> /\ Left' = operation.calls /\ Bus' = Bus
    BY <1>1, <1>2 DEF Left, Bus
  <1>4. RunAt(<<>>, Bus, lcd, sent)
    BY <1>2, <1>3, Zenon DEF DisplayInv, ProtocolInv
  <1>5. lcd = [wide |-> FALSE, half |-> <<>>, bytes |-> sent] /\ EnablePin \notin Bus
    BY <1>4, RunEnd
  <1>6. lcd' = Bit4
    BY <1>2, <1>5 DEF Bit4, Device
  <1>7. RunAt(operation.calls, Bus, Bit4, operation.bytes)
    BY <1>5, RunStart
  <1> QED BY <1>1, <1>3, <1>6, <1>7, Zenon

\* The display's calls and the device go on together.
LEMMA ProtocolStep ==
    ASSUME TypeOK, TodoInv, DeviceInv, DeviceInv', DisplayInv, [DisplayNext]_displayVars
    PROVE  ProtocolInv'
  <1>0. /\ lcd'.half \in Halves
        /\ boot' # "running" => lcd'.bytes = <<>> /\ sent' = <<>>
    BY QuietStep
  <1>1. CASE BootExpander
    <2>1. /\ boot = "initialize" /\ boot' = "display" /\ todo' = todo
          /\ cache'[LockBank] = {}
      BY <1>1, UiAndLock DEF BootExpander, Initialize
    <2> QED BY <1>0, <2>1, Zenon DEF ProtocolInv, DisplayInv
  <1>2. CASE BootDisplayCall
    <2>1. boot = "display" /\ boot' = "display"
      BY <1>2 DEF BootDisplayCall, BootCall
    <2>2. CASE todo = BootCalls /\ cache[LockBank] = {}
      <3>1. BootAt(todo', Bus', lcd') /\ cache'[LockBank] = reg'[LockBank]
        BY <1>0, <1>2, <2>1, <2>2, BootBegins
      <3> QED BY <1>0, <2>1, <3>1 DEF ProtocolInv
    <2>3. CASE BootAt(todo, Bus, lcd) /\ cache[LockBank] = reg[LockBank]
      <3>1. PlayNext /\ cache'[LockBank] = reg'[LockBank] /\ Left' = todo'
        BY <1>2, <2>3, BootPlays
      <3>2. Left = todo
        BY <2>1, UiAndLock DEF DisplayInv, CallersInv, Left
      <3>3. BootAt(Left, Bus, lcd)
        BY <2>3, <3>2, Zenon
      <3>4. BootAt(Left', Bus', lcd')
        BY <2>1, <3>1, <3>3, BootPlayed
      <3>5. BootAt(todo', Bus', lcd')
        BY <3>1, <3>4, Zenon
      <3> QED BY <1>0, <2>1, <3>1, <3>5 DEF ProtocolInv
    <2> QED BY <2>1, <2>2, <2>3 DEF DisplayInv, ProtocolInv
  <1>3. CASE BootThreads
    <2>1. todo = <<>> /\ todo' = todo /\ lcd' = lcd /\ sent' = sent
      BY <1>3 DEF BootThreads
    <2>2. CASE BootDisplay
      <3>1. todo # BootCalls
        <4>1. Low(LockBank, Owned) \in PinCalls
          BY CallsOnPins DEF Owned
        <4> QED BY <2>1, <4>1, BootFirst, BootRests, ThenFacts
      <3>2. BootAt(<<>>, Bus, lcd)
        BY <2>1, <2>2, <3>1 DEF BootDisplay, DisplayInv, ProtocolInv
      <3>3. lcd = Bit4 /\ EnablePin \notin Bus
        BY <3>2, BootEnd
      <3>4. boot' = "lock" /\ Bus' = Bus
        BY <2>2 DEF BootDisplay, Bus
      <3> QED BY <1>0, <2>1, <3>3, <3>4 DEF ProtocolInv
    <2>3. CASE BootLock
      <3>1. /\ boot = "lock" /\ boot' = "running" /\ pc' = pc
            /\ reg'[LockBank] = cache[LockBank] \ LockPins
        BY <2>3, UiAndLock DEF BootLock, Written, TypeOK
      <3>2. /\ lcd = Bit4 /\ EnablePin \notin Bus /\ sent = <<>>
            /\ cache[LockBank] = reg[LockBank]
        BY <3>1 DEF DisplayInv, ProtocolInv, CopyInv
      <3>3. EnablePin \notin Bus'
        BY <3>1, <3>2 DEF Bus
      <3>4. Left' = <<>>
        BY <2>1, <3>1, UiAndLock DEF DisplayInv, CallersInv, Left
      <3>5. lcd' = [wide |-> FALSE, half |-> <<>>, bytes |-> sent']
        BY <2>1, <3>2 DEF Bit4, Device
      <3>6. RunAt(Left', Bus', lcd', sent')
        BY <3>3, <3>4, <3>5, Zenon DEF RunAt
      <3> QED BY <1>0, <3>1, <3>6 DEF ProtocolInv
    <2> QED BY <1>3, <2>2, <2>3 DEF BootThreads
  <1>4. CASE Operate
    <2>1. boot' = "running" /\ disturbed' = disturbed
      BY <1>4 DEF Operate, vars
    <2> QED BY <1>0, <1>4, <2>1, OperationBegins DEF ProtocolInv
  <1>10. ASSUME boot = "running", boot' = boot, ~disturbed, Left' = Left, Bus' = Bus,
                lcd' = lcd, sent' = sent
         PROVE  ProtocolInv'
    <2>1. RunAt(Left, Bus, lcd, sent)
      BY <1>10 DEF DisplayInv, ProtocolInv
    <2>2. RunAt(Left', Bus', lcd', sent')
      BY <1>10, <2>1, Zenon
    <2> QED BY <1>0, <1>10, <2>2 DEF ProtocolInv
  <1>11. ASSUME boot' = "running", disturbed' PROVE ProtocolInv'
    BY <1>0, <1>11 DEF ProtocolInv
  <1>5. CASE OperationCall
    <2>1. /\ boot = "running" /\ boot' = boot /\ pc[UiThread] = "idle" /\ todo # <<>>
          /\ todo' = Tail(todo) /\ sent' = sent /\ React /\ reg' = reg
          /\ pc'[UiThread] = "load" /\ op'[UiThread] = Head(todo)
          /\ disturbed' = Overlapping(Head(todo).bank)
      BY <1>5, UiAndLock, HeadAndTail
         DEF OperationCall, DisplayCall, Begin, TodoInv, PinCalls, TypeOK
    <2>2. CASE disturbed'
      BY <1>11, <2>1, <2>2
    <2>3. CASE ~disturbed'
      <3>1. ~disturbed
        BY <2>1, <2>3 DEF Overlapping
      <3>2. Bus' = Bus
        BY <2>1 DEF Bus
      <3>3. lcd' = lcd
        BY <2>1, <2>3, <3>2, Followed
      <3>4. Then(Head(todo), Tail(todo)) = todo
        BY <2>1 DEF Then, TodoInv
      <3>5. Left' = Left
        BY <2>1, <3>4 DEF Left
      <3> QED BY <1>10, <2>1, <3>1, <3>2, <3>3, <3>5
    <2> QED BY <2>2, <2>3
  <1>6. CASE DisplayRestart
    BY <1>0, <1>6 DEF DisplayRestart, Restart, ProtocolInv
  <1>7. ASSUME NEW s \in {"locked", "unlocked"}, LockOperation(s) PROVE ProtocolInv'
    <2>1. /\ boot = "running" /\ boot' = boot /\ React /\ reg' = reg
          /\ todo' = todo /\ sent' = sent /\ disturbed' = Overlapping(LockBank)
          /\ pc'[UiThread] = pc[UiThread] /\ op'[UiThread] = op[UiThread]
      BY <1>7, UiAndLock DEF LockOperation, SetState, Begin, TypeOK
    <2>2. CASE disturbed'
      BY <1>11, <2>1, <2>2
    <2>3. CASE ~disturbed'
      <3>1. ~disturbed
        BY <2>1, <2>3 DEF Overlapping
      <3>2. Bus' = Bus /\ Left' = Left
        BY <2>1 DEF Bus, Left
      <3>3. lcd' = lcd
        BY <2>1, <2>3, <3>2, Followed
      <3> QED BY <1>10, <2>1, <3>1, <3>2, <3>3
    <2> QED BY <2>2, <2>3
  <1>8. ASSUME NEW t \in Threads, CallStep(t) PROVE ProtocolInv'
    <2>1. UNCHANGED <<boot, sent, disturbed>> /\ boot = "running"
      BY <1>8 DEF CallStep, Load, Store, Argument, Write, DisplayInv, CallersInv, TypeOK
    <2>2. CASE disturbed
      BY <1>11, <2>1, <2>2
    <2>3. CASE ~disturbed /\ PlayNext
      <3>1. RunAt(Left, Bus, lcd, sent)
        BY <2>1, <2>3 DEF DisplayInv, ProtocolInv
      <3>2. RunAt(Left', Bus', lcd', sent)
        BY <2>1, <2>3, <3>1, RunPlayed
      <3>3. RunAt(Left', Bus', lcd', sent')
        BY <2>1, <3>2, Zenon
      <3> QED BY <1>0, <2>1, <3>3 DEF ProtocolInv
    <2>4. CASE ~disturbed /\ Left' = Left /\ Bus' = Bus /\ lcd' = lcd
      BY <1>10, <2>1, <2>4
    <2> QED BY <1>8, <2>2, <2>3, <2>4, CallPlays
  <1>9. CASE UNCHANGED displayVars
    <2>1. /\ UNCHANGED <<boot, cache, reg, pc, op, todo, lcd, sent, disturbed>>
      BY <1>9 DEF displayVars, vars
    <2>2. Left' = Left /\ Bus' = Bus
      BY <2>1 DEF Left, Bus
    <2> QED BY <2>1, <2>2, Zenon DEF DisplayInv, ProtocolInv
  <1> QED BY <1>1, <1>2, <1>3, <1>4, <1>5, <1>6, <1>7, <1>8, <1>9 DEF DisplayNext

\* Where the display's calls and the device are, in every reachable state.
LEMMA DisplayInvariant == DisplaySpec => []DisplayInv
  <1>1. DisplayInit => DisplayInv
    <2> SUFFICES ASSUME DisplayInit PROVE DisplayInv
      OBVIOUS
    <2>1. /\ boot = "initialize" /\ todo = BootCalls /\ sent = <<>>
          /\ \A t \in Threads : pc[t] = "idle"
      BY DEF DisplayInit, Init
    <2>2. lcd.half \in Halves /\ lcd.bytes = <<>>
      BY DEF DisplayInit, Device, Halves
    <2> QED BY <2>1, <2>2, UiAndLock DEF DisplayInv, CallersInv, CopyInv, ProtocolInv
  <1>2. TypeOK /\ TodoInv /\ DeviceInv /\ DeviceInv' /\ DisplayInv /\ [DisplayNext]_displayVars
          => DisplayInv'
    BY CallersStep, CopyStep, ProtocolStep DEF DisplayInv
  <1> QED BY <1>1, <1>2, TodoInvariant, DeviceInvariant, ImplementsExpander, TypeCorrect,
             PTL DEF DisplaySpec

\* However the last process died, in the middle of a byte or with the enable
\* pin high, and whatever mode the device was left in: after the display's
\* initialization the device is in 4-bit mode and between two bytes
\* (lcddisplay.cpp:99-125).
THEOREM BootSyncs == DisplaySpec => []BootResyncs
  <1>1. DisplayInv => BootResyncs
    BY DEF DisplayInv, ProtocolInv, BootResyncs, Bit4
  <1> QED BY <1>1, DisplayInvariant, PTL

\* Until a call on the display's bank overlaps another, every operation sends
\* the device its bytes and nothing else, wherever between its calls the
\* strike moves (lcddisplay.cpp:52-79).
THEOREM BytesDelivered == DisplaySpec => []BytesArrive
  <1>1. DisplayInv => BytesArrive
    <2> SUFFICES ASSUME DisplayInv, boot = "running", ~disturbed, todo = <<>>,
                        pc[UiThread] = "idle"
                 PROVE  ~lcd.wide /\ lcd.half = <<>> /\ lcd.bytes = sent
      BY DEF BytesArrive
    <2>1. RunAt(Left, Bus, lcd, sent) /\ Left = <<>>
      BY DEF DisplayInv, ProtocolInv, Left
    <2>2. RunAt(<<>>, Bus, lcd, sent)
      BY <2>1, Zenon
    <2>3. lcd = [wide |-> FALSE, half |-> <<>>, bytes |-> sent]
      BY <2>2, RunEnd
    <2> QED BY <2>3
  <1> QED BY <1>1, DisplayInvariant, PTL
=============================================================================
