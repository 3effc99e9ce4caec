------------------------- MODULE MCP3008BlockSensor -------------------------
(***************************************************************************)
(* One beam sensor behind the MCP3008 converter (mcp3008blocksensor.cpp).  *)
(* getSensorValue reads ten bits and maps them only when they differ from  *)
(* the last ones; otherwise it answers from its cache.                     *)
(***************************************************************************)
EXTENDS Integers

Readings10Bit == 0 .. 1023

\* The object after its construction.
BlankSensor == [mValue |-> 0, iValue |-> 0]

\* The linearised reading, an integer number of volts once it is converted
\* to int.
Volts(reading) ==
    IF reading >= 951 THEN 3
    ELSE IF reading >= 697 THEN 2
    ELSE IF reading >= 409 THEN 1
    ELSE 0

\* The voltages from 0.4 to 3.0 mapped to 0 to 100, and clamped.
Mapped(reading) ==
    LET value == ((10 * Volts(reading) - 4) * 100) \div 26
    IN  IF value < 0 THEN 0 ELSE IF value > 100 THEN 100 ELSE value

\* Fault: the value is mapped only at the next change.
GetSensorValueLate(sensor, reading) ==
    IF reading = sensor.mValue THEN sensor
    ELSE [mValue |-> reading, iValue |-> Mapped(sensor.mValue)]

\* The sensor after getSensorValue; it returns iValue.
GetSensorValue(sensor, reading) ==
    IF reading = sensor.mValue THEN sensor
    ELSE [mValue |-> reading, iValue |-> Mapped(reading)]
=============================================================================
