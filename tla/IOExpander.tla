----------------------------- MODULE IOExpander -----------------------------
(***************************************************************************)
(* The MCP23017 expander (ioexpander.cpp) as the gateway shares it: the    *)
(* Ui thread drives the display over both banks (lcddisplay.cpp) and the   *)
(* fingerprint thread drives the strike over a pin of the first one        *)
(* (lock.cpp).  makeHigh and makeLow read, change and store a cached byte  *)
(* and then write it to the device, and nothing excludes two threads: each *)
(* memory access and each bus write is a step of its own.  The bytes are   *)
(* sets of the pins that are high.                                         *)
(***************************************************************************)
EXTENDS Integers

CONSTANTS
    Banks, Pins,
    Threads,      \* the threads that call the expander
    LockThread,   \* the one that owns the Lock
    LockBank, LockPins,
    DisplayPins,  \* [Banks -> SUBSET Pins], driven by the other threads
    Address,      \* the I2C address given to initialize
    Handle        \* the descriptor wiringPiI2CSetup returns for it

ASSUME WiringAssumption ==
    /\ LockThread \in Threads /\ LockBank \in Banks
    /\ LockPins \in SUBSET Pins /\ LockPins # {}
    /\ DisplayPins \in [Banks -> SUBSET Pins]
    /\ DisplayPins[LockBank] \cap LockPins = {}
    /\ Address # Handle

VARIABLES
    boot,       \* main's progress: "initialize", "display", "lock", "running"
    cache,      \* gpioa and gpiob of the IOExpander object
    reg,        \* the output registers of the device
    lockState,  \* Lock::state
    pc, op,     \* where each thread is in its call, and the call
    tmp,        \* the byte each thread holds in a processor register
    want,       \* history: the pins last asked to be high
    sure        \* history: pins last asked for by an undisturbed call

vars == <<boot, cache, reg, lockState, pc, op, tmp, want, sure>>

-----------------------------------------------------------------------------

Calls == [bank : Banks, pins : SUBSET Pins, level : {"high", "low"}]

\* The threads with a call in flight on bank b.
Active(b) == {t \in Threads : pc[t] # "idle" /\ op[t].bank = b}

\* *gpio |= pins, and *gpio &= ~pins.
Applied(call, byte) ==
    IF call.level = "high" THEN byte \cup call.pins ELSE byte \ call.pins

\* wiringPiI2CWriteReg8: the device after a write on the bus.  A write to a
\* descriptor that is not the device's fails, and nobody looks at the result.
Written(handle, registers) == IF handle = Handle THEN registers ELSE reg

\* What op holds before the first call of a thread.
NoCall == [bank |-> LockBank, pins |-> {}, level |-> "low"]

\* Nothing is known about a device that was powered all along.
Init ==
    /\ boot = "initialize"
    /\ cache = [b \in Banks |-> {}]
    /\ reg \in [Banks -> SUBSET Pins]
    /\ lockState = "locked"
    /\ pc = [t \in Threads |-> "idle"]
    /\ op = [t \in Threads |-> NoCall]
    /\ tmp = [t \in Threads |-> {}]
    /\ want = [b \in Banks |-> {}]
    /\ sure = [b \in Banks |-> {}]

\* IOExpander::initialize writes to its parameter, the address, where the
\* descriptor is meant; only the cached bytes are set.
Initialize ==
    /\ boot = "initialize"
    /\ boot' = "display"
    /\ cache' = [b \in Banks |-> {}]
    /\ reg' = Written(Address, [b \in Banks |-> {}])
    /\ UNCHANGED <<lockState, pc, op, tmp, want, sure>>

\* main sets up the display, before there are other threads: a call of
\* LCDDisplay::initialize or setBacklightPins.  The first one on a bank
\* writes all of it.
BootCall(call) ==
    /\ boot = "display"
    /\ call.pins \subseteq DisplayPins[call.bank]
    /\ cache' = [cache EXCEPT ![call.bank] = Applied(call, @)]
    /\ reg' = Written(Handle, [reg EXCEPT ![call.bank] = cache'[call.bank]])
    /\ want' = [want EXCEPT ![call.bank] = Applied(call, @)]
    /\ sure' = [sure EXCEPT ![call.bank] = Pins]
    /\ UNCHANGED <<boot, lockState, pc, op, tmp>>

\* The display is set up once every bank has been written.
BootDisplay ==
    /\ boot = "display"
    /\ sure = [b \in Banks |-> Pins]
    /\ boot' = "lock"
    /\ UNCHANGED <<cache, reg, lockState, pc, op, tmp, want, sure>>

\* The constructor of Lock; then the gateway starts the threads.
BootLock ==
    /\ boot = "lock"
    /\ boot' = "running"
    /\ cache' = [cache EXCEPT ![LockBank] = @ \ LockPins]
    /\ reg' = Written(Handle, [reg EXCEPT ![LockBank] = cache[LockBank] \ LockPins])
    /\ want' = [want EXCEPT ![LockBank] = @ \ LockPins]
    /\ lockState' = "locked"
    /\ UNCHANGED <<pc, op, tmp, sure>>

-----------------------------------------------------------------------------

\* Thread t enters makeHigh or makeLow.  The history notes what is asked,
\* and whether another call on the bank is in flight: then neither the pins
\* of this call nor those of the others are sure.
Begin(t, call) ==
    /\ boot = "running" /\ pc[t] = "idle"
    /\ pc' = [pc EXCEPT ![t] = "load"]
    /\ op' = [op EXCEPT ![t] = call]
    /\ want' = [want EXCEPT ![call.bank] = Applied(call, @)]
    /\ sure' = [sure EXCEPT ![call.bank] =
                  IF Active(call.bank) = {} THEN @ \cup call.pins
                  ELSE @ \ (call.pins \cup
                            UNION {op[u].pins : u \in Active(call.bank)})]
    /\ UNCHANGED <<boot, cache, reg, tmp>>

\* A display operation of another thread: any of strobe, sendDataCmd,
\* putCommand and setBacklightColor is a sequence of these.
DisplayCall(t, call) ==
    /\ t # LockThread
    /\ call.pins \subseteq DisplayPins[call.bank]
    /\ Begin(t, call)
    /\ UNCHANGED lockState

LockCall(level) == [bank |-> LockBank, pins |-> LockPins, level |-> level]

\* Fault: the levels are exchanged.
SetStateInverted(s) ==
    /\ lockState # s
    /\ lockState' = s
    /\ Begin(LockThread, LockCall(IF s = "locked" THEN "high" ELSE "low"))

\* Fault: the cache is given the level in place of the state.
SetStateOfLevel(s) ==
    /\ lockState # s
    /\ lockState' = IF s = "locked" THEN "low" ELSE "high"
    /\ Begin(LockThread, LockCall(IF s = "locked" THEN "low" ELSE "high"))

\* Lock::setState: the cache is set first, and only a change calls the
\* expander.
SetState(s) ==
    /\ lockState # s
    /\ lockState' = s
    /\ Begin(LockThread, LockCall(IF s = "locked" THEN "low" ELSE "high"))

\* Fault: = for |= and &=.
LoadOverwriting(t) ==
    /\ pc[t] = "load"
    /\ pc' = [pc EXCEPT ![t] = "store"]
    /\ tmp' = [tmp EXCEPT ![t] = IF op[t].level = "high" THEN op[t].pins ELSE {}]
    /\ UNCHANGED <<boot, cache, reg, lockState, op, want, sure>>

\* *gpio is read and changed in a processor register ...
Load(t) ==
    /\ pc[t] = "load"
    /\ pc' = [pc EXCEPT ![t] = "store"]
    /\ tmp' = [tmp EXCEPT ![t] = Applied(op[t], cache[op[t].bank])]
    /\ UNCHANGED <<boot, cache, reg, lockState, op, want, sure>>

\* ... and stored.
Store(t) ==
    /\ pc[t] = "store"
    /\ pc' = [pc EXCEPT ![t] = "argument"]
    /\ cache' = [cache EXCEPT ![op[t].bank] = tmp[t]]
    /\ UNCHANGED <<boot, reg, lockState, op, tmp, want, sure>>

\* The argument *gpio of the write: the compiler may read the byte again or
\* use the one it has.
Argument(t) ==
    /\ pc[t] = "argument"
    /\ pc' = [pc EXCEPT ![t] = "write"]
    /\ \E byte \in {tmp[t], cache[op[t].bank]} : tmp' = [tmp EXCEPT ![t] = byte]
    /\ UNCHANGED <<boot, cache, reg, lockState, op, want, sure>>

\* Fault: the bank of the write is a constant.
WriteFirstBank(t) ==
    /\ pc[t] = "write"
    /\ pc' = [pc EXCEPT ![t] = "idle"]
    /\ reg' = Written(Handle, [reg EXCEPT ![LockBank] = tmp[t]])
    /\ tmp' = [tmp EXCEPT ![t] = {}]
    /\ UNCHANGED <<boot, cache, lockState, op, want, sure>>

\* The write to the device, and the return.
Write(t) ==
    /\ pc[t] = "write"
    /\ pc' = [pc EXCEPT ![t] = "idle"]
    /\ reg' = Written(Handle, [reg EXCEPT ![op[t].bank] = tmp[t]])
    /\ tmp' = [tmp EXCEPT ![t] = {}]
    /\ UNCHANGED <<boot, cache, lockState, op, want, sure>>

\* The process dies and starts again; the device keeps its outputs.
Restart ==
    /\ boot' = "initialize"
    /\ cache' = [b \in Banks |-> {}] /\ lockState' = "locked"
    /\ pc' = [t \in Threads |-> "idle"]
    /\ op' = [t \in Threads |-> NoCall] /\ tmp' = [t \in Threads |-> {}]
    /\ want' = [b \in Banks |-> {}] /\ sure' = [b \in Banks |-> {}]
    /\ UNCHANGED reg

Next ==
    \/ Initialize \/ BootDisplay \/ BootLock \/ Restart
    \/ \E call \in Calls : BootCall(call)
    \/ \E t \in Threads, call \in Calls : DisplayCall(t, call)
    \/ \E s \in {"locked", "unlocked"} : SetState(s)
    \/ \E t \in Threads : Load(t) \/ Store(t) \/ Argument(t) \/ Write(t)

Spec == Init /\ [][Next]_vars

-----------------------------------------------------------------------------

TypeOK ==
    /\ boot \in {"initialize", "display", "lock", "running"}
    /\ cache \in [Banks -> SUBSET Pins]
    /\ reg \in [Banks -> SUBSET Pins]
    /\ lockState \in {"locked", "unlocked"}
    /\ pc \in [Threads -> {"idle", "load", "store", "argument", "write"}]
    /\ op \in [Threads -> Calls]
    /\ tmp \in [Threads -> SUBSET Pins]
    /\ want \in [Banks -> SUBSET Pins]
    /\ sure \in [Banks -> SUBSET Pins]

\* Pin p of bank b is in no call that is under way.
Untouched(b, p) == \A t \in Active(b) : p \notin op[t].pins

\* A call that had its bank to itself is obeyed for good: until a pin is
\* asked for again, the cached byte and the device keep it at the level that
\* call gave it, however the calls of other threads on other pins overlap
\* each other afterwards (ioexpander.cpp:132-201).
SettledPinsHold ==
    \A b \in Banks : \A p \in sure[b] :
        Untouched(b, p) => /\ p \in cache[b] <=> p \in want[b]
                           /\ p \in reg[b] <=> p \in want[b]

\* Between calls, the state Lock caches is the state of the strike, as long
\* as its last call was not disturbed: also after a restart that found the
\* strike released (lock.cpp:7-41).
SettledLockObeyed ==
    (boot = "running" /\ pc[LockThread] = "idle" /\ LockPins \subseteq sure[LockBank]) =>
        IF lockState = "locked" THEN LockPins \cap reg[LockBank] = {}
                                ELSE LockPins \subseteq reg[LockBank]

\* A bank only the display uses, by one thread, is never disturbed: between
\* calls its cached byte and its register are exactly what was asked for.
SoleBankExact ==
    (boot = "running" /\ \A t, u \in Threads \ {LockThread} : t = u) =>
        \A b \in Banks \ {LockBank} :
            Active(b) = {} => cache[b] = want[b] /\ reg[b] = want[b]
=============================================================================
