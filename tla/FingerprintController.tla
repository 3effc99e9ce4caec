----------------------- MODULE FingerprintController -----------------------
(***************************************************************************)
(* The thread that lets people in: it scans a finger, asks the             *)
(* authentication and the authorization server, releases the door strike   *)
(* and engages it again (fingerprintcontroller.cpp, with the Lock of       *)
(* lock.cpp inlined in SetState).  The process may be killed or may        *)
(* terminate on an uncaught exception; the strike then keeps the level of  *)
(* its pin until the gateway boots again.                                  *)
(*                                                                         *)
(* Time is counted in ticks.  A sleep of n ticks ends after n ticks and at *)
(* most MaxLate later; the wall clock, which the code reads with           *)
(* system_clock, may be stepped by up to MaxSkew ticks during a hold.      *)
(***************************************************************************)
EXTENDS Integers, Sequences

CONSTANTS
    Users,           \* identities the authentication server can return
    NoCredential,    \* the credential with empty token and empty userid
    Exceptions,      \* what a call to a server can throw; "int" is a C++ int
    UnlockDuration,  \* unlockDuration, in ticks
    SettleTime,      \* the first sleep of the hold (50 ms), in ticks
    PollPeriod,      \* the sleep between two polls of the door (10 ms)
    MaxLate,         \* how late a sleeping thread may be woken
    MaxSkew          \* how far the wall clock may be stepped, either way

ASSUME TimingAssumption ==
    /\ UnlockDuration \in Nat
    /\ SettleTime \in Nat
    /\ PollPeriod \in Nat \ {0}
    /\ MaxLate \in Nat
    /\ MaxSkew \in Nat

ASSUME CredentialAssumption == NoCredential \notin Users

VARIABLES
    life,        \* the process: "off", "up", "terminated" or "killed"
    pc,          \* where the thread is
    credential,  \* the local variable of the attempt
    reply,       \* authzReply of the attempt
    lockState,   \* Lock::state, the level the program believes in
    pin,         \* the level of the strike's pin: "low" locks the door
    door,        \* the position of the door
    told,        \* types of the messages sent to the Ui in this attempt
    sleep,       \* ticks until the thread is due; negative when late
    held,        \* ticks since unlockTime
    skew,        \* how far the wall clock was stepped since unlockTime
    ajar         \* ticks the door has been standing open during this hold

clocks == <<sleep, held, skew, ajar>>
strike == <<lockState, pin>>
vars == <<life, pc, credential, reply, strike, door, told, clocks>>

-----------------------------------------------------------------------------

\* Lock::setState: the pin is written only when the cached state changes.
SetState(s) ==
    /\ lockState' = s
    /\ pin' = IF lockState = s THEN pin
              ELSE IF s = "locked" THEN "low" ELSE "high"

\* system_clock::now() - unlockTime, as the thread reads it.
Elapsed == held + skew

Running(at) == life = "up" /\ pc = at

Init ==
    /\ life = "off" /\ pc = "start"
    /\ credential = NoCredential /\ reply = "none"
    /\ lockState = "locked" /\ pin \in {"low", "high"}
    /\ door \in {"closed", "open"}
    /\ told = <<>>
    /\ sleep = 0 /\ held = 0 /\ skew = 0 /\ ajar = 0

\* Fault: the constructor of Lock only assumes that the pin is low.
BootWithoutDriving ==
    /\ life # "up"
    /\ life' = "up" /\ pc' = "start"
    /\ lockState' = "locked" /\ UNCHANGED pin
    /\ credential' = NoCredential /\ reply' = "none" /\ told' = <<>>
    /\ sleep' = 0 /\ held' = 0 /\ skew' = 0 /\ ajar' = 0
    /\ UNCHANGED door

\* The process starts: the display's initialization writes the whole bank
\* and the constructor of Lock drives the strike's pin low.
Boot ==
    /\ life # "up"
    /\ life' = "up" /\ pc' = "start"
    /\ lockState' = "locked" /\ pin' = "low"
    /\ credential' = NoCredential /\ reply' = "none" /\ told' = <<>>
    /\ sleep' = 0 /\ held' = 0 /\ skew' = 0 /\ ajar' = 0
    /\ UNCHANGED door

\* The first statement of the thread.
Start ==
    /\ Running("start")
    /\ pc' = "scan"
    /\ SetState("locked")
    /\ UNCHANGED <<life, credential, reply, door, told, clocks>>

\* Fault: the state of the attempt outlives the attempt.
ScanKeepingAttempt ==
    /\ Running("scan")
    /\ pc' = "authn"
    /\ told' = Append(told, "info")
    /\ UNCHANGED <<life, credential, reply, strike, door, clocks>>

\* scanFingerprint returns; the attempt gets a fresh credential.
Scan ==
    /\ Running("scan")
    /\ pc' = "authn"
    /\ credential' = NoCredential /\ reply' = "none"
    /\ told' = <<"info">>
    /\ UNCHANGED <<life, strike, door, clocks>>

\* Fault: no else, an unknown user is sent on to authorization.
UserUnknownFallsThrough ==
    /\ Running("authn")
    /\ pc' = "authz"
    /\ told' = Append(told, "error")
    /\ UNCHANGED <<life, credential, reply, strike, door, clocks>>

\* authenticate leaves the credential empty.
UserUnknown ==
    /\ Running("authn")
    /\ pc' = "scan"
    /\ told' = Append(told, "error")
    /\ UNCHANGED <<life, credential, reply, strike, door, clocks>>

\* authenticate fills in the credential of user c.
UserKnown(c) ==
    /\ Running("authn")
    /\ pc' = "authz"
    /\ credential' = c
    /\ UNCHANGED <<life, reply, strike, door, told, clocks>>

\* authorize answers anything but grant.
Deny ==
    /\ Running("authz")
    /\ pc' = "scan"
    /\ reply' = "deny"
    /\ told' = told \o <<"info", "error">>
    /\ UNCHANGED <<life, credential, strike, door, clocks>>

\* authorize answers grant: the strike is released and the hold begins.
Grant ==
    /\ Running("authz")
    /\ pc' = "hold"
    /\ reply' = "grant"
    /\ told' = told \o <<"info", "success">>
    /\ SetState("unlocked")
    /\ sleep' = SettleTime /\ held' = 0 /\ skew' = 0 /\ ajar' = 0
    /\ UNCHANGED <<life, credential, door>>

\* Fault: the handler is empty.
ThrowSwallowed(e) ==
    /\ life = "up" /\ pc \in {"authn", "authz"}
    /\ \/ e = "int" /\ pc' = "scan" /\ UNCHANGED life
       \/ e # "int" /\ life' = "terminated" /\ UNCHANGED pc
    /\ UNCHANGED <<credential, reply, strike, door, told, clocks>>

\* A server call throws: catch(int) reports it and goes on, and any other
\* type leaves the thread, which ends the process without unwinding it.
Throw(e) ==
    /\ life = "up" /\ pc \in {"authn", "authz"}
    /\ \/ e = "int" /\ pc' = "scan" /\ told' = Append(told, "error")
          /\ UNCHANGED life
       \/ e # "int" /\ life' = "terminated" /\ UNCHANGED <<pc, told>>
    /\ UNCHANGED <<credential, reply, strike, door, clocks>>

\* Fault: <= for <.
KeepHoldingOneMore ==
    /\ Running("hold") /\ sleep <= 0
    /\ door = "closed" /\ Elapsed <= UnlockDuration
    /\ sleep' = PollPeriod
    /\ UNCHANGED <<life, pc, credential, reply, strike, door, told,
                   held, skew, ajar>>

\* Fault: the door is not looked at.
KeepHoldingBlindly ==
    /\ Running("hold") /\ sleep <= 0
    /\ Elapsed < UnlockDuration
    /\ sleep' = PollPeriod
    /\ UNCHANGED <<life, pc, credential, reply, strike, door, told,
                   held, skew, ajar>>

\* The condition of the poll loop holds: sleep for another period.
KeepHolding ==
    /\ Running("hold") /\ sleep <= 0
    /\ door = "closed" /\ Elapsed < UnlockDuration
    /\ sleep' = PollPeriod
    /\ UNCHANGED <<life, pc, credential, reply, strike, door, told,
                   held, skew, ajar>>

\* Fault: the strike is engaged only when the time is over.
RelockOnTimeoutOnly ==
    /\ Running("hold") /\ sleep <= 0
    /\ door = "open" \/ Elapsed >= UnlockDuration
    /\ pc' = "scan"
    /\ IF Elapsed >= UnlockDuration THEN SetState("locked") ELSE UNCHANGED strike
    /\ sleep' = 0 /\ held' = 0 /\ skew' = 0 /\ ajar' = 0
    /\ UNCHANGED <<life, credential, reply, door, told>>

\* The door is open or the time is over: engage the strike again.
Relock ==
    /\ Running("hold") /\ sleep <= 0
    /\ door = "open" \/ Elapsed >= UnlockDuration
    /\ pc' = "scan"
    /\ SetState("locked")
    /\ sleep' = 0 /\ held' = 0 /\ skew' = 0 /\ ajar' = 0
    /\ UNCHANGED <<life, credential, reply, door, told>>

\* A tick passes during the hold; the scheduler wakes the thread at most
\* MaxLate ticks after it is due.
Tick ==
    /\ Running("hold") /\ sleep > -MaxLate
    /\ sleep' = sleep - 1 /\ held' = held + 1
    /\ ajar' = IF door = "open" THEN ajar + 1 ELSE 0
    /\ UNCHANGED <<life, pc, credential, reply, strike, door, told, skew>>

\* The wall clock is set during the hold (NTP, an operator).
ClockStep ==
    /\ Running("hold")
    /\ skew' \in -MaxSkew .. MaxSkew
    /\ UNCHANGED <<life, pc, credential, reply, strike, door, told,
                   sleep, held, ajar>>

\* Somebody opens or closes the door.  It may open while the strike is
\* engaged: from the inside, or because it never fell into the strike.
DoorMoves ==
    /\ door' = IF door = "open" THEN "closed" ELSE "open"
    /\ ajar' = 0
    /\ UNCHANGED <<life, pc, credential, reply, strike, told,
                   sleep, held, skew>>

\* The process dies at an arbitrary point (power, signal, another thread).
Kill ==
    /\ life = "up"
    /\ life' = "killed"
    /\ UNCHANGED <<pc, credential, reply, strike, door, told, clocks>>

Next ==
    \/ Boot \/ Start \/ Scan
    \/ UserUnknown \/ \E c \in Users : UserKnown(c)
    \/ Deny \/ Grant \/ \E e \in Exceptions : Throw(e)
    \/ KeepHolding \/ Relock
    \/ Tick \/ ClockStep \/ DoorMoves \/ Kill

\* Time passes, and a thread whose sleep is over is scheduled.
Fairness == WF_vars(Tick) /\ WF_vars(KeepHolding \/ Relock)

Spec == Init /\ [][Next]_vars /\ Fairness

-----------------------------------------------------------------------------

TypeOK ==
    /\ life \in {"off", "up", "terminated", "killed"}
    /\ pc \in {"start", "scan", "authn", "authz", "hold"}
    /\ credential \in Users \cup {NoCredential}
    /\ reply \in {"none", "grant", "deny"}
    /\ lockState \in {"locked", "unlocked"}
    /\ pin \in {"low", "high"}
    /\ door \in {"closed", "open"}
    /\ told \in Seq({"info", "success", "error"}) /\ Len(told) <= 3
    /\ sleep \in Int /\ held \in Nat /\ ajar \in Nat
    /\ skew \in -MaxSkew .. MaxSkew

\* While the program runs, the strike is released only in the hold of an
\* attempt whose user was identified and granted access: no path through
\* the error branches, the exceptions or a reboot leaves it released
\* (fingerprintcontroller.cpp:77-133).
StrikeOpenOnlyForGrant ==
    (life = "up" /\ pin = "high") =>
        pc = "hold" /\ reply = "grant" /\ credential \in Users

\* The state Lock caches is the level of its pin, whatever happened before
\* the boot.  setState writes only on a change (lock.cpp:28), so a wrong
\* cache would swallow the order to lock.
LockMirrorsPin ==
    life = "up" => (lockState = "locked" <=> pin = "low")

Larger(a, b) == IF a >= b THEN a ELSE b

\* The longest a hold can last, in real time.
HoldBound ==
    Larger(SettleTime, UnlockDuration + MaxSkew - 1 + PollPeriod) + MaxLate

\* The hold ends in bounded real time although its loop compares readings
\* of a clock that may be set back meanwhile (lines 109-115).
HoldBounded == held <= HoldBound

\* Tailgating: the door can stand open under a released strike no longer
\* than one sleep of the loop and its lateness (lines 112-120).
OpenDoorRelocked ==
    (life = "up" /\ pc = "hold") =>
        ajar <= Larger(SettleTime, PollPeriod) + MaxLate

\* An exception that ends the process finds the strike engaged: both calls
\* to the servers come before the release and no path reaches them again
\* with the strike released.
TerminatedLocked == life = "terminated" => pin = "low"

Verdicts(s) == {i \in DOMAIN s : s[i] \in {"error", "success"}}

\* The messages s hold one verdict, and it is of this type.
OnlyVerdict(s, type) == \E i \in DOMAIN s : Verdicts(s) = {i} /\ s[i] = type

\* However an attempt ends: when the thread goes on to the next scan, it has
\* told one verdict and only one, success if the server granted and error
\* for unknown, denied and network error; when the process dies under it, by
\* an exception or killed, it has told none, or success if in the hold
\* (fingerprintcontroller.cpp:77-133).
OneVerdict ==
    [][(life = "up" /\ pc \in {"authn", "authz", "hold"}) =>
           /\ pc' = "scan" =>
                 OnlyVerdict(told', IF reply' = "grant" THEN "success" ELSE "error")
           /\ life' # "up" => IF pc = "hold" THEN OnlyVerdict(told', "success")
                              ELSE Verdicts(told') = {}]_vars

\* A released strike is engaged again, unless the process dies.
HoldEnds == (life = "up" /\ pin = "high") ~> (pin = "low" \/ life # "up")
=============================================================================
