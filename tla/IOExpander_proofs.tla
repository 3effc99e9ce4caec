-------------------------- MODULE IOExpander_proofs --------------------------
(***************************************************************************)
(* The invariants of IOExpander, for every wiring of the pins and any      *)
(* number of threads.                                                      *)
(***************************************************************************)
EXTENDS IOExpander, TLAPS

\* The change of a byte stays within the pins and touches only those named.
LEMMA AppliedFacts ==
    ASSUME NEW call \in Calls, NEW byte \in SUBSET Pins
    PROVE  /\ Applied(call, byte) \in SUBSET Pins
           /\ \A p : p \notin call.pins => (p \in Applied(call, byte) <=> p \in byte)
           /\ \A p \in call.pins : p \in Applied(call, byte) <=> call.level = "high"
  BY DEF Calls, Applied

\* The call of Lock is a call.
LEMMA LockCallType ==
    ASSUME NEW level \in {"high", "low"}
    PROVE  LockCall(level) \in Calls
  BY WiringAssumption DEF LockCall, Calls

\* Every variable keeps its type.
THEOREM TypeCorrect == Spec => []TypeOK
  <1> USE WiringAssumption
  <1>1. Init => TypeOK
    BY DEF Init, TypeOK, Calls, NoCall
  <1>2. TypeOK /\ [Next]_vars => TypeOK'
    <2> SUFFICES ASSUME TypeOK, [Next]_vars PROVE TypeOK'
      OBVIOUS
    <2> USE DEF TypeOK
    <2>1. CASE Initialize BY <2>1 DEF Initialize, Written
    <2>2. CASE BootDisplay BY <2>2 DEF BootDisplay
    <2>3. CASE BootLock BY <2>3 DEF BootLock, Written
    <2>13. ASSUME NEW call \in Calls, BootCall(call) PROVE TypeOK'
      <3>1. call.bank \in Banks BY DEF Calls
      <3>2. /\ Applied(call, cache[call.bank]) \in SUBSET Pins
            /\ Applied(call, want[call.bank]) \in SUBSET Pins
        BY <3>1, AppliedFacts
      <3> QED BY <2>13, <3>1, <3>2 DEF BootCall, Written
    <2>4. CASE Restart BY <2>4 DEF Restart, Calls, NoCall
    <2>5. ASSUME NEW t \in Threads, NEW call \in Calls, Begin(t, call)
          PROVE  /\ pc' \in [Threads -> {"idle", "load", "store", "argument", "write"}]
                 /\ op' \in [Threads -> Calls]
                 /\ want' \in [Banks -> SUBSET Pins]
                 /\ sure' \in [Banks -> SUBSET Pins]
                 /\ UNCHANGED <<boot, cache, reg, tmp>>
      <3>1. call.bank \in Banks /\ call.pins \in SUBSET Pins
        BY DEF Calls
      <3>2. Applied(call, want[call.bank]) \in SUBSET Pins
        BY <3>1, AppliedFacts
      <3> QED BY <2>5, <3>1, <3>2 DEF Begin
    <2>6. ASSUME NEW t \in Threads, NEW call \in Calls, DisplayCall(t, call)
          PROVE  TypeOK'
      BY <2>5, <2>6 DEF DisplayCall
    <2>7. ASSUME NEW s \in {"locked", "unlocked"}, SetState(s) PROVE TypeOK'
      <3>1. PICK level \in {"high", "low"} : Begin(LockThread, LockCall(level))
        BY <2>7 DEF SetState
      <3> QED BY <2>5, <2>7, <3>1, LockCallType DEF SetState
    <2>8. ASSUME NEW t \in Threads, Load(t) PROVE TypeOK'
      <3>1. Applied(op[t], cache[op[t].bank]) \in SUBSET Pins
        BY AppliedFacts DEF Calls
      <3> QED BY <2>8, <3>1 DEF Load
    <2>9. ASSUME NEW t \in Threads, Store(t) PROVE TypeOK'
      BY <2>9 DEF Store
    <2>10. ASSUME NEW t \in Threads, Argument(t) PROVE TypeOK'
      <3>1. cache[op[t].bank] \in SUBSET Pins BY DEF Calls
      <3> QED BY <2>10, <3>1 DEF Argument
    <2>11. ASSUME NEW t \in Threads, Write(t) PROVE TypeOK'
      BY <2>11 DEF Write, Written
    <2>12. CASE UNCHANGED vars BY <2>12 DEF vars
    <2> QED
      BY <2>1, <2>2, <2>3, <2>4, <2>6, <2>7, <2>8, <2>9, <2>10, <2>11, <2>12, <2>13
      DEF Next
  <1> QED BY <1>1, <1>2, PTL DEF Spec

-----------------------------------------------------------------------------

\* A byte that has been changed but not yet written may be in thread t.
Holding(t) == pc[t] \in {"store", "argument", "write"}

\* byte has pin p of bank b at the level last asked for.
Right(byte, b, p) == p \in byte <=> p \in want[b]

\* A sure pin nobody is changing is right in the cache, in the device and
\* in every byte that is going to be stored or written.
AtRest(b, p) ==
    Untouched(b, p) => /\ Right(cache[b], b, p) /\ Right(reg[b], b, p)
                       /\ \A t \in Active(b) : Holding(t) => Right(tmp[t], b, p)

\* A sure pin somebody is changing is in the only call on its bank, which
\* makes it right from the cache outwards.
Changing(b, p) ==
    \A t \in Active(b) : p \in op[t].pins =>
        /\ \A u \in Active(b) : u = t
        /\ op[t].level = "high" <=> p \in want[b]
        /\ Holding(t) => Right(tmp[t], b, p)
        /\ pc[t] \in {"argument", "write"} => Right(cache[b], b, p)

\* Each thread keeps to its own pins, and nobody calls before the boot is
\* over.
Wiring ==
    /\ op[LockThread].bank = LockBank
    /\ \A t \in Threads \ {LockThread} :
         pc[t] # "idle" => op[t].pins \subseteq DisplayPins[op[t].bank]
    /\ boot # "running" => \A t \in Threads : pc[t] = "idle"

\* As long as there is one thread, the cached byte is what was asked for,
\* and so is the register once the bank has been written.
Fresh(b) ==
    /\ cache[b] = want[b]
    /\ sure[b] = {} \/ (sure[b] = Pins /\ reg[b] = want[b])

\* A sure pin is at rest or properly being changed.
SettledInv ==
    /\ Wiring
    /\ boot # "running" => \A b \in Banks : Fresh(b)
    /\ boot = "initialize" => \A b \in Banks : sure[b] = {} /\ want[b] = {}
    /\ boot = "lock" => sure = [b \in Banks |-> Pins]
    /\ \A b \in Banks : \A p \in sure[b] : AtRest(b, p) /\ Changing(b, p)

\* What a new call does to the pins of its bank.
LEMMA BeginKeeps ==
    ASSUME TypeOK, SettledInv, NEW t \in Threads, NEW call \in Calls,
           Begin(t, call),
           NEW b \in Banks, NEW p \in sure'[b]
    PROVE  AtRest(b, p)' /\ Changing(b, p)'
  <1> USE DEF TypeOK, Begin, Holding, Right, Untouched
  <1>1. call.bank \in Banks /\ call.pins \in SUBSET Pins
    BY DEF Calls
  <1>2. op'[t] = call /\ pc'[t] = "load" /\ t \notin Active(b)
    BY DEF Active
  <1>3. \A u \in Threads \ {t} : op'[u] = op[u] /\ pc'[u] = pc[u]
    OBVIOUS
  <1>4. CASE b # call.bank
    <2>1. Active(b)' = Active(b)
      BY <1>2, <1>3, <1>4 DEF Active
    <2>2. p \in sure[b] /\ want'[b] = want[b]
      BY <1>4, <1>1
    <2>3. \A u \in Active(b) : u # t
      BY <1>2
    <2> QED BY <1>2, <1>3, <2>1, <2>2, <2>3 DEF SettledInv, AtRest, Changing, Active
  <1>5. CASE b = call.bank
    <2>1. Active(b)' = Active(b) \cup {t}
      BY <1>2, <1>3, <1>5 DEF Active
    <2>2. want'[b] = Applied(call, want[b])
      BY <1>5, <1>1
    <2>3. CASE p \in call.pins
      <3>1. Active(b) = {}
        BY <2>3, <1>5, <1>1
      <3>2. p \in want'[b] <=> call.level = "high"
        BY <2>2, <2>3, AppliedFacts
      <3> QED BY <1>2, <2>1, <2>3, <3>1, <3>2 DEF AtRest, Changing
    <2>4. CASE p \notin call.pins
      <3>1. p \in want'[b] <=> p \in want[b]
        BY <2>2, <2>4, AppliedFacts
      <3>2. p \in sure[b]
        BY <2>4, <1>5, <1>1
      <3>3. \A u \in Active(b) : p \notin op[u].pins
        BY <2>4, <1>5, <1>1
      <3>4. Untouched(b, p)
        BY <3>3
      <3>5. \A u \in Active(b)' : p \notin op'[u].pins
        BY <3>3, <2>1, <1>2, <1>3, <2>4
      <3>6. \A u \in Active(b)' : Holding(u)' => u \in Active(b) /\ Holding(u)
        BY <2>1, <1>2, <1>3
      <3>7. AtRest(b, p)
        BY <3>2 DEF SettledInv
      <3> QED BY <3>1, <3>4, <3>5, <3>6, <3>7 DEF AtRest, Changing
    <2> QED BY <2>3, <2>4
  <1> QED BY <1>4, <1>5

\* What the steps of a call under way do to the pins of every bank.
LEMMA LoadKeeps ==
    ASSUME TypeOK, SettledInv, NEW t \in Threads, Load(t),
           NEW b \in Banks, NEW p \in sure[b]
    PROVE  AtRest(b, p)' /\ Changing(b, p)'
  <1> USE DEF TypeOK, Load, Holding, Right, Untouched
  <1>1. op[t] \in Calls /\ op[t].bank \in Banks
    BY DEF Calls
  <1>2. Active(b)' = Active(b)
    BY DEF Active
  <1>3. pc'[t] = "store" /\ \A u \in Threads \ {t} : pc'[u] = pc[u] /\ tmp'[u] = tmp[u]
    OBVIOUS
  <1>4. AtRest(b, p) /\ Changing(b, p)
    BY DEF SettledInv
  <1>5. tmp'[t] = Applied(op[t], cache[op[t].bank])
    OBVIOUS
  <1>6. CASE t \notin Active(b)
    BY <1>2, <1>3, <1>4, <1>6 DEF AtRest, Changing, Active
  <1>7. CASE t \in Active(b)
    <2>1. b = op[t].bank BY <1>7 DEF Active
    <2>2. cache[b] \in SUBSET Pins OBVIOUS
    <2>3. CASE p \in op[t].pins
      <3>1. \A u \in Active(b) : u = t /\ (op[t].level = "high" <=> p \in want[b])
        BY <1>4, <1>7, <2>3 DEF Changing
      <3>2. p \in tmp'[t] <=> op[t].level = "high"
        BY <1>1, <1>5, <2>1, <2>2, <2>3, AppliedFacts
      <3> QED BY <1>2, <1>3, <1>7, <2>3, <3>1, <3>2 DEF AtRest, Changing
    <2>4. CASE p \notin op[t].pins
      <3>1. p \in tmp'[t] <=> p \in cache[b]
        BY <1>1, <1>5, <2>1, <2>2, <2>4, AppliedFacts
      <3>2. AtRest(b, p)'
        BY <1>2, <1>3, <1>4, <3>1 DEF AtRest, Active
      <3>3. Changing(b, p)'
        BY <1>2, <1>3, <1>4, <1>7, <2>4 DEF Changing, Active
      <3> QED BY <3>2, <3>3
    <2> QED BY <2>3, <2>4
  <1> QED BY <1>6, <1>7

LEMMA StoreKeeps ==
    ASSUME TypeOK, SettledInv, NEW t \in Threads, Store(t),
           NEW b \in Banks, NEW p \in sure[b]
    PROVE  AtRest(b, p)' /\ Changing(b, p)'
  <1> USE DEF TypeOK, Store, Holding, Right, Untouched
  <1>1. op[t].bank \in Banks
    BY DEF Calls
  <1>2. Active(b)' = Active(b)
    BY DEF Active
  <1>3. pc'[t] = "argument" /\ \A u \in Threads \ {t} : pc'[u] = pc[u]
    OBVIOUS
  <1>4. AtRest(b, p) /\ Changing(b, p)
    BY DEF SettledInv
  <1>5. CASE t \notin Active(b)
    <2>1. cache'[b] = cache[b]
      BY <1>1, <1>5 DEF Active
    <2> QED BY <1>2, <1>3, <1>4, <1>5, <2>1 DEF AtRest, Changing, Active
  <1>6. CASE t \in Active(b)
    <2>1. cache'[b] = tmp[t]
      BY <1>1, <1>6 DEF Active
    <2>2. AtRest(b, p)'
      BY <1>2, <1>3, <1>4, <1>6, <2>1 DEF AtRest, Active
    <2>3. Changing(b, p)'
      BY <1>2, <1>3, <1>4, <1>6, <2>1 DEF Changing, Active
    <2> QED BY <2>2, <2>3
  <1> QED BY <1>5, <1>6

LEMMA ArgumentKeeps ==
    ASSUME TypeOK, SettledInv, NEW t \in Threads, Argument(t),
           NEW b \in Banks, NEW p \in sure[b]
    PROVE  AtRest(b, p)' /\ Changing(b, p)'
  <1> USE DEF TypeOK, Argument, Holding, Right, Untouched
  <1>1. tmp'[t] \in {tmp[t], cache[op[t].bank]}
    OBVIOUS
  <1>2. Active(b)' = Active(b)
    BY DEF Active
  <1>3. pc'[t] = "write" /\ \A u \in Threads \ {t} : pc'[u] = pc[u] /\ tmp'[u] = tmp[u]
    OBVIOUS
  <1>4. AtRest(b, p) /\ Changing(b, p)
    BY DEF SettledInv
  <1>5. t \in Active(b) => b = op[t].bank
    BY DEF Active
  <1>6. AtRest(b, p)'
    BY <1>1, <1>2, <1>3, <1>4, <1>5 DEF AtRest, Active
  <1>7. Changing(b, p)'
    BY <1>1, <1>2, <1>3, <1>4, <1>5 DEF Changing, Active
  <1> QED BY <1>6, <1>7

LEMMA WriteKeeps ==
    ASSUME TypeOK, SettledInv, NEW t \in Threads, Write(t),
           NEW b \in Banks, NEW p \in sure[b]
    PROVE  AtRest(b, p)' /\ Changing(b, p)'
  <1> USE DEF TypeOK, Write, Written, Holding, Right, Untouched
  <1>1. op[t].bank \in Banks
    BY DEF Calls
  <1>2. Active(b)' = Active(b) \ {t}
    BY DEF Active
  <1>3. pc'[t] = "idle" /\ \A u \in Threads \ {t} : pc'[u] = pc[u]
    OBVIOUS
  <1>4. AtRest(b, p) /\ Changing(b, p)
    BY DEF SettledInv
  <1>5. CASE t \notin Active(b)
    <2>1. reg'[b] = reg[b] /\ Active(b)' = Active(b)
      BY <1>1, <1>2, <1>5 DEF Active
    <2> QED BY <1>3, <1>4, <1>5, <2>1 DEF AtRest, Changing, Active
  <1>6. CASE t \in Active(b)
    <2>1. reg'[b] = tmp[t]
      BY <1>1, <1>6 DEF Active
    <2>2. Changing(b, p)'
      BY <1>2, <1>3, <1>4 DEF Changing, Active
    <2>3. CASE p \in op[t].pins
      <3>1. Active(b)' = {} /\ Right(tmp[t], b, p) /\ Right(cache[b], b, p)
        BY <1>2, <1>4, <1>6, <2>3 DEF Changing
      <3> QED BY <2>1, <2>2, <3>1 DEF AtRest
    <2>4. CASE p \notin op[t].pins
      <3>1. Untouched(b, p)' => Untouched(b, p)
        BY <1>2, <2>4
      <3> QED BY <1>2, <1>3, <1>4, <1>6, <2>1, <2>2, <3>1 DEF AtRest, Active
    <2> QED BY <2>3, <2>4
  <1> QED BY <1>5, <1>6

\* The wiring: threads keep to their pins.
LEMMA WiringStep ==
    ASSUME TypeOK, Wiring, [Next]_vars
    PROVE  Wiring'
  <1> USE WiringAssumption DEF TypeOK, Wiring
  <1>1. CASE Initialize BY <1>1 DEF Initialize
  <1>2. CASE BootDisplay BY <1>2 DEF BootDisplay
  <1>3. CASE BootLock BY <1>3 DEF BootLock
  <1>4. CASE Restart BY <1>4 DEF Restart, NoCall
  <1>5. ASSUME NEW t \in Threads, NEW call \in Calls, DisplayCall(t, call)
        PROVE  Wiring'
    BY <1>5 DEF DisplayCall, Begin
  <1>6. ASSUME NEW s \in {"locked", "unlocked"}, SetState(s) PROVE Wiring'
    BY <1>6 DEF SetState, Begin, LockCall
  <1>7. ASSUME NEW t \in Threads, Load(t) \/ Store(t) \/ Argument(t) \/ Write(t)
        PROVE  Wiring'
    BY <1>7 DEF Load, Store, Argument, Write
  <1>8. CASE UNCHANGED vars BY <1>8 DEF vars
  <1>9. ASSUME NEW call \in Calls, BootCall(call) PROVE Wiring'
    BY <1>9 DEF BootCall
  <1> QED BY <1>1, <1>2, <1>3, <1>4, <1>5, <1>6, <1>7, <1>8, <1>9 DEF Next

\* The inductive invariant is one.
LEMMA SettledInvariant == Spec => []SettledInv
  <1>1. Init => SettledInv
    BY WiringAssumption DEF Init, SettledInv, Wiring, Fresh, NoCall
  <1>2. TypeOK /\ TypeOK' /\ SettledInv /\ [Next]_vars => SettledInv'
    <2> SUFFICES ASSUME TypeOK, TypeOK', SettledInv, [Next]_vars PROVE SettledInv'
      OBVIOUS
    <2> DEFINE Settled == \A b \in Banks : \A p \in sure[b] : AtRest(b, p) /\ Changing(b, p)
    <2> DEFINE Booted ==
          /\ boot # "running" => \A b \in Banks : Fresh(b)
          /\ boot = "initialize" => \A b \in Banks : sure[b] = {} /\ want[b] = {}
          /\ boot = "lock" => sure = [b \in Banks |-> Pins]
    <2>0. Wiring /\ Wiring' /\ Booted /\ Settled
      BY WiringStep DEF SettledInv
    <2>a. SUFFICES Booted' /\ Settled'
      BY <2>0 DEF SettledInv
    <2>1. CASE Initialize
      <3>1. \A b \in Banks : sure'[b] = {} /\ want'[b] = {} /\ cache'[b] = {}
        BY <2>0, <2>1 DEF Initialize
      <3>2. boot' = "display"
        BY <2>1 DEF Initialize
      <3> QED BY <3>1, <3>2 DEF Fresh
    <2>2. CASE BootDisplay
      <3>1. boot = "display" /\ boot' = "lock" /\ UNCHANGED <<cache, reg, want, sure, pc, op, tmp>>
        BY <2>2 DEF BootDisplay
      <3>2. \A b \in Banks : Fresh(b)'
        BY <2>0, <3>1 DEF Fresh
      <3>3. Settled'
        BY <2>0, <3>1 DEF AtRest, Changing, Right, Untouched, Active, Holding
      <3> QED BY <2>2, <3>1, <3>2, <3>3 DEF BootDisplay
    <2>3. CASE BootLock
      <3>1. boot' = "running" /\ \A b \in Banks : cache'[b] = want'[b] /\ reg'[b] = want'[b]
        <4>1. Pins # {} /\ LockBank \in Banks
          BY WiringAssumption
        <4>2. \A b \in Banks : sure[b] = Pins /\ Fresh(b)
          BY <2>0, <2>3 DEF BootLock
        <4>3. \A b \in Banks : cache[b] = want[b] /\ reg[b] = want[b]
          BY <4>1, <4>2 DEF Fresh
        <4> QED BY <2>3, <4>1, <4>3 DEF BootLock, Written, TypeOK
      <3>2. \A b \in Banks : Active(b)' = {}
        BY <2>0, <2>3 DEF BootLock, Wiring, Active
      <3> QED BY <3>1, <3>2 DEF AtRest, Changing, Right
    <2>4. CASE Restart
      <3>1. \A b \in Banks : sure'[b] = {} /\ want'[b] = {} /\ cache'[b] = {}
        BY <2>4 DEF Restart
      <3>2. boot' = "initialize"
        BY <2>4 DEF Restart
      <3> QED BY <3>1, <3>2 DEF Fresh
    <2>10. ASSUME NEW call \in Calls, BootCall(call) PROVE Booted' /\ Settled'
      <3>1. call.bank \in Banks BY DEF Calls
      <3>2. boot = "display" /\ boot' = "display"
        BY <2>10 DEF BootCall
      <3>3. \A b \in Banks : Fresh(b)'
        BY <2>0, <2>10, <3>1, <3>2 DEF BootCall, Fresh, Written, TypeOK
      <3>4. \A b \in Banks : Active(b)' = {}
        BY <2>0, <2>10 DEF BootCall, Wiring, Active
      <3> QED BY <3>2, <3>3, <3>4 DEF Fresh, AtRest, Changing, Right
    <2>5. ASSUME NEW t \in Threads, NEW call \in Calls, Begin(t, call)
          PROVE  Booted' /\ Settled'
      <3>1. boot' = "running" BY <2>5 DEF Begin
      <3>2. Settled' BY <2>5, BeginKeeps
      <3> QED BY <3>1, <3>2
    <2>6. ASSUME NEW t \in Threads, NEW call \in Calls, DisplayCall(t, call)
          PROVE  Booted' /\ Settled'
      BY <2>5, <2>6 DEF DisplayCall
    <2>7. ASSUME NEW s \in {"locked", "unlocked"}, SetState(s)
          PROVE  Booted' /\ Settled'
      <3>1. PICK level \in {"high", "low"} : Begin(LockThread, LockCall(level))
        BY <2>7 DEF SetState
      <3>2. LockCall(level) \in Calls /\ LockThread \in Threads
        BY LockCallType, WiringAssumption
      <3> QED BY <2>5, <3>1, <3>2
    <2>8. ASSUME NEW t \in Threads, Load(t) \/ Store(t) \/ Argument(t) \/ Write(t)
          PROVE  Booted' /\ Settled'
      <3>1. boot = "running"
        BY <2>0, <2>8 DEF Load, Store, Argument, Write, Wiring
      <3>2. boot' = "running" /\ sure' = sure
        BY <2>8, <3>1 DEF Load, Store, Argument, Write
      <3>3. Settled'
        BY <2>8, <3>2, LoadKeeps, StoreKeeps, ArgumentKeeps, WriteKeeps
      <3> QED BY <3>2, <3>3
    <2>9. CASE UNCHANGED vars
      <3>1. \A b \in Banks : Active(b)' = Active(b)
        BY <2>9 DEF vars, Active
      <3>2. Settled'
        BY <2>0, <2>9, <3>1 DEF vars, AtRest, Changing, Right, Holding, Untouched
      <3>3. Booted'
        BY <2>0, <2>9 DEF vars, Fresh
      <3> QED BY <3>2, <3>3
    <2> QED BY <2>1, <2>2, <2>3, <2>4, <2>6, <2>7, <2>8, <2>9, <2>10 DEF Next
  <1> QED BY <1>1, <1>2, TypeCorrect, PTL DEF Spec

\* A call that had its bank to itself is obeyed until its pins are asked for
\* again, whatever else overlaps on the bank.
THEOREM SettledCallsObeyed == Spec => []SettledPinsHold
  <1>1. SettledInv => SettledPinsHold
    BY DEF SettledInv, SettledPinsHold, AtRest, Right
  <1> QED BY <1>1, SettledInvariant, PTL

-----------------------------------------------------------------------------

\* Lock's cache is what was last asked of its pins.
LockInv ==
    boot = "running" =>
        \A p \in LockPins : p \in want[LockBank] <=> lockState = "unlocked"

\* An undisturbed Lock is obeyed: between its calls the strike is released
\* exactly when the program believes it is.
THEOREM SettledLockSafe == Spec => []SettledLockObeyed
  <1> USE WiringAssumption DEF TypeOK
  <1>1. Init => LockInv
    BY DEF Init, LockInv
  <1>2. TypeOK /\ TypeOK' /\ SettledInv /\ LockInv /\ [Next]_vars => LockInv'
    <2> SUFFICES ASSUME TypeOK, TypeOK', SettledInv, LockInv, [Next]_vars PROVE LockInv'
      OBVIOUS
    <2> USE DEF LockInv
    <2>1. CASE Initialize BY <2>1 DEF Initialize
    <2>2. CASE BootDisplay BY <2>2 DEF BootDisplay
    <2>3. CASE BootLock BY <2>3 DEF BootLock
    <2>4. CASE Restart BY <2>4 DEF Restart
    <2>5. ASSUME NEW t \in Threads, NEW call \in Calls, DisplayCall(t, call)
          PROVE  LockInv'
      <3>1. want' = [want EXCEPT ![call.bank] = Applied(call, @)]
            /\ UNCHANGED <<boot, lockState>>
        BY <2>5 DEF DisplayCall, Begin
      <3>2. call.bank = LockBank => call.pins \cap LockPins = {}
        BY <2>5 DEF DisplayCall
      <3>3. \A p \in LockPins : p \in want'[LockBank] <=> p \in want[LockBank]
        BY <3>1, <3>2, AppliedFacts
      <3>4. boot = "running" BY <2>5 DEF DisplayCall, Begin
      <3> QED BY <3>1, <3>3, <3>4
    <2>6. ASSUME NEW s \in {"locked", "unlocked"}, SetState(s) PROVE LockInv'
      <3> DEFINE call == LockCall(IF s = "locked" THEN "low" ELSE "high")
      <3>1. Begin(LockThread, call) /\ lockState' = s
        BY <2>6 DEF SetState
      <3>2. call \in Calls /\ call.bank = LockBank /\ call.pins = LockPins
            /\ (call.level = "high" <=> s = "unlocked")
        BY LockCallType DEF LockCall
      <3>3. want'[LockBank] = Applied(call, want[LockBank])
        BY <3>1, <3>2 DEF Begin
      <3> HIDE DEF call
      <3> QED BY <3>1, <3>2, <3>3, AppliedFacts
    <2>7. ASSUME NEW t \in Threads, Load(t) \/ Store(t) \/ Argument(t) \/ Write(t)
          PROVE  LockInv'
      BY <2>7 DEF Load, Store, Argument, Write
    <2>8. CASE UNCHANGED vars BY <2>8 DEF vars
    <2>9. ASSUME NEW call \in Calls, BootCall(call) PROVE LockInv'
      BY <2>9 DEF BootCall
    <2> QED BY <2>1, <2>2, <2>3, <2>4, <2>5, <2>6, <2>7, <2>8, <2>9 DEF Next
  <1>3. TypeOK /\ SettledInv /\ LockInv => SettledLockObeyed
    <2> SUFFICES ASSUME TypeOK, SettledInv, LockInv, boot = "running",
                        pc[LockThread] = "idle", LockPins \subseteq sure[LockBank]
                 PROVE  IF lockState = "locked"
                        THEN LockPins \cap reg[LockBank] = {}
                        ELSE LockPins \subseteq reg[LockBank]
      BY DEF SettledLockObeyed
    <2>1. \A p \in LockPins : Untouched(LockBank, p)
      BY DEF SettledInv, Wiring, Untouched, Active
    <2>2. \A p \in LockPins : p \in reg[LockBank] <=> p \in want[LockBank]
      BY <2>1 DEF SettledInv, AtRest, Right
    <2> QED BY <2>2 DEF LockInv
  <1> QED BY <1>1, <1>2, <1>3, TypeCorrect, SettledInvariant, PTL DEF Spec

-----------------------------------------------------------------------------

\* Every pin of a bank that only one thread of the display uses is sure.
SoleInv ==
    (boot \in {"lock", "running"} /\ \A t, u \in Threads \ {LockThread} : t = u) =>
        \A b \in Banks \ {LockBank} : sure[b] = Pins

\* The display's own bank is never disturbed: between calls the cached byte
\* and the register are exactly what was asked for.
THEOREM SoleBankSafe == Spec => []SoleBankExact
  <1> USE WiringAssumption DEF TypeOK
  <1>1. Init => SoleInv
    BY DEF Init, SoleInv
  <1>2. TypeOK /\ SettledInv /\ SoleInv /\ [Next]_vars => SoleInv'
    <2> SUFFICES ASSUME TypeOK, SettledInv, SoleInv, [Next]_vars,
                        \A t, u \in Threads \ {LockThread} : t = u,
                        boot' \in {"lock", "running"},
                        NEW b \in Banks \ {LockBank}
                 PROVE  sure'[b] = Pins
      BY DEF SoleInv
    <2> USE DEF SoleInv
    <2>1. CASE Initialize BY <2>1 DEF Initialize
    <2>2. CASE BootDisplay BY <2>2 DEF BootDisplay
    <2>3. CASE BootLock BY <2>3 DEF BootLock
    <2>4. CASE Restart BY <2>4 DEF Restart
    <2>5. ASSUME NEW t \in Threads, NEW call \in Calls, DisplayCall(t, call)
          PROVE  sure'[b] = Pins
      <3>1. t \in Threads \ {LockThread} /\ boot = "running" /\ pc[t] = "idle"
        BY <2>5 DEF DisplayCall, Begin
      <3>2. Active(b) = {}
        BY <3>1 DEF Active, SettledInv, Wiring
      <3>3. call.pins \subseteq Pins
        BY DEF Calls
      <3> QED BY <2>5, <3>1, <3>2, <3>3 DEF DisplayCall, Begin
    <2>6. ASSUME NEW s \in {"locked", "unlocked"}, SetState(s) PROVE sure'[b] = Pins
      BY <2>6 DEF SetState, Begin, LockCall
    <2>7. ASSUME NEW t \in Threads, Load(t) \/ Store(t) \/ Argument(t) \/ Write(t)
          PROVE  sure'[b] = Pins
      BY <2>7 DEF Load, Store, Argument, Write
    <2>8. CASE UNCHANGED vars BY <2>8 DEF vars
    <2>9. ASSUME NEW call \in Calls, BootCall(call) PROVE sure'[b] = Pins
      BY <2>9 DEF BootCall
    <2> QED BY <2>1, <2>2, <2>3, <2>4, <2>5, <2>6, <2>7, <2>8, <2>9 DEF Next
  <1>3. TypeOK /\ SettledInv /\ SoleInv => SoleBankExact
    <2> SUFFICES ASSUME TypeOK, SettledInv, SoleInv, boot = "running",
                        \A t, u \in Threads \ {LockThread} : t = u,
                        NEW b \in Banks \ {LockBank}, Active(b) = {}
                 PROVE  cache[b] = want[b] /\ reg[b] = want[b]
      BY DEF SoleBankExact
    <2>1. sure[b] = Pins
      BY DEF SoleInv
    <2>2. \A p \in Pins : Right(cache[b], b, p) /\ Right(reg[b], b, p)
      BY <2>1 DEF SettledInv, AtRest, Untouched
    <2>3. cache[b] \subseteq Pins /\ reg[b] \subseteq Pins /\ want[b] \subseteq Pins
      OBVIOUS
    <2>4. \A p : p \in cache[b] <=> p \in want[b]
      BY <2>2, <2>3 DEF Right
    <2>5. \A p : p \in reg[b] <=> p \in want[b]
      BY <2>2, <2>3 DEF Right
    <2>6. cache[b] = want[b] BY <2>4, Zenon
    <2>7. reg[b] = want[b] BY <2>5, Zenon
    <2> QED BY <2>6, <2>7
  <1> QED BY <1>1, <1>2, <1>3, TypeCorrect, SettledInvariant, PTL DEF Spec
=============================================================================
