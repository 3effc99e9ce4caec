-------------------- MODULE FingerprintController_proofs --------------------
(***************************************************************************)
(* The invariants of FingerprintController, for every set of users, every  *)
(* set of exceptions and every timing.                                     *)
(***************************************************************************)
EXTENDS FingerprintController, SequenceTheorems, TLAPS

\* The types of the messages this thread sends.
Kinds == {"info", "success", "error"}

\* Sequences of message types stay sequences of message types when the
\* statements of the loop append to them.
LEMMA ToldGrows ==
    ASSUME NEW t \in Seq({"info", "success", "error"}),
           NEW a \in {"info", "success", "error"},
           NEW b \in {"info", "success", "error"}
    PROVE  /\ Append(t, a) \in Seq({"info", "success", "error"})
           /\ Len(Append(t, a)) = Len(t) + 1
           /\ t \o <<a, b>> \in Seq({"info", "success", "error"})
           /\ Len(t \o <<a, b>>) = Len(t) + 2
  <1>1. <<a, b>> \in Seq({"info", "success", "error"}) /\ Len(<<a, b>>) = 2
    OBVIOUS
  <1> QED BY <1>1

\* An attempt that asks a server has told "info" and nothing else so far.
Asking == (life = "up" /\ pc \in {"authn", "authz"}) => Len(told) = 1

\* The variables have their types and told never grows beyond an attempt.
TypeInv == TypeOK /\ Asking

\* Every variable keeps its type: each attempt starts with an empty record
\* of what was told and no path appends to it without an end.
THEOREM TypeCorrect == Spec => []TypeOK
  <1>1. Init => TypeInv
    BY TimingAssumption DEF Init, TypeInv, TypeOK, Asking
  <1>2. TypeInv /\ [Next]_vars => TypeInv'
    <2> SUFFICES ASSUME TypeInv, [Next]_vars PROVE TypeInv'
      OBVIOUS
    <2> USE TimingAssumption DEF TypeInv, TypeOK, Asking, Running, clocks, strike
    <2>1. CASE Boot BY <2>1 DEF Boot
    <2>2. CASE Start BY <2>2 DEF Start, SetState
    <2>3. CASE Scan BY <2>3 DEF Scan
    <2>4. CASE UserUnknown
      <3>1. told' \in Seq(Kinds) /\ Len(told') = Len(told) + 1
        BY <2>4, ToldGrows DEF UserUnknown, Kinds
      <3>2. Len(told) = 1 BY <2>4 DEF UserUnknown
      <3> QED BY <2>4, <3>1, <3>2 DEF UserUnknown, Kinds
    <2>5. ASSUME NEW c \in Users, UserKnown(c) PROVE TypeInv'
      BY <2>5 DEF UserKnown
    <2>6. CASE Deny
      <3>1. told' \in Seq(Kinds) /\ Len(told') = Len(told) + 2
        BY <2>6, ToldGrows DEF Deny, Kinds
      <3>2. Len(told) = 1 BY <2>6 DEF Deny
      <3> QED BY <2>6, <3>1, <3>2 DEF Deny, Kinds
    <2>7. CASE Grant
      <3>1. told' \in Seq(Kinds) /\ Len(told') = Len(told) + 2
        BY <2>7, ToldGrows DEF Grant, Kinds
      <3>2. Len(told) = 1 BY <2>7 DEF Grant
      <3> QED BY <2>7, <3>1, <3>2 DEF Grant, Kinds, SetState
    <2>8. ASSUME NEW e \in Exceptions, Throw(e) PROVE TypeInv'
      <3>1. CASE e = "int"
        <4>1. told' \in Seq(Kinds) /\ Len(told') = Len(told) + 1
          BY <2>8, <3>1, ToldGrows DEF Throw, Kinds
        <4>2. Len(told) = 1 BY <2>8 DEF Throw
        <4> QED BY <2>8, <3>1, <4>1, <4>2 DEF Throw, Kinds
      <3>2. CASE e # "int" BY <2>8, <3>2 DEF Throw
      <3> QED BY <3>1, <3>2
    <2>9. CASE KeepHolding BY <2>9 DEF KeepHolding
    <2>10. CASE Relock BY <2>10 DEF Relock, SetState
    <2>11. CASE Tick BY <2>11 DEF Tick
    <2>12. CASE ClockStep BY <2>12 DEF ClockStep
    <2>13. CASE DoorMoves BY <2>13 DEF DoorMoves
    <2>14. CASE Kill BY <2>14 DEF Kill
    <2>15. CASE UNCHANGED vars BY <2>15 DEF vars
    <2> QED
      BY <2>1, <2>2, <2>3, <2>4, <2>5, <2>6, <2>7, <2>8, <2>9, <2>10,
         <2>11, <2>12, <2>13, <2>14, <2>15 DEF Next
  <1>3. TypeInv => TypeOK BY DEF TypeInv
  <1> QED BY <1>1, <1>2, <1>3, PTL DEF Spec

-----------------------------------------------------------------------------

\* Why the strike is released: the hold of a granted attempt, and a cache
\* that agrees with the pin, are preserved only together with the identity
\* established before the grant.
StrikeInv ==
    /\ TypeOK
    /\ LockMirrorsPin
    /\ TerminatedLocked
    /\ life = "up" =>
        /\ pin = "high" => (pc = "hold" /\ reply = "grant")
        /\ pc \in {"authz", "hold"} => credential \in Users

\* The strike is released only for a user who was identified and granted
\* access, an exception finds it engaged, and Lock's cache is right.
THEOREM StrikeSafe ==
    Spec => [](StrikeOpenOnlyForGrant /\ LockMirrorsPin /\ TerminatedLocked)
  <1>1. Init => StrikeInv
    BY TimingAssumption DEF Init, StrikeInv, TypeOK, LockMirrorsPin, TerminatedLocked
  <1>2. TypeOK /\ TypeOK' /\ StrikeInv /\ [Next]_vars => StrikeInv'
    <2> SUFFICES ASSUME TypeOK, TypeOK', StrikeInv, [Next]_vars PROVE StrikeInv'
      OBVIOUS
    <2> DEFINE Inner ==
          /\ LockMirrorsPin /\ TerminatedLocked
          /\ life = "up" =>
              /\ pin = "high" => (pc = "hold" /\ reply = "grant")
              /\ pc \in {"authz", "hold"} => credential \in Users
    <2>0. SUFFICES Inner' BY DEF StrikeInv
    <2> USE DEF StrikeInv, LockMirrorsPin, TerminatedLocked, Running, clocks, strike
    <2>a. lockState \in {"locked", "unlocked"} /\ pin \in {"low", "high"}
      BY DEF TypeOK
    <2>1. CASE Boot BY <2>1 DEF Boot
    <2>2. CASE Start BY <2>2, <2>a DEF Start, SetState
    <2>3. CASE Scan BY <2>3, <2>a DEF Scan
    <2>4. CASE UserUnknown BY <2>4, <2>a DEF UserUnknown
    <2>5. ASSUME NEW c \in Users, UserKnown(c) PROVE Inner'
      BY <2>5, <2>a DEF UserKnown
    <2>6. CASE Deny BY <2>6, <2>a DEF Deny
    <2>7. CASE Grant BY <2>7, <2>a DEF Grant, SetState
    <2>8. ASSUME NEW e \in Exceptions, Throw(e) PROVE Inner'
      BY <2>8, <2>a DEF Throw
    <2>9. CASE KeepHolding BY <2>9, <2>a DEF KeepHolding
    <2>10. CASE Relock BY <2>10, <2>a DEF Relock, SetState
    <2>11. CASE Tick BY <2>11, <2>a DEF Tick
    <2>12. CASE ClockStep BY <2>12, <2>a DEF ClockStep
    <2>13. CASE DoorMoves BY <2>13, <2>a DEF DoorMoves
    <2>14. CASE Kill BY <2>14, <2>a DEF Kill
    <2>15. CASE UNCHANGED vars BY <2>15, <2>a DEF vars
    <2> QED
      BY <2>1, <2>2, <2>3, <2>4, <2>5, <2>6, <2>7, <2>8, <2>9, <2>10,
         <2>11, <2>12, <2>13, <2>14, <2>15 DEF Next
  <1>3. StrikeInv => StrikeOpenOnlyForGrant /\ LockMirrorsPin /\ TerminatedLocked
    BY DEF StrikeInv, StrikeOpenOnlyForGrant
  <1> QED BY <1>1, <1>2, <1>3, TypeCorrect, PTL DEF Spec

\* Lock's cached state is the level of its pin while the process lives.
THEOREM LockMirrorsPinSafe == Spec => []LockMirrorsPin
  BY StrikeSafe, PTL

\* An exception that ends the process finds the strike engaged.
THEOREM TerminatedLockedSafe == Spec => []TerminatedLocked
  BY StrikeSafe, PTL

-----------------------------------------------------------------------------

\* What is left of the bounds: the time the thread may still sleep is never
\* more than the part of the hold that is not used up, and an open door
\* leaves no second sleep.
HoldInv ==
    /\ sleep >= -MaxLate
    /\ held + sleep + MaxLate <= HoldBound
    /\ held <= HoldBound
    /\ ajar + sleep <= Larger(SettleTime, PollPeriod)
    /\ door = "closed" => ajar = 0

\* The hold and the tailgating window are bounded in real time, however the
\* wall clock is stepped within MaxSkew.
THEOREM HoldSafe == Spec => [](HoldBounded /\ OpenDoorRelocked)
  <1> USE TimingAssumption DEF HoldInv, TypeOK
  <1>0. /\ HoldBound \in Int
        /\ Larger(SettleTime, PollPeriod) \in Nat
        /\ SettleTime + MaxLate <= HoldBound
        /\ UnlockDuration + MaxSkew - 1 + PollPeriod + MaxLate <= HoldBound
        /\ SettleTime <= Larger(SettleTime, PollPeriod)
        /\ PollPeriod <= Larger(SettleTime, PollPeriod)
    BY DEF HoldBound, Larger
  <1>1. Init => HoldInv
    BY <1>0 DEF Init
  <1>2. TypeOK /\ TypeOK' /\ HoldInv /\ [Next]_vars => HoldInv'
    <2> SUFFICES ASSUME TypeOK, TypeOK', HoldInv, [Next]_vars PROVE HoldInv'
      OBVIOUS
    <2> USE <1>0 DEF Running, clocks, strike
    <2>1. CASE Boot BY <2>1 DEF Boot
    <2>2. CASE Start BY <2>2 DEF Start
    <2>3. CASE Scan BY <2>3 DEF Scan
    <2>4. CASE UserUnknown BY <2>4 DEF UserUnknown
    <2>5. ASSUME NEW c \in Users, UserKnown(c) PROVE HoldInv'
      BY <2>5 DEF UserKnown
    <2>6. CASE Deny BY <2>6 DEF Deny
    <2>7. CASE Grant BY <2>7 DEF Grant
    <2>8. ASSUME NEW e \in Exceptions, Throw(e) PROVE HoldInv'
      BY <2>8 DEF Throw
    <2>9. CASE KeepHolding BY <2>9 DEF KeepHolding, Elapsed
    <2>10. CASE Relock BY <2>10 DEF Relock
    <2>11. CASE Tick BY <2>11 DEF Tick
    <2>12. CASE ClockStep BY <2>12 DEF ClockStep
    <2>13. CASE DoorMoves BY <2>13 DEF DoorMoves
    <2>14. CASE Kill BY <2>14 DEF Kill
    <2>15. CASE UNCHANGED vars BY <2>15 DEF vars
    <2> QED
      BY <2>1, <2>2, <2>3, <2>4, <2>5, <2>6, <2>7, <2>8, <2>9, <2>10,
         <2>11, <2>12, <2>13, <2>14, <2>15 DEF Next
  <1>3. TypeOK /\ HoldInv => HoldBounded /\ OpenDoorRelocked
    BY <1>0 DEF HoldBounded, OpenDoorRelocked
  <1> QED BY <1>1, <1>2, <1>3, TypeCorrect, PTL DEF Spec

\* A door that stands open under a released strike ends the hold in time.
THEOREM OpenDoorRelockedSafe == Spec => []OpenDoorRelocked
  BY HoldSafe, PTL

-----------------------------------------------------------------------------

\* What the user was told so far says where in the attempt the thread is:
\* the verdict is still to come while a server is asked, and was "granted"
\* in the hold.
VerdictInv ==
    life = "up" =>
        /\ pc \in {"authn", "authz"} => told = <<"info">> /\ reply = "none"
        /\ pc = "hold" => told = <<"info", "info", "success">> /\ reply = "grant"

\* What a handler that tells one message, or two, leaves of the record that
\* the scan began.
LEMMA ToldOne ==
    ASSUME NEW b \in Kinds
    PROVE  Append(<<"info">>, b) = <<"info", b>>
  <1> DEFINE s == Append(<<"info">>, b)
  <1> DEFINE t == <<"info", b>>
  <1> USE DEF Kinds
  <1>1. s \in Seq(Kinds) /\ Len(s) = 2 /\ s[1] = "info" /\ s[2] = b
    BY AppendProperties
  <1>2. t \in Seq(Kinds) /\ Len(t) = 2 /\ t[1] = "info" /\ t[2] = b
    OBVIOUS
  <1> HIDE DEF s, t
  <1>3. \A i \in 1 .. Len(s) : s[i] = t[i] BY <1>1, <1>2
  <1>4. s = t BY <1>1, <1>2, <1>3, SeqEqual
  <1> QED BY <1>4 DEF s, t

LEMMA ToldTwo ==
    ASSUME NEW b \in Kinds
    PROVE  <<"info">> \o <<"info", b>> = <<"info", "info", b>>
  <1> DEFINE p == <<"info">>
  <1> DEFINE q == <<"info", b>>
  <1> DEFINE t == <<"info", "info", b>>
  <1>1. p \in Seq(Kinds) /\ Len(p) = 1 /\ p[1] = "info"
    BY DEF Kinds
  <1>2. q \in Seq(Kinds) /\ Len(q) = 2 /\ q[1] = "info" /\ q[2] = b
    BY DEF Kinds
  <1>3. t \in Seq(Kinds) /\ Len(t) = 3 /\ t[1] = "info" /\ t[2] = "info" /\ t[3] = b
    BY DEF Kinds
  <1> HIDE DEF p, q, t
  <1>4. /\ p \o q \in Seq(Kinds) /\ Len(p \o q) = Len(p) + Len(q)
        /\ \A i \in 1 .. Len(p) + Len(q) :
              (p \o q)[i] = IF i <= Len(p) THEN p[i] ELSE q[i - Len(p)]
    BY <1>1, <1>2, ConcatProperties
  <1>5. Len(p \o q) = 3 BY <1>1, <1>2, <1>4
  <1>6. (p \o q)[1] = "info" /\ (p \o q)[2] = "info" /\ (p \o q)[3] = b
    <2>1. /\ 1 \in 1 .. 3 /\ 2 \in 1 .. 3 /\ 3 \in 1 .. 3
          /\ 1 <= 1 /\ ~(2 <= 1) /\ ~(3 <= 1)
          /\ 2 - 1 = 1 /\ 3 - 1 = 2 /\ 1 + 2 = 3
      OBVIOUS
    <2> QED BY <1>1, <1>2, <1>4, <2>1
  <1>7. p \o q = t
    <2>1. \A i \in 1 .. Len(p \o q) : (p \o q)[i] = t[i] BY <1>3, <1>5, <1>6
    <2> QED BY <1>3, <1>4, <1>5, <2>1, SeqEqual
  <1> QED BY <1>7 DEF p, q, t

\* The records with which an attempt can end hold one verdict each, and the
\* record it begins with holds none.
LEMMA RecordVerdicts ==
    /\ OnlyVerdict(<<"info", "error">>, "error")
    /\ OnlyVerdict(<<"info", "info", "error">>, "error")
    /\ OnlyVerdict(<<"info", "info", "success">>, "success")
    /\ Verdicts(<<"info">>) = {}
  <1>1. ASSUME NEW s, DOMAIN s = 1 .. 2, s[1] = "info", s[2] = "error"
        PROVE  OnlyVerdict(s, "error")
    <2>1. Verdicts(s) = {2} BY <1>1 DEF Verdicts
    <2> QED BY <1>1, <2>1 DEF OnlyVerdict
  <1>2. ASSUME NEW s, NEW type \in {"error", "success"}, DOMAIN s = 1 .. 3,
               s[1] = "info", s[2] = "info", s[3] = type
        PROVE  OnlyVerdict(s, type)
    <2>1. Verdicts(s) = {3} BY <1>2 DEF Verdicts
    <2> QED BY <1>2, <2>1 DEF OnlyVerdict
  <1>3. OnlyVerdict(<<"info", "error">>, "error")
    <2> DEFINE s == <<"info", "error">>
    <2>1. DOMAIN s = 1 .. 2 /\ s[1] = "info" /\ s[2] = "error" OBVIOUS
    <2> HIDE DEF s
    <2>2. OnlyVerdict(s, "error") BY <1>1, <2>1
    <2> QED BY <2>2 DEF s
  <1>4. ASSUME NEW type \in {"error", "success"}
        PROVE  OnlyVerdict(<<"info", "info", type>>, type)
    <2> DEFINE s == <<"info", "info", type>>
    <2>1. DOMAIN s = 1 .. 3 /\ s[1] = "info" /\ s[2] = "info" /\ s[3] = type OBVIOUS
    <2> HIDE DEF s
    <2>2. OnlyVerdict(s, type) BY <1>2, <2>1
    <2> QED BY <2>2 DEF s
  <1>5. Verdicts(<<"info">>) = {}
    BY DEF Verdicts
  <1> QED BY <1>3, <1>4, <1>5

\* However an attempt ends: if the thread goes on, the user was told one verdict,
\* the server's; if the process dies, none, unless access had been granted.
THEOREM OneVerdictEach == Spec => OneVerdict
  <1>1. Init => VerdictInv
    BY DEF Init, VerdictInv
  <1>2. VerdictInv /\ [Next]_vars => VerdictInv'
    <2> SUFFICES ASSUME VerdictInv, [Next]_vars PROVE VerdictInv'
      OBVIOUS
    <2> USE DEF VerdictInv, Running, clocks, strike
    <2>1. CASE Boot BY <2>1 DEF Boot
    <2>2. CASE Start BY <2>2 DEF Start
    <2>3. CASE Scan BY <2>3 DEF Scan
    <2>4. CASE UserUnknown BY <2>4 DEF UserUnknown
    <2>5. ASSUME NEW c \in Users, UserKnown(c) PROVE VerdictInv'
      BY <2>5 DEF UserKnown
    <2>6. CASE Deny BY <2>6 DEF Deny
    <2>7. CASE Grant BY <2>7, ToldTwo DEF Grant, Kinds
    <2>8. ASSUME NEW e \in Exceptions, Throw(e) PROVE VerdictInv'
      BY <2>8 DEF Throw
    <2>9. CASE KeepHolding BY <2>9 DEF KeepHolding
    <2>10. CASE Relock BY <2>10 DEF Relock
    <2>11. CASE Tick BY <2>11 DEF Tick
    <2>12. CASE ClockStep BY <2>12 DEF ClockStep
    <2>13. CASE DoorMoves BY <2>13 DEF DoorMoves
    <2>14. CASE Kill BY <2>14 DEF Kill
    <2>15. CASE UNCHANGED vars BY <2>15 DEF vars
    <2> QED
      BY <2>1, <2>2, <2>3, <2>4, <2>5, <2>6, <2>7, <2>8, <2>9, <2>10,
         <2>11, <2>12, <2>13, <2>14, <2>15 DEF Next
  <1>3. VerdictInv /\ [Next]_vars =>
          [(life = "up" /\ pc \in {"authn", "authz", "hold"}) =>
             /\ pc' = "scan" =>
                   OnlyVerdict(told', IF reply' = "grant" THEN "success" ELSE "error")
             /\ life' # "up" => IF pc = "hold" THEN OnlyVerdict(told', "success")
                                ELSE Verdicts(told') = {}]_vars
    <2> DEFINE Ending ==
                 /\ pc' = "scan" =>
                      \/ /\ told' \in {<<"info", "error">>, <<"info", "info", "error">>}
                         /\ reply' # "grant"
                      \/ told' = <<"info", "info", "success">> /\ reply' = "grant"
                 /\ life' # "up" => pc' = pc /\ told' = told
    <2> SUFFICES ASSUME VerdictInv, Next, life = "up", pc \in {"authn", "authz", "hold"}
                 PROVE  Ending
      BY RecordVerdicts DEF VerdictInv
    <2> USE DEF VerdictInv, Running, clocks, strike
    <2>1. CASE UserUnknown BY <2>1, ToldOne DEF UserUnknown, Kinds
    <2>2. CASE Deny BY <2>2, ToldTwo DEF Deny, Kinds
    <2>3. ASSUME NEW e \in Exceptions, Throw(e) PROVE Ending
      BY <2>3, ToldOne DEF Throw, Kinds
    <2>4. CASE Relock BY <2>4 DEF Relock
    <2>5. CASE Boot \/ Start \/ Scan \/ Grant BY <2>5 DEF Boot, Start, Scan, Grant
    <2>6. ASSUME NEW c \in Users, UserKnown(c) PROVE Ending BY <2>6 DEF UserKnown
    <2>7. CASE KeepHolding \/ Tick \/ ClockStep \/ DoorMoves \/ Kill
      BY <2>7 DEF KeepHolding, Tick, ClockStep, DoorMoves, Kill
    <2> QED BY <2>1, <2>2, <2>3, <2>4, <2>5, <2>6, <2>7 DEF Next
  <1> QED BY <1>1, <1>2, <1>3, PTL DEF Spec, OneVerdict
=============================================================================
