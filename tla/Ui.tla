--------------------------------- MODULE Ui ---------------------------------
(***************************************************************************)
(* The user interface (ui.cpp): a thread that shows queued messages one    *)
(* after the other and, between them, the default screen, which tells      *)
(* whether the alarm is on.  Other threads queue messages and turn the     *)
(* alarm on and off.  The alarm's flag and text are guarded by a mutex;    *)
(* the queue has a mutex of its own, so each operation on it is one step   *)
(* (queue.h).  What a message says is abstracted to its type.              *)
(***************************************************************************)
EXTENDS Integers, Sequences, FiniteSets

CONSTANTS
    Callers,     \* the threads that turn the alarm on and off
    AlarmTexts,  \* what startAlarm can be asked to show
    Types,       \* the types of the messages sent; alarm is one more
    QueueBound   \* this many messages wait or are about to be pushed, at most

\* The text of an alarm that is off.
NoText == ""

ASSUME CallAssumption ==
    /\ "ui" \notin Callers /\ "nobody" \notin Callers
    /\ NoText \notin AlarmTexts
    /\ {"clear", "message"} \cap (AlarmTexts \cup {NoText}) = {}
    /\ Types \subseteq {"info", "success", "prompt", "warning", "error"}
    /\ QueueBound \in Nat \ {0}

VARIABLES
    mutex,         \* who holds Impl::mutex
    alarmOn, alarmMessage,
    messageQueue,
    uiPc,          \* where the Ui thread is
    beeps,         \* beeps of the current message, the present one included
    buzzer, screen,
    callPc,        \* where each caller is in startAlarm or stopAlarm
    callText       \* the argument of the call; none for stopAlarm

alarm == <<alarmOn, alarmMessage>>
devices == <<beeps, buzzer, screen>>
calls == <<callPc, callText>>
vars == <<mutex, alarm, messageQueue, uiPc, devices, calls>>

-----------------------------------------------------------------------------

\* How often the buzzer sounds for a message (show, showBeep, showBeep2).
Beeps(type) == CASE type = "info" -> 0
                 [] type = "error" -> 2
                 [] OTHER -> 1

\* The constructor has entered the default state; the thread is to start.
Init ==
    /\ mutex = "nobody"
    /\ alarmOn = FALSE /\ alarmMessage = NoText
    /\ messageQueue = <<>>
    /\ uiPc = "loop"
    /\ beeps = 0 /\ buzzer = FALSE /\ screen = "clear"
    /\ callPc = [c \in Callers |-> "idle"]
    /\ callText = [c \in Callers |-> NoText]

\* Fault: the default state is entered without the mutex.
AcquireNothing ==
    /\ uiPc \in {"shown", "loop"}
    /\ uiPc' = IF uiPc = "shown" THEN "shownHeld" ELSE "loopHeld"
    /\ UNCHANGED <<mutex, alarm, messageQueue, devices, calls>>

\* enterDefaultState, at the end of a message or at the head of the loop:
\* take the mutex ...
Acquire ==
    /\ uiPc \in {"shown", "loop"}
    /\ mutex = "nobody"
    /\ mutex' = "ui"
    /\ uiPc' = IF uiPc = "shown" THEN "shownHeld" ELSE "loopHeld"
    /\ UNCHANGED <<alarm, messageQueue, devices, calls>>

\* Fault: the buzzer is left as the message left it.
DrawOnly ==
    /\ uiPc \in {"shownHeld", "loopHeld"}
    /\ UNCHANGED buzzer
    /\ screen' = IF alarmOn THEN alarmMessage ELSE "clear"
    /\ mutex' = "nobody"
    /\ uiPc' = IF uiPc = "shownHeld" THEN "loop" ELSE "pop"
    /\ UNCHANGED <<alarm, messageQueue, beeps, calls>>

\* Fault: once on, the alarm's screen is never left.
DrawAlarmOnly ==
    /\ uiPc \in {"shownHeld", "loopHeld"}
    /\ buzzer' = alarmOn
    /\ screen' = IF alarmOn THEN alarmMessage
                 ELSE IF screen = "message" THEN "clear" ELSE screen
    /\ mutex' = "nobody"
    /\ uiPc' = IF uiPc = "shownHeld" THEN "loop" ELSE "pop"
    /\ UNCHANGED <<alarm, messageQueue, beeps, calls>>

\* ... and show the alarm or clear the screen, then release it.
DrawDefault ==
    /\ uiPc \in {"shownHeld", "loopHeld"}
    /\ buzzer' = alarmOn
    /\ screen' = IF alarmOn THEN alarmMessage ELSE "clear"
    /\ mutex' = "nobody"
    /\ uiPc' = IF uiPc = "shownHeld" THEN "loop" ELSE "pop"
    /\ UNCHANGED <<alarm, messageQueue, beeps, calls>>

\* popMessage returns a message of type alarm: back to the loop.
PopAlarm ==
    /\ uiPc = "pop" /\ messageQueue # <<>> /\ Head(messageQueue) = "alarm"
    /\ messageQueue' = Tail(messageQueue)
    /\ uiPc' = "loop"
    /\ UNCHANGED <<mutex, alarm, devices, calls>>

\* Fault: a third beep.
PopBeepingThrice ==
    /\ uiPc = "pop" /\ messageQueue # <<>> /\ Head(messageQueue) # "alarm"
    /\ messageQueue' = Tail(messageQueue)
    /\ screen' = "message"
    /\ beeps' = IF Head(messageQueue) = "error" THEN 3 ELSE Beeps(Head(messageQueue))
    /\ buzzer' = (buzzer \/ beeps' > 0)
    /\ uiPc' = IF beeps' > 0 THEN "beeping" ELSE "showing"
    /\ UNCHANGED <<mutex, alarm, calls>>

\* popMessage returns any other message: put it on the screen, and start its
\* first beep.  show leaves the buzzer alone.
PopMessage ==
    /\ uiPc = "pop" /\ messageQueue # <<>> /\ Head(messageQueue) # "alarm"
    /\ messageQueue' = Tail(messageQueue)
    /\ screen' = "message"
    /\ beeps' = Beeps(Head(messageQueue))
    /\ buzzer' = (buzzer \/ beeps' > 0)
    /\ uiPc' = IF beeps' > 0 THEN "beeping" ELSE "showing"
    /\ UNCHANGED <<mutex, alarm, calls>>

\* A beep is over: the buzzer goes off, alarm or not.
BeepEnds ==
    /\ uiPc = "beeping"
    /\ buzzer' = FALSE
    /\ beeps' = beeps - 1
    /\ uiPc' = IF beeps > 1 THEN "pausing" ELSE "showing"
    /\ UNCHANGED <<mutex, alarm, messageQueue, screen, calls>>

\* The second beep of an error.
NextBeep ==
    /\ uiPc = "pausing"
    /\ buzzer' = TRUE
    /\ uiPc' = "beeping"
    /\ UNCHANGED <<mutex, alarm, messageQueue, beeps, screen, calls>>

\* The message was shown for its time.
ShowEnds ==
    /\ uiPc = "showing"
    /\ uiPc' = "shown"
    /\ UNCHANGED <<mutex, alarm, messageQueue, devices, calls>>

-----------------------------------------------------------------------------

\* The calls that have yet to push.
Pushing == {c \in Callers : callPc[c] \in {"lock", "flag", "text", "push"}}

\* Room in the model's bounded queue; the code's has no bound.
Room == Len(messageQueue) + Cardinality(Pushing) < QueueBound

\* Another thread sends a message.
Message(type) ==
    /\ Room
    /\ messageQueue' = Append(messageQueue, type)
    /\ UNCHANGED <<mutex, alarm, uiPc, devices, calls>>

\* Thread c calls startAlarm(text), or stopAlarm when there is no text.
Call(c, text) ==
    /\ callPc[c] = "idle" /\ Room
    /\ callPc' = [callPc EXCEPT ![c] = "lock"]
    /\ callText' = [callText EXCEPT ![c] = text]
    /\ UNCHANGED <<mutex, alarm, messageQueue, uiPc, devices>>

Lock(c) ==
    /\ callPc[c] = "lock" /\ mutex = "nobody"
    /\ mutex' = c
    /\ callPc' = [callPc EXCEPT ![c] = "flag"]
    /\ UNCHANGED <<alarm, messageQueue, uiPc, devices, callText>>

SetFlag(c) ==
    /\ callPc[c] = "flag"
    /\ alarmOn' = (callText[c] # NoText)
    /\ callPc' = [callPc EXCEPT ![c] = "text"]
    /\ UNCHANGED <<mutex, alarmMessage, messageQueue, uiPc, devices, callText>>

SetText(c) ==
    /\ callPc[c] = "text"
    /\ alarmMessage' = callText[c]
    /\ callPc' = [callPc EXCEPT ![c] = "push"]
    /\ UNCHANGED <<mutex, alarmOn, messageQueue, uiPc, devices, callText>>

\* Fault: the Ui thread is not woken.
PushNothing(c) ==
    /\ callPc[c] = "push"
    /\ callPc' = [callPc EXCEPT ![c] = "unlock"]
    /\ UNCHANGED <<mutex, alarm, messageQueue, uiPc, devices, callText>>

\* The message of type alarm, which makes the Ui thread enter its default
\* state again.
PushAlarm(c) ==
    /\ callPc[c] = "push"
    /\ messageQueue' = Append(messageQueue, "alarm")
    /\ callPc' = [callPc EXCEPT ![c] = "unlock"]
    /\ UNCHANGED <<mutex, alarm, uiPc, devices, callText>>

Unlock(c) ==
    /\ callPc[c] = "unlock"
    /\ mutex' = "nobody"
    /\ callPc' = [callPc EXCEPT ![c] = "idle"]
    /\ UNCHANGED <<alarm, messageQueue, uiPc, devices, callText>>

-----------------------------------------------------------------------------

UiStep == \/ DrawDefault \/ PopAlarm \/ PopMessage
          \/ BeepEnds \/ NextBeep \/ ShowEnds

CallStep(c) == SetFlag(c) \/ SetText(c) \/ PushAlarm(c) \/ Unlock(c)

Next ==
    \/ Acquire \/ UiStep
    \/ \E type \in Types : Message(type)
    \/ \E c \in Callers :
         \/ \E text \in AlarmTexts \cup {NoText} : Call(c, text)
         \/ Lock(c) \/ CallStep(c)

\* A thread that can go on goes on.  Nobody sleeps with the mutex, and the
\* alarm is turned on and off by a thread that sleeps between its calls, so
\* a thread that waits for the mutex gets it.
Fairness ==
    /\ WF_vars(UiStep) /\ SF_vars(Acquire)
    /\ \A c \in Callers : WF_vars(CallStep(c)) /\ SF_vars(Lock(c))

Spec == Init /\ [][Next]_vars /\ Fairness

-----------------------------------------------------------------------------

TypeOK ==
    /\ mutex \in Callers \cup {"ui", "nobody"}
    /\ alarmOn \in BOOLEAN
    /\ alarmMessage \in AlarmTexts \cup {NoText}
    /\ messageQueue \in Seq(Types \cup {"alarm"})
    /\ uiPc \in {"loop", "loopHeld", "pop", "beeping", "pausing", "showing",
                 "shown", "shownHeld"}
    /\ beeps \in 0 .. 2
    /\ buzzer \in BOOLEAN
    /\ screen \in AlarmTexts \cup {NoText, "clear", "message"}
    /\ callPc \in [Callers -> {"idle", "lock", "flag", "text", "push", "unlock"}]
    /\ callText \in [Callers -> AlarmTexts \cup {NoText}]

\* The Ui shows the alarm as it is set.
ShowsAlarm ==
    /\ buzzer = alarmOn
    /\ screen = IF alarmOn THEN alarmMessage ELSE "clear"

\* A call has changed the alarm and not yet told the Ui thread.
Unannounced == \E c \in Callers : callPc[c] \in {"text", "push"}

\* When the Ui thread waits for a message, the devices show the alarm as it
\* is set, or the message that makes it look again is queued or about to be:
\* no wake-up is lost, whatever was shown or beeped meanwhile (lines 118-189
\* and 222-241).
IdleShowsAlarm ==
    uiPc = "pop" =>
        \/ ShowsAlarm
        \/ Unannounced
        \/ \E i \in DOMAIN messageQueue : messageQueue[i] = "alarm"

\* The flag and the text of the alarm are seen together: an alarm is never
\* shown without its text (lines 119-125 and 225-227).
NoTornAlarm == screen # NoText

Sounding == buzzer /\ screen \in AlarmTexts

\* An alarm that stays on is sounded and shown, whatever is queued before it.
AlarmSounds == alarmOn ~> (Sounding \/ ~alarmOn)

\* An alarm that stays off disappears from the screen.
AlarmStops == ~alarmOn ~> (screen \notin AlarmTexts \/ alarmOn)
=============================================================================
