----------------------------- MODULE TimerProofs -----------------------------
(***************************************************************************)
(* Proofs about TimerDispatch.                                             *)
(***************************************************************************)
EXTENDS TimerDispatch, TLAPS

\* The timer of an export under way, and of a firing under way, is a timer, a
\* caller uses only its own timers, and only an active timer is to fire.
WellFormed ==
  /\ \A c \in Callers : call[c].op # "none" =>
       call[c].timer \in Timers /\ c \in Users[call[c].timer]
  /\ dispatch.at \in {"fire", "callback", "erase"} => firing.timer \in Timers
  /\ At("sleep") => earliest # None
  /\ \A tm \in Timers : owed[tm] => active[tm]

\* The dispatch thread has looked at these timers, and sleeps no longer than
\* until the first of them is due.
Covered(S) ==
  \A tm \in S : owed[tm] =>
    BeingScheduled(tm) \/ (earliest # None /\ earliest <= due[tm])

\* What the scan has looked at so far.
ScanCovers == At("scan") => Covered(pending \ dispatch.todo)

LEMMA InitType == Init => TypeOK
<1> SUFFICES ASSUME Init PROVE TypeOK
  OBVIOUS
<1> USE TimerAssumption DEF Init
<1>1. now \in 0..MaxTime /\ clock \in Nat
  OBVIOUS
<1>2. /\ active \in [Timers -> BOOLEAN] /\ owed \in [Timers -> BOOLEAN]
      /\ notified \in BOOLEAN /\ stop \in BOOLEAN
  OBVIOUS
<1>3. /\ due \in [Timers -> Nat] /\ period \in [Timers -> Periods \cup {None}]
      /\ arming \in [Timers -> Nat] /\ quiet \in [Timers -> Nat]
      /\ fires \in [Timers -> 0..2]
  OBVIOUS
<1>4. /\ firing \in [timer: Timers \cup {None}, arming: Nat, rearmed: BOOLEAN]
      /\ call \in [Callers -> [op: {"none", "schedule", "unschedule", "notify"},
                               timer: Timers \cup {None}, arming: Nat]]
  BY DEF NoFiring, NoCall
<1> QED BY <1>1, <1>2, <1>3, <1>4 DEF TypeOK

LEMMA SumType ==
  ASSUME TypeOK, NEW tm \in Timers, period[tm] # None
  PROVE  now + period[tm] \in Nat
<1>1. period[tm] \in Periods
  BY DEF TypeOK
<1>2. period[tm] \in Nat
  BY <1>1, TimerAssumption
<1>3. now \in Nat
  BY TimerAssumption DEF TypeOK
<1> QED BY <1>2, <1>3

LEMMA NextType == TypeOK /\ WellFormed /\ [Next]_vars => TypeOK' /\ WellFormed'
<1> SUFFICES ASSUME TypeOK, WellFormed, [Next]_vars PROVE TypeOK' /\ WellFormed'
  OBVIOUS
<1> USE TimerAssumption DEF TypeOK, WellFormed, At
<1>1. CASE UNCHANGED vars
  BY <1>1 DEF vars, timerVars, loopVars
<1>2. ASSUME NEW c \in Callers, NEW tm \in Timers, NEW delay \in Delays,
             NEW p \in Periods \cup {None}, SetTimer(c, tm, delay, p)
      PROVE  TypeOK' /\ WellFormed'
  <2>1. call' \in [Callers -> [op: {"none", "schedule", "unschedule", "notify"},
                               timer: Timers \cup {None}, arming: Nat]]
    BY <1>2 DEF SetTimer
  <2>2. fires' \in [Timers -> 0..2] /\ owed' \in [Timers -> BOOLEAN]
    BY <1>2 DEF SetTimer
  <2>3. WellFormed'
    BY <1>2 DEF SetTimer, loopVars
  <2> QED BY <1>2, <2>1, <2>2, <2>3 DEF SetTimer, loopVars
<1>3. ASSUME NEW c \in Callers, NEW tm \in Timers, CancelTimer(c, tm)
      PROVE  TypeOK' /\ WellFormed'
  BY <1>3 DEF CancelTimer, CallOf, loopVars
<1>4. ASSUME NEW c \in Callers, Schedule(c)
      PROVE  TypeOK' /\ WellFormed'
  BY <1>4 DEF Schedule, ScheduleWhen, timerVars, loopVars
<1>5. ASSUME NEW c \in Callers, Unschedule(c)
      PROVE  TypeOK' /\ WellFormed'
  BY <1>5 DEF Unschedule, UnscheduleWhen, loopVars
<1>6. ASSUME NEW c \in Callers, Notify(c)
      PROVE  TypeOK' /\ WellFormed'
  <2>1. notified' \in BOOLEAN
    BY <1>6 DEF Notify
  <2> QED BY <1>6, <2>1 DEF Notify, NoCall, timerVars, loopVars
<1>7. CASE Shutdown
  <2>1. notified' \in BOOLEAN
    BY <1>7 DEF Shutdown, Asleep
  <2> QED BY <1>7, <2>1 DEF Shutdown, timerVars, loopVars
<1>8. CASE Tick
  BY <1>8 DEF Tick, timerVars, loopVars
<1>9. CASE Loop
  BY <1>9 DEF Loop, GoTo, timerVars
<1>10. CASE WakeEmpty
  BY <1>10 DEF WakeEmpty, GoTo, timerVars
<1>11. ASSUME NEW tm \in Timers, ScanOne(tm)
       PROVE  TypeOK' /\ WellFormed'
  BY <1>11 DEF ScanOne, Sooner, GoTo, timerVars
<1>12. CASE EndOfScan
  <2>1. CASE earliest = None
    <3>1. dispatch' = [at |-> "loop", todo |-> {}] /\ pending' = {} /\ notified' = FALSE
      BY <1>12, <2>1 DEF EndOfScan, GoTo
    <3> QED BY <1>12, <3>1 DEF EndOfScan, timerVars
  <2>2. CASE earliest # None
    <3>1. /\ dispatch' = [at |-> "sleep", todo |-> {}] /\ pending' = pending
          /\ notified' = FALSE
      BY <1>12, <2>2 DEF EndOfScan, GoTo
    <3> QED BY <1>12, <2>2, <3>1 DEF EndOfScan, timerVars
  <2> QED BY <2>1, <2>2
<1>13. CASE WakeEarly
  BY <1>13 DEF WakeEarly, GoTo, timerVars
<1>14. CASE WakeDue
  BY <1>14 DEF WakeDue, GoTo, timerVars
<1>15. ASSUME NEW tm \in Timers, Check(tm)
       PROVE  TypeOK' /\ WellFormed'
  <2>1. CASE active[tm] /\ due[tm] <= clock
    <3>1. /\ dispatch' = [at |-> "fire", todo |-> dispatch.todo \ {tm}]
          /\ firing' = [timer |-> tm, arming |-> arming[tm], rearmed |-> FALSE]
      BY <1>15, <2>1 DEF Check, GoTo
    <3> QED BY <1>15, <3>1 DEF Check, timerVars
  <2>2. CASE ~(active[tm] /\ due[tm] <= clock)
    <3>1. dispatch' = [at |-> "check", todo |-> dispatch.todo \ {tm}] /\ firing' = firing
      BY <1>15, <2>2 DEF Check, GoTo
    <3> QED BY <1>15, <3>1 DEF Check, timerVars
  <2> QED BY <2>1, <2>2
<1>16. CASE Fire
  <2> DEFINE tm == firing.timer
  <2>1. tm \in Timers
    BY <1>16 DEF Fire
  <2>2. CASE active[tm]
    <3>1. fires' \in [Timers -> 0..2]
      BY <1>16, <2>1, <2>2 DEF Fire
    <3>2. active' \in [Timers -> BOOLEAN] /\ owed' \in [Timers -> BOOLEAN]
      <4>1. /\ active' = [active EXCEPT ![tm] = period[tm] # None]
            /\ owed' = [owed EXCEPT ![tm] = owed[tm] /\ period[tm] # None]
        BY <1>16, <2>1, <2>2 DEF Fire
      <4>2. /\ (period[tm] # None) \in BOOLEAN
            /\ (owed[tm] /\ period[tm] # None) \in BOOLEAN
        OBVIOUS
      <4> QED BY <4>1, <4>2
    <3>3. /\ due' \in [Timers -> Nat]
          /\ firing' \in [timer: Timers \cup {None}, arming: Nat, rearmed: BOOLEAN]
      <4>1. CASE period[tm] = None
        <5>1. /\ due' = [due EXCEPT ![tm] = due[tm]]
              /\ firing' = [timer |-> tm, arming |-> arming[tm], rearmed |-> FALSE]
          BY <1>16, <2>1, <2>2, <4>1 DEF Fire
        <5> QED BY <2>1, <5>1
      <4>2. CASE period[tm] # None
        <5>1. /\ due' = [due EXCEPT ![tm] = now + period[tm]]
              /\ firing' = [timer |-> tm, arming |-> arming[tm], rearmed |-> TRUE]
          BY <1>16, <2>1, <2>2, <4>2 DEF Fire
        <5>2. now + period[tm] \in Nat
          BY <2>1, <4>2, SumType DEF At
        <5> QED BY <2>1, <5>1, <5>2
      <4> QED BY <4>1, <4>2
    <3> QED BY <1>16, <2>1, <2>2, <3>1, <3>2, <3>3 DEF Fire, GoTo
  <2>3. CASE ~active[tm]
    BY <1>16, <2>1, <2>3 DEF Fire, GoTo
  <2> QED BY <2>2, <2>3
<1>17. CASE Callback
  BY <1>17 DEF Callback, GoTo, timerVars
<1>18. CASE Erase
  BY <1>18 DEF Erase, EraseFired, NoFiring, GoTo, timerVars
<1>19. CASE EndOfCheck
  BY <1>19 DEF EndOfCheck, GoTo, timerVars
<1> QED
  BY <1>1, <1>2, <1>3, <1>4, <1>5, <1>6, <1>7, <1>8, <1>9, <1>10, <1>11,
     <1>12, <1>13, <1>14, <1>15, <1>16, <1>17, <1>18, <1>19
     DEF Next, Export, ExportStep, DispatchStep

\* Types and well-formedness, for every caller and timer.
THEOREM TimerTypes == Spec => [](TypeOK /\ WellFormed)
<1>1. Init => TypeOK /\ WellFormed
  BY InitType DEF Init, WellFormed, NoCall, At
<1> QED BY <1>1, NextType, PTL DEF Spec

-----------------------------------------------------------------------------
(* The dispatch thread does not sleep past a due time.                     *)

\* A step that begins or continues an export keeps the other exports that are
\* about to schedule a timer.
LEMMA StillScheduled ==
  ASSUME TypeOK, NEW c \in Callers, call[c].op # "schedule", NEW r,
         call' = [call EXCEPT ![c] = r], NEW tm \in Timers, BeingScheduled(tm)
  PROVE  BeingScheduled(tm)'
<1>1. PICK d \in Callers : call[d].op = "schedule" /\ call[d].timer = tm
  BY DEF BeingScheduled
<1>2. d # c /\ call'[d] = call[d]
  BY <1>1 DEF TypeOK
<1> QED BY <1>1, <1>2 DEF BeingScheduled

\* The timers that NtSetTimerEx and NtCancelTimer change are about to be
\* scheduled or are no longer to fire; the others are as they were.
LEMMA ExportKeepsCovered ==
  ASSUME TypeOK, NEW c \in Callers, NEW tm \in Timers,
         \/ \E delay \in Delays, p \in Periods \cup {None} : SetTimer(c, tm, delay, p)
         \/ CancelTimer(c, tm),
         NEW u \in Timers, owed'[u]
  PROVE  \/ BeingScheduled(u)'
         \/ /\ owed[u] /\ due'[u] = due[u]
            /\ BeingScheduled(u) => BeingScheduled(u)'
<1>1. CASE \E delay \in Delays, p \in Periods \cup {None} : SetTimer(c, tm, delay, p)
  <2>1. PICK delay \in Delays, p \in Periods \cup {None} : SetTimer(c, tm, delay, p)
    BY <1>1
  <2>2. CASE u = tm
    <3>1. delay > 0
      BY <2>1, <2>2 DEF SetTimer, TypeOK
    <3>2. call'[c] = [op |-> "schedule", timer |-> tm, arming |-> arming[tm] + 1]
      BY <2>1, <3>1 DEF SetTimer, TypeOK
    <3> QED BY <2>2, <3>2 DEF BeingScheduled
  <2>3. CASE u # tm
    <3>1. owed[u] /\ due'[u] = due[u]
      BY <2>1, <2>3 DEF SetTimer, TypeOK
    <3>2. call[c].op # "schedule"
      BY <2>1 DEF SetTimer, NoCall
    <3>3. ASSUME BeingScheduled(u) PROVE BeingScheduled(u)'
      <4>1. CASE delay > 0
        BY <2>1, <3>2, <3>3, <4>1, StillScheduled DEF SetTimer
      <4>2. CASE ~(delay > 0)
        BY <2>1, <3>3, <4>2 DEF SetTimer, BeingScheduled
      <4> QED BY <4>1, <4>2
    <3> QED BY <3>1, <3>3
  <2> QED BY <2>2, <2>3
<1>2. CASE CancelTimer(c, tm)
  <2>1. u # tm /\ owed[u] /\ due'[u] = due[u]
    BY <1>2 DEF CancelTimer, TypeOK
  <2>2. call[c].op # "schedule"
    BY <1>2 DEF CancelTimer, NoCall
  <2> QED BY <1>2, <2>1, <2>2, StillScheduled DEF CancelTimer
<1> QED BY <1>1, <1>2

LEMMA NextSleeps ==
  TypeOK /\ WellFormed /\ ScanCovers /\ NeverSleepsPastDue /\ [Next]_vars
    => ScanCovers' /\ NeverSleepsPastDue'
<1> SUFFICES ASSUME TypeOK, WellFormed, ScanCovers, NeverSleepsPastDue, [Next]_vars
             PROVE  ScanCovers' /\ NeverSleepsPastDue'
  OBVIOUS
<1> USE DEF At, Asleep
<1>1. CASE UNCHANGED vars
  BY <1>1 DEF vars, timerVars, loopVars, ScanCovers, Covered, NeverSleepsPastDue,
              BeingScheduled, BeingNotified
<1>2. ASSUME NEW c \in Callers, NEW tm \in Timers,
             \/ \E delay \in Delays, p \in Periods \cup {None} : SetTimer(c, tm, delay, p)
             \/ CancelTimer(c, tm)
      PROVE  ScanCovers' /\ NeverSleepsPastDue'
  <2>1. /\ dispatch' = dispatch /\ pending' = pending /\ earliest' = earliest
        /\ notified' = notified
    BY <1>2 DEF SetTimer, CancelTimer, loopVars
  <2>2. BeingNotified => BeingNotified'
    BY <1>2 DEF SetTimer, CancelTimer, BeingNotified, NoCall, TypeOK
  <2>3. pending \subseteq Timers
    BY DEF TypeOK
  <2>4. ScanCovers'
    BY <1>2, <2>1, <2>3, ExportKeepsCovered DEF ScanCovers, Covered
  <2>5. NeverSleepsPastDue'
    BY <1>2, <2>1, <2>2, <2>3, ExportKeepsCovered DEF NeverSleepsPastDue
  <2> QED BY <2>4, <2>5
<1>3. ASSUME NEW c \in Callers, Schedule(c) \/ Unschedule(c)
      PROVE  ScanCovers' /\ NeverSleepsPastDue'
  <2>1. BeingNotified'
    BY <1>3 DEF Schedule, ScheduleWhen, Unschedule, UnscheduleWhen, BeingNotified, TypeOK
  <2>2. dispatch' = dispatch /\ dispatch.at # "scan"
    BY <1>3 DEF Schedule, ScheduleWhen, Unschedule, UnscheduleWhen, MutexFree, loopVars
  <2> QED BY <2>1, <2>2 DEF ScanCovers, NeverSleepsPastDue
<1>4. ASSUME NEW c \in Callers, Notify(c)
      PROVE  ScanCovers' /\ NeverSleepsPastDue'
  <2>1. \A u \in Timers : BeingScheduled(u) => BeingScheduled(u)'
    BY <1>4, StillScheduled DEF Notify
  <2>2. /\ dispatch' = dispatch /\ pending' = pending /\ earliest' = earliest
        /\ owed' = owed /\ due' = due /\ (dispatch.at \in {"empty", "sleep"} => notified')
    BY <1>4 DEF Notify, timerVars, loopVars
  <2>3. pending \subseteq Timers
    BY DEF TypeOK
  <2>4. ScanCovers'
    BY <2>1, <2>2, <2>3 DEF ScanCovers, Covered
  <2>5. NeverSleepsPastDue'
    BY <2>2 DEF NeverSleepsPastDue
  <2> QED BY <2>4, <2>5
<1>5. CASE Shutdown \/ Callback \/ Erase \/ EndOfCheck \/ WakeEmpty
            \/ WakeEarly \/ WakeDue
  <2>1. /\ dispatch'.at # "scan"
        /\ dispatch'.at \in {"empty", "sleep"} => notified'
    <3>1. CASE Shutdown
      BY <3>1 DEF Shutdown, MutexFree, loopVars
    <3>2. CASE Callback \/ Erase \/ EndOfCheck \/ WakeEmpty \/ WakeEarly \/ WakeDue
      BY <3>2 DEF Callback, Erase, EndOfCheck, WakeEmpty, WakeEarly, WakeDue, GoTo
    <3> QED BY <1>5, <3>1, <3>2
  <2> QED BY <2>1 DEF ScanCovers, NeverSleepsPastDue
<1>6. CASE Tick
  BY <1>6 DEF Tick, timerVars, loopVars, ScanCovers, Covered, NeverSleepsPastDue,
               BeingScheduled, BeingNotified
<1>7. CASE Loop
  BY <1>7 DEF Loop, GoTo, ScanCovers, Covered, NeverSleepsPastDue
<1>8. ASSUME NEW tm \in Timers, ScanOne(tm)
      PROVE  ScanCovers' /\ NeverSleepsPastDue'
  <2>1. /\ dispatch.at = "scan" /\ dispatch'.at = "scan"
        /\ dispatch'.todo = dispatch.todo \ {tm}
        /\ earliest' = Sooner(tm) /\ pending' = pending
        /\ owed' = owed /\ due' = due /\ call' = call
    BY <1>8 DEF ScanOne, GoTo, timerVars
  <2>2. \A u : BeingScheduled(u)' <=> BeingScheduled(u)
    BY <2>1 DEF BeingScheduled
  <2>3. earliest # None => earliest' # None /\ earliest' <= earliest
    BY <2>1, TimerAssumption DEF Sooner, TypeOK
  <2>4. active[tm] => earliest' # None /\ earliest' <= due[tm]
    BY <2>1, TimerAssumption DEF Sooner, TypeOK
  <2>5. owed[tm] => active[tm]
    BY DEF WellFormed
  <2>6. ASSUME NEW u \in pending \ dispatch'.todo, owed[u], ~BeingScheduled(u)
        PROVE  earliest' # None /\ earliest' <= due[u]
    <3>1. CASE u = tm
      BY <2>4, <2>5, <2>6, <3>1
    <3>2. CASE u # tm
      <4>1. earliest # None /\ earliest <= due[u]
        BY <2>1, <2>6, <3>2 DEF ScanCovers, Covered
      <4>2. earliest \in Nat /\ earliest' \in Nat /\ due[u] \in Nat
        BY <2>1, <2>3, <2>6, <4>1, NextType DEF TypeOK
      <4> QED BY <2>3, <4>1, <4>2
    <3> QED BY <3>1, <3>2
  <2>7. Covered(pending \ dispatch.todo)'
    BY <2>1, <2>2, <2>6 DEF Covered
  <2> QED BY <2>1, <2>7 DEF ScanCovers, NeverSleepsPastDue
<1>9. CASE EndOfScan
  BY <1>9 DEF EndOfScan, GoTo, ScanCovers, Covered, NeverSleepsPastDue, timerVars,
              BeingScheduled
<1>10. ASSUME NEW tm \in Timers, Check(tm)
      PROVE  ScanCovers' /\ NeverSleepsPastDue'
  BY <1>10 DEF Check, GoTo, ScanCovers, NeverSleepsPastDue
<1>11. CASE Fire
  BY <1>11 DEF Fire, GoTo, ScanCovers, NeverSleepsPastDue
<1> QED
  BY <1>1, <1>2, <1>3, <1>4, <1>5, <1>6, <1>7, <1>8, <1>9, <1>10, <1>11
     DEF Next, Export, ExportStep, DispatchStep

\* The dispatch thread does not sleep past the due time of a timer that is
\* pending (dispatch_loop() against NtSetTimerEx), for any number of timers
\* and callers.
THEOREM NoSleepPastDue == Spec => []NeverSleepsPastDue
<1> DEFINE Inv == TypeOK /\ WellFormed /\ ScanCovers /\ NeverSleepsPastDue
<1>1. Init => Inv
  BY InitType DEF Init, WellFormed, NoCall, At, ScanCovers, NeverSleepsPastDue, Asleep
<1>2. Inv /\ [Next]_vars => Inv'
  BY NextType, NextSleeps
<1> QED BY <1>1, <1>2, PTL DEF Spec

-----------------------------------------------------------------------------
(* No callback after a cancellation.                                       *)

\* The cancellations that are over, or under way, are of earlier armings than
\* the one an active timer has.
CancelsAreOld ==
  \A tm \in Timers :
    /\ quiet[tm] <= arming[tm]
    /\ active[tm] => quiet[tm] < arming[tm]
    /\ \A c \in Callers : call[c].op = "unschedule" /\ call[c].timer = tm =>
         /\ call[c].arming <= arming[tm]
         /\ active[tm] => call[c].arming < arming[tm]

LEMMA NextCancels ==
  TypeOK /\ WellFormed /\ CancelsAreOld /\ NoCallbackAfterCancel /\ [Next]_vars
    => CancelsAreOld' /\ NoCallbackAfterCancel'
<1> SUFFICES ASSUME TypeOK, WellFormed, CancelsAreOld, NoCallbackAfterCancel,
                    [Next]_vars
             PROVE  CancelsAreOld' /\ NoCallbackAfterCancel'
  OBVIOUS
<1> USE DEF At
<1>1. ASSUME NEW c \in Callers, NEW tm \in Timers, NEW delay \in Delays,
             NEW p \in Periods \cup {None}, SetTimer(c, tm, delay, p)
      PROVE  CancelsAreOld' /\ NoCallbackAfterCancel'
  <2>1. /\ quiet' = quiet /\ arming'[tm] = arming[tm] + 1
        /\ \A u \in Timers \ {tm} : arming'[u] = arming[u] /\ active'[u] = active[u]
        /\ dispatch' = dispatch /\ firing' = firing
    BY <1>1 DEF SetTimer, loopVars, TypeOK
  <2>2. \A d \in Callers : call'[d].op = "unschedule" => call'[d] = call[d]
    <3>1. CASE delay > 0
      BY <1>1, <3>1 DEF SetTimer, TypeOK
    <3>2. CASE ~(delay > 0)
      BY <1>1, <3>2 DEF SetTimer
    <3> QED BY <3>1, <3>2
  <2>3. ASSUME NEW u \in Timers
        PROVE  /\ quiet'[u] <= arming'[u]
               /\ active'[u] => quiet'[u] < arming'[u]
    BY <2>1 DEF CancelsAreOld, TypeOK
  <2>4. ASSUME NEW u \in Timers, NEW d \in Callers,
               call'[d].op = "unschedule", call'[d].timer = u
        PROVE  /\ call'[d].arming <= arming'[u]
               /\ active'[u] => call'[d].arming < arming'[u]
    <3>1. /\ call'[d] = call[d] /\ call[d].arming <= arming[u]
          /\ active[u] => call[d].arming < arming[u]
      BY <2>2, <2>4 DEF CancelsAreOld
    <3>2. call[d].arming \in Nat /\ arming[u] \in Nat
      BY DEF TypeOK
    <3> QED BY <2>1, <3>1, <3>2
  <2>5. CancelsAreOld'
    BY <2>3, <2>4 DEF CancelsAreOld
  <2> QED BY <2>1, <2>5 DEF NoCallbackAfterCancel
<1>2. ASSUME NEW c \in Callers, NEW tm \in Timers, CancelTimer(c, tm)
      PROVE  CancelsAreOld' /\ NoCallbackAfterCancel'
  BY <1>2 DEF CancelTimer, CallOf, loopVars, CancelsAreOld, NoCallbackAfterCancel, TypeOK
<1>3. ASSUME NEW c \in Callers, Unschedule(c)
      PROVE  CancelsAreOld' /\ NoCallbackAfterCancel'
  <2>1. call[c].timer \in Timers
    BY <1>3 DEF Unschedule, UnscheduleWhen, WellFormed
  <2>2. dispatch'.at # "callback"
    BY <1>3 DEF Unschedule, UnscheduleWhen, MutexFree, Asleep, loopVars
  <2> QED BY <1>3, <2>1, <2>2 DEF Unschedule, UnscheduleWhen, CancelsAreOld,
                                  NoCallbackAfterCancel, TypeOK
<1>4. ASSUME NEW c \in Callers, Schedule(c) \/ Notify(c)
      PROVE  CancelsAreOld' /\ NoCallbackAfterCancel'
  BY <1>4 DEF Schedule, ScheduleWhen, Notify, NoCall, timerVars, loopVars, CancelsAreOld,
              NoCallbackAfterCancel, TypeOK
<1>5. CASE Fire
  <2> DEFINE tm == firing.timer
  <2>1. tm \in Timers
    BY <1>5 DEF Fire, WellFormed
  <2>2. CASE active[tm]
    <3>1. /\ quiet' = quiet /\ arming' = arming /\ call' = call
          /\ \A u \in Timers : active'[u] => active[u]
          /\ firing'.timer = tm /\ firing'.arming = arming[tm]
      BY <1>5, <2>1, <2>2 DEF Fire, TypeOK
    <3>2. CancelsAreOld'
      BY <3>1 DEF CancelsAreOld
    <3> QED BY <2>1, <2>2, <3>1, <3>2 DEF CancelsAreOld, NoCallbackAfterCancel
  <2>3. CASE ~active[tm]
    BY <1>5, <2>3 DEF Fire, GoTo, CancelsAreOld, NoCallbackAfterCancel
  <2> QED BY <2>2, <2>3
<1>6. ASSUME UNCHANGED timerVars, UNCHANGED call,
             dispatch'.at # "callback" \/ UNCHANGED <<dispatch, firing>>
      PROVE  CancelsAreOld' /\ NoCallbackAfterCancel'
  BY <1>6 DEF timerVars, CancelsAreOld, NoCallbackAfterCancel
<1>7. CASE \/ Loop \/ EndOfScan \/ WakeDue \/ Callback \/ Erase \/ EndOfCheck
           \/ WakeEmpty \/ WakeEarly \/ Shutdown \/ Tick \/ UNCHANGED vars
           \/ \E tm \in Timers : ScanOne(tm) \/ Check(tm)
  <2>1. UNCHANGED timerVars /\ UNCHANGED call
    BY <1>7 DEF Loop, EndOfScan, WakeDue, Callback, Erase, EndOfCheck, WakeEmpty,
                WakeEarly, Shutdown, Tick, vars, ScanOne, Check
  <2>2. dispatch'.at # "callback" \/ UNCHANGED <<dispatch, firing>>
    BY <1>7 DEF Loop, EndOfScan, WakeDue, Callback, Erase, EndOfCheck, WakeEmpty,
                WakeEarly, Shutdown, Tick, vars, ScanOne, Check, GoTo, loopVars
  <2> QED BY <1>6, <2>1, <2>2
<1> QED
  BY <1>1, <1>2, <1>3, <1>4, <1>5, <1>7 DEF Next, Export, ExportStep, DispatchStep

\* Once NtCancelTimer has returned, the dispatch thread runs no callback of an
\* arming that it cancelled, whoever else sets and cancels the timer.
THEOREM CancelIsFinal == Spec => []NoCallbackAfterCancel
<1> DEFINE Inv == TypeOK /\ WellFormed /\ CancelsAreOld /\ NoCallbackAfterCancel
<1>1. Init => Inv
  BY InitType DEF Init, WellFormed, NoCall, At, CancelsAreOld, NoCallbackAfterCancel
<1>2. Inv /\ [Next]_vars => Inv'
  BY NextType, NextCancels
<1> QED BY <1>1, <1>2, PTL DEF Spec

-----------------------------------------------------------------------------
(* An armed timer is pending, when one thread sets and cancels it.         *)

SingleUser == \A tm \in Timers : \A c, d \in Users[tm] : c = d

\* A timer that an export is about to take off pending_ has not been set since.
UnscheduledIsInactive ==
  \A c \in Callers : call[c].op = "unschedule" => ~active[call[c].timer]

\* A timer that the dispatch thread is about to take off pending_ is not to
\* fire, or has been set again and is about to be put back.
ErasedIsNotOwed ==
  dispatch.at \in {"callback", "erase"} /\ ~firing.rearmed /\ owed[firing.timer] =>
    BeingScheduled(firing.timer)

LEMMA NextArmed ==
  ASSUME SingleUser, TypeOK, WellFormed, ScanCovers, UnscheduledIsInactive,
         ErasedIsNotOwed, ArmedIsPending, [Next]_vars
  PROVE  UnscheduledIsInactive' /\ ErasedIsNotOwed' /\ ArmedIsPending'
<1> USE DEF At
<1>1. ASSUME NEW c \in Callers, NEW tm \in Timers,
             \/ \E delay \in Delays, p \in Periods \cup {None} : SetTimer(c, tm, delay, p)
             \/ CancelTimer(c, tm)
      PROVE  UnscheduledIsInactive' /\ ErasedIsNotOwed' /\ ArmedIsPending'
  <2>1. dispatch' = dispatch /\ pending' = pending /\ firing' = firing
    BY <1>1 DEF SetTimer, CancelTimer, loopVars
  <2>2. ArmedIsPending'
    BY <1>1, <2>1, ExportKeepsCovered DEF ArmedIsPending
  <2>3. ErasedIsNotOwed'
    BY <1>1, <2>1, ExportKeepsCovered DEF ErasedIsNotOwed, WellFormed
  <2>4. CASE CancelTimer(c, tm)
    <3>1. UnscheduledIsInactive'
      BY <2>4 DEF CancelTimer, CallOf, UnscheduledIsInactive, WellFormed, TypeOK
    <3> QED BY <2>2, <2>3, <3>1
  <2>5. ASSUME NEW delay \in Delays, NEW p \in Periods \cup {None},
               SetTimer(c, tm, delay, p)
        PROVE  UnscheduledIsInactive'
    <3>1. ASSUME NEW d \in Callers, call'[d].op = "unschedule"
          PROVE  ~active'[call'[d].timer]
      <4>1. d # c /\ call'[d] = call[d]
        <5>1. CASE delay > 0
          BY <2>5, <3>1, <5>1 DEF SetTimer, TypeOK
        <5>2. CASE ~(delay > 0)
          BY <2>5, <3>1, <5>2 DEF SetTimer, NoCall
        <5> QED BY <5>1, <5>2
      <4>2. call[d].timer \in Timers /\ d \in Users[call[d].timer]
        BY <3>1, <4>1 DEF WellFormed
      <4>3. call[d].timer # tm
        BY <2>5, <4>1, <4>2 DEF SetTimer, SingleUser
      <4>4. active'[call[d].timer] = active[call[d].timer]
        BY <2>5, <4>2, <4>3 DEF SetTimer, TypeOK
      <4> QED BY <3>1, <4>1, <4>4 DEF UnscheduledIsInactive
    <3> QED BY <3>1 DEF UnscheduledIsInactive
  <2> QED BY <1>1, <2>2, <2>3, <2>4, <2>5
<1>2. ASSUME NEW c \in Callers, Schedule(c)
      PROVE  UnscheduledIsInactive' /\ ErasedIsNotOwed' /\ ArmedIsPending'
  <2>1. /\ dispatch' = dispatch /\ dispatch.at \notin {"callback", "erase"}
        /\ pending' = pending \cup {call[c].timer} /\ owed' = owed /\ active' = active
    BY <1>2 DEF Schedule, ScheduleWhen, MutexFree, Asleep, timerVars, loopVars
  <2>2. UnscheduledIsInactive'
    BY <1>2, <2>1 DEF Schedule, ScheduleWhen, UnscheduledIsInactive, TypeOK
  <2>3. ArmedIsPending'
    <3>1. ASSUME NEW u \in Timers, BeingScheduled(u)
          PROVE  u = call[c].timer \/ BeingScheduled(u)'
      <4>1. PICK d \in Callers : call[d].op = "schedule" /\ call[d].timer = u
        BY <3>1 DEF BeingScheduled
      <4>2. CASE d # c
        BY <1>2, <4>1, <4>2 DEF Schedule, ScheduleWhen, BeingScheduled, TypeOK
      <4> QED BY <4>1, <4>2
    <3> QED BY <2>1, <3>1 DEF ArmedIsPending
  <2> QED BY <2>1, <2>2, <2>3 DEF ErasedIsNotOwed
<1>3. ASSUME NEW c \in Callers, Unschedule(c)
      PROVE  UnscheduledIsInactive' /\ ErasedIsNotOwed' /\ ArmedIsPending'
  <2>1. /\ dispatch' = dispatch /\ dispatch.at \notin {"callback", "erase"}
        /\ pending' = pending \ {call[c].timer} /\ owed' = owed /\ active' = active
    BY <1>3 DEF Unschedule, UnscheduleWhen, MutexFree, Asleep, loopVars
  <2>2. UnscheduledIsInactive'
    BY <1>3, <2>1 DEF Unschedule, UnscheduleWhen, UnscheduledIsInactive, TypeOK
  <2>3. call[c].timer \in Timers /\ ~owed[call[c].timer]
    BY <1>3 DEF Unschedule, UnscheduleWhen, UnscheduledIsInactive, WellFormed
  <2>4. \A u \in Timers : BeingScheduled(u) => BeingScheduled(u)'
    BY <1>3 DEF Unschedule, UnscheduleWhen, BeingScheduled, TypeOK
  <2>5. ArmedIsPending'
    BY <2>1, <2>3, <2>4 DEF ArmedIsPending
  <2> QED BY <2>1, <2>2, <2>5 DEF ErasedIsNotOwed
<1>4. ASSUME NEW c \in Callers, Notify(c)
      PROVE  UnscheduledIsInactive' /\ ErasedIsNotOwed' /\ ArmedIsPending'
  <2>1. \A u \in Timers : BeingScheduled(u) => BeingScheduled(u)'
    BY <1>4, StillScheduled DEF Notify
  <2> QED BY <1>4, <2>1 DEF Notify, NoCall, timerVars, loopVars, ArmedIsPending,
                ErasedIsNotOwed, UnscheduledIsInactive, WellFormed, TypeOK
<1>5. CASE EndOfScan
  <2>1. \A u \in Timers : BeingScheduled(u) => BeingScheduled(u)'
    BY <1>5 DEF EndOfScan, BeingScheduled
  <2>2. ArmedIsPending'
    <3>1. CASE earliest = None
      <4>1. \A u \in pending : owed[u] => BeingScheduled(u)
        BY <1>5, <3>1 DEF EndOfScan, ScanCovers, Covered
      <4> QED BY <1>5, <2>1, <3>1, <4>1 DEF EndOfScan, timerVars, ArmedIsPending
    <3>2. CASE earliest # None
      BY <1>5, <2>1, <3>2 DEF EndOfScan, timerVars, ArmedIsPending
    <3> QED BY <3>1, <3>2
  <2> QED BY <1>5, <2>2 DEF EndOfScan, GoTo, timerVars, UnscheduledIsInactive,
                            ErasedIsNotOwed
<1>6. CASE Fire
  <2> DEFINE tm == firing.timer
  <2>1. /\ tm \in Timers /\ pending' = pending /\ call' = call
        /\ \A u \in Timers : active'[u] => active[u]
        /\ \A u \in Timers : owed'[u] => owed[u]
    <3>1. tm \in Timers
      BY <1>6 DEF Fire, WellFormed
    <3>2. CASE active[tm]
      BY <1>6, <3>1, <3>2 DEF Fire, TypeOK
    <3>3. CASE ~active[tm]
      BY <1>6, <3>1, <3>3 DEF Fire
    <3> QED BY <3>2, <3>3, <3>1
  <2>2. UnscheduledIsInactive' /\ ArmedIsPending'
    BY <2>1 DEF UnscheduledIsInactive, ArmedIsPending, BeingScheduled, WellFormed
  <2>3. ErasedIsNotOwed'
    <3>1. CASE active[tm]
      <4>1. CASE period[tm] = None
        BY <1>6, <2>1, <3>1, <4>1 DEF Fire, ErasedIsNotOwed, TypeOK
      <4>2. CASE period[tm] # None
        <5>1. firing' = [timer |-> tm, arming |-> arming[tm], rearmed |-> TRUE]
          BY <1>6, <3>1, <4>2 DEF Fire
        <5> QED BY <5>1 DEF ErasedIsNotOwed
      <4> QED BY <4>1, <4>2
    <3>2. CASE ~active[tm]
      BY <1>6, <2>1, <3>2 DEF Fire, ErasedIsNotOwed, WellFormed
    <3> QED BY <3>1, <3>2
  <2> QED BY <2>2, <2>3
<1>7. CASE Erase
  BY <1>7 DEF Erase, EraseFired, GoTo, timerVars, UnscheduledIsInactive,
              ErasedIsNotOwed, ArmedIsPending, BeingScheduled
<1>8. ASSUME UNCHANGED <<timerVars, pending, call>>,
             \/ dispatch'.at \notin {"callback", "erase"}
             \/ dispatch.at \in {"callback", "erase"} /\ UNCHANGED firing
      PROVE  UnscheduledIsInactive' /\ ErasedIsNotOwed' /\ ArmedIsPending'
  BY <1>8 DEF timerVars, UnscheduledIsInactive, ErasedIsNotOwed, ArmedIsPending,
              BeingScheduled
<1>9. CASE \/ Loop \/ WakeDue \/ Callback \/ EndOfCheck \/ WakeEmpty \/ WakeEarly
           \/ Shutdown \/ Tick \/ UNCHANGED vars
           \/ \E tm \in Timers : ScanOne(tm) \/ Check(tm)
  <2>1. UNCHANGED <<timerVars, pending, call>>
    BY <1>9 DEF Loop, WakeDue, Callback, EndOfCheck, WakeEmpty, WakeEarly,
                Shutdown, Tick, vars, ScanOne, Check
  <2>2. \/ dispatch'.at \notin {"callback", "erase"}
        \/ dispatch.at \in {"callback", "erase"} /\ UNCHANGED firing
    BY <1>9 DEF Loop, WakeDue, Callback, EndOfCheck, WakeEmpty, WakeEarly,
                Shutdown, Tick, vars, ScanOne, Check, GoTo, loopVars
  <2> QED BY <1>8, <2>1, <2>2
<1> QED
  BY <1>1, <1>2, <1>3, <1>4, <1>5, <1>6, <1>7, <1>9
     DEF Next, Export, ExportStep, DispatchStep

\* If no two threads set or cancel the same timer, a timer set to a future
\* time is on pending_, or about to be, until it fires or is cancelled.  With
\* two threads it need not be: NtCancelTimer takes off what another thread's
\* NtSetTimerEx has just put there.
THEOREM ArmedTimersArePending == SingleUser => (Spec => []ArmedIsPending)
<1> SUFFICES ASSUME SingleUser PROVE Spec => []ArmedIsPending
  OBVIOUS
<1> DEFINE Inv ==
      /\ TypeOK /\ WellFormed /\ ScanCovers /\ NeverSleepsPastDue
      /\ UnscheduledIsInactive /\ ErasedIsNotOwed /\ ArmedIsPending
<1>1. Init => Inv
  BY InitType DEF Init, WellFormed, NoCall, At, ScanCovers, NeverSleepsPastDue,
                  Asleep, UnscheduledIsInactive, ErasedIsNotOwed, ArmedIsPending
<1>2. Inv /\ [Next]_vars => Inv'
  BY NextType, NextSleeps, NextArmed
<1> QED BY <1>1, <1>2, PTL DEF Spec
=============================================================================
