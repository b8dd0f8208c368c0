---------------------------- MODULE TimerDispatch ----------------------------
(***************************************************************************)
(* The dispatch of armed timers: NtSetTimerEx and NtCancelTimer on one     *)
(* side, the dispatch thread of TimerManager on the other                  *)
(* (src/kernel/synchronization/timer_manager.cpp, timer.cpp).              *)
(*                                                                         *)
(* A timer's due time and activity are guarded by the dispatcher lock,     *)
(* pending_ by TimerManager::mutex_.  An export changes the one and then   *)
(* the other; the dispatch thread holds mutex_ from when it wakes until it *)
(* sleeps again, its callbacks included, and takes the dispatcher lock for *)
(* each timer it looks at.  No caller keeps either lock over a step, so    *)
(* mutex_ is held exactly while the dispatch thread is awake.  What a      *)
(* firing does to the waits on the timer is in module Dispatcher.          *)
(***************************************************************************)
EXTENDS Integers

CONSTANTS
  Timers,
  Callers,       \* guest threads
  Users,         \* Timers: the callers that set and cancel the timer
  Delays,        \* relative due times, in milliseconds; 0 fires at once
  Periods,       \* periods, in milliseconds
  MaxTime,       \* bound: the last instant of the clock
  Armings,       \* bound: how often each of the timers is set
  None

ASSUME TimerAssumption ==
  /\ Users \in [Timers -> SUBSET Callers]
  /\ Delays \subseteq Nat /\ Periods \subseteq Nat \ {0}
  /\ MaxTime \in Nat /\ Armings \subseteq [Timers -> Nat]
  /\ None \notin Timers /\ None \notin Int

VARIABLES
  now,       \* steady_clock
  active,    \* Timers: active_
  due,       \* Timers: due_time_
  period,    \* Timers: period_ (None: one-shot)
  arming,    \* history, Timers: how often set() was called
  owed,      \* history, Timers: set to a future time, to fire yet
  fires,     \* history, Timers: firings since the last set(); 2 is two or more
  quiet,     \* history, Timers: the last arming whose cancellation is over
  pending,   \* pending_: the order only decides which of two due fires first
  dispatch,  \* dispatch_loop(): its place, and the timers the loop has left
  earliest,  \* dispatch_loop(): earliest_due
  clock,     \* dispatch_loop(): the time that it compares due times with
  firing,    \* dispatch_loop(): the timer it fires, and for which arming
  notified,  \* condition_ has been notified since the thread went to sleep
  call,      \* Callers: the export it is in
  stop       \* shutting_down_

timerVars == <<active, due, period, arming, owed, fires, quiet>>
loopVars == <<dispatch, earliest, clock, firing>>
vars == <<now, timerVars, pending, loopVars, notified, call, stop>>

NoCall == [op |-> "none", timer |-> None, arming |-> 0]
CallOf(op, tm) == [op |-> op, timer |-> tm, arming |-> arming[tm]]
NoFiring == [timer |-> None, arming |-> 0, rearmed |-> FALSE]

At(place) == dispatch.at = place
\* The dispatch thread waits on condition_ and has released mutex_.
Asleep == dispatch.at \in {"empty", "sleep"}
MutexFree == Asleep \/ At("exited")
GoTo(place, timers) == dispatch' = [at |-> place, todo |-> timers]

Init ==
  /\ now = 0
  /\ active = [tm \in Timers |-> FALSE]
  /\ due = [tm \in Timers |-> 0]
  /\ period = [tm \in Timers |-> None]
  /\ arming = [tm \in Timers |-> 0]
  /\ owed = [tm \in Timers |-> FALSE]
  /\ fires = [tm \in Timers |-> 0]
  /\ quiet = [tm \in Timers |-> 0]
  /\ pending = {}
  /\ dispatch = [at |-> "loop", todo |-> {}]
  /\ earliest = None
  /\ clock = 0
  /\ firing = NoFiring
  /\ notified = FALSE
  /\ call = [c \in Callers |-> NoCall]
  /\ stop = FALSE

-----------------------------------------------------------------------------
(* The exports.                                                            *)

\* NtSetTimerEx up to and including KernelTimer::set().
SetTimer(c, tm, delay, p) ==
  /\ call[c] = NoCall /\ c \in Users[tm] /\ ~stop
  /\ due' = [due EXCEPT ![tm] = now + delay]
  /\ period' = [period EXCEPT ![tm] = p]
  /\ active' = [active EXCEPT ![tm] = TRUE]
  /\ arming' = [arming EXCEPT ![tm] = @ + 1] /\ arming' \in Armings
  /\ owed' = [owed EXCEPT ![tm] = delay > 0]
  /\ fires' = [fires EXCEPT ![tm] = IF delay = 0 THEN 1 ELSE 0]
  /\ call' = IF delay > 0
               THEN [call EXCEPT ![c] = [op |-> "schedule", timer |-> tm,
                                         arming |-> arming[tm] + 1]]
               ELSE call
  /\ UNCHANGED <<now, quiet, pending, loopVars, notified, stop>>

\* TimerManager::schedule() under mutex_.
ScheduleWhen(c, free) ==
  /\ call[c].op = "schedule" /\ free
  /\ pending' = pending \cup {call[c].timer}
  /\ call' = [call EXCEPT ![c].op = "notify"]
  /\ UNCHANGED <<now, timerVars, loopVars, notified, stop>>
ScheduleAnyTime(c) == ScheduleWhen(c, TRUE)
Schedule(c) == ScheduleWhen(c, MutexFree)

\* NtCancelTimer up to and including KernelTimer::cancel().
CancelTimer(c, tm) ==
  /\ call[c] = NoCall /\ c \in Users[tm] /\ ~stop
  /\ active' = [active EXCEPT ![tm] = FALSE]
  /\ owed' = [owed EXCEPT ![tm] = FALSE]
  /\ call' = [call EXCEPT ![c] = CallOf("unschedule", tm)]
  /\ UNCHANGED <<now, due, period, arming, fires, quiet, pending, loopVars,
                 notified, stop>>

\* TimerManager::unschedule() under mutex_.
UnscheduleWhen(c, free) ==
  /\ call[c].op = "unschedule" /\ free
  /\ pending' = pending \ {call[c].timer}
  /\ quiet' = [quiet EXCEPT ![call[c].timer] = call[c].arming]
  /\ call' = [call EXCEPT ![c].op = "notify"]
  /\ UNCHANGED <<now, active, due, period, arming, owed, fires, loopVars,
                 notified, stop>>
UnscheduleAnyTime(c) == UnscheduleWhen(c, TRUE)
Unschedule(c) == UnscheduleWhen(c, MutexFree)

\* condition_.notify_all() after mutex_ is released: only a thread that waits
\* is woken.
Notify(c) ==
  /\ call[c].op = "notify"
  /\ notified' = (notified \/ Asleep)
  /\ call' = [call EXCEPT ![c] = NoCall]
  /\ UNCHANGED <<now, timerVars, pending, loopVars, stop>>

\* ~TimerManager() up to its notify_all(), when no export is under way: the
\* flag is set under mutex_.
Shutdown ==
  /\ ~stop /\ MutexFree /\ \A c \in Callers : call[c] = NoCall
  /\ stop' = TRUE
  /\ notified' = Asleep
  /\ UNCHANGED <<now, timerVars, pending, loopVars, call>>

Tick ==
  /\ now < MaxTime
  /\ now' = now + 1
  /\ UNCHANGED <<timerVars, pending, loopVars, notified, call, stop>>

-----------------------------------------------------------------------------
(* TimerManager::dispatch_loop().                                          *)

\* The head of the loop.
Loop ==
  /\ At("loop")
  /\ GoTo(IF stop THEN "exited" ELSE IF pending = {} THEN "empty" ELSE "scan",
          pending)
  /\ earliest' = None
  /\ notified' = FALSE
  /\ UNCHANGED <<now, timerVars, pending, clock, firing, call, stop>>

\* condition_.wait(lock, predicate) returns.
WakeEmpty ==
  /\ At("empty") /\ (stop \/ pending # {})
  /\ GoTo("loop", {})
  /\ UNCHANGED <<now, timerVars, pending, earliest, clock, firing, notified,
                 call, stop>>

LastOne(tm) == IF active[tm] THEN due[tm] ELSE earliest
\* next_due_time() of the next timer, for earliest_due.
Sooner(tm) ==
  IF active[tm] /\ (earliest = None \/ due[tm] < earliest) THEN due[tm] ELSE earliest
ScanOne(tm) ==
  /\ At("scan") /\ tm \in dispatch.todo
  /\ earliest' = Sooner(tm)
  /\ GoTo("scan", dispatch.todo \ {tm})
  /\ UNCHANGED <<now, timerVars, pending, clock, firing, notified, call, stop>>

\* Nothing to wait for, or condition_.wait_until(lock, *earliest_due) begins.
EndOfScan ==
  /\ At("scan") /\ dispatch.todo = {}
  /\ IF earliest = None
       THEN GoTo("loop", {}) /\ pending' = {}
       ELSE GoTo("sleep", {}) /\ pending' = pending
  /\ notified' = FALSE
  /\ UNCHANGED <<now, timerVars, earliest, clock, firing, call, stop>>

\* wait_until() returns before its deadline, notified or spuriously, or after
\* it: the clock decides which it reports.
WakeEarly ==
  /\ At("sleep") /\ now < earliest
  /\ GoTo(IF stop THEN "exited" ELSE "loop", {})
  /\ UNCHANGED <<now, timerVars, pending, earliest, clock, firing, notified,
                 call, stop>>
WakeDueStale ==
  /\ At("sleep") /\ now >= earliest
  /\ GoTo(IF stop THEN "exited" ELSE "check", pending)
  /\ UNCHANGED <<now, timerVars, pending, earliest, clock, firing, notified,
                 call, stop>>
WakeDue ==
  /\ At("sleep") /\ now >= earliest
  /\ GoTo(IF stop THEN "exited" ELSE "check", pending)
  /\ clock' = now
  /\ UNCHANGED <<now, timerVars, pending, earliest, firing, notified, call, stop>>

\* next_due_time() of the next timer, compared with the time that was read.
Check(tm) ==
  /\ At("check") /\ tm \in dispatch.todo
  /\ IF active[tm] /\ due[tm] <= clock
       THEN /\ GoTo("fire", dispatch.todo \ {tm})
            /\ firing' = [timer |-> tm, arming |-> arming[tm], rearmed |-> FALSE]
       ELSE /\ GoTo("check", dispatch.todo \ {tm})
            /\ UNCHANGED firing
  /\ UNCHANGED <<now, timerVars, pending, earliest, clock, notified, call, stop>>

\* KernelTimer::fire() under the dispatcher lock.
Fire ==
  LET tm == firing.timer IN
  /\ At("fire")
  /\ IF active[tm]
       THEN /\ GoTo("callback", dispatch.todo)
            /\ fires' = [fires EXCEPT ![tm] = IF @ = 0 THEN 1 ELSE 2]
            /\ due' = [due EXCEPT ![tm] = IF period[tm] = None THEN @ ELSE now + period[tm]]
            /\ active' = [active EXCEPT ![tm] = period[tm] # None]
            /\ owed' = [owed EXCEPT ![tm] = @ /\ period[tm] # None]
            /\ firing' = [timer |-> tm, arming |-> arming[tm],
                          rearmed |-> period[tm] # None]
       ELSE /\ GoTo("erase", dispatch.todo)
            /\ UNCHANGED <<fires, due, active, owed, firing>>
  /\ UNCHANGED <<now, period, arming, quiet, pending, earliest, clock, notified,
                 call, stop>>

\* The callback queues the APC of NtSetTimerEx, with mutex_ held.
Callback ==
  /\ At("callback")
  /\ GoTo("erase", dispatch.todo)
  /\ UNCHANGED <<now, timerVars, pending, earliest, clock, firing, notified,
                 call, stop>>

EraseAll == pending \ {firing.timer}
EraseFired == IF firing.rearmed THEN pending ELSE pending \ {firing.timer}
Erase ==
  /\ At("erase")
  /\ pending' = EraseFired
  /\ firing' = NoFiring
  /\ GoTo("check", dispatch.todo)
  /\ UNCHANGED <<now, timerVars, earliest, clock, notified, call, stop>>

EndOfCheck ==
  /\ At("check") /\ dispatch.todo = {}
  /\ GoTo("loop", {})
  /\ UNCHANGED <<now, timerVars, pending, earliest, clock, firing, notified,
                 call, stop>>

-----------------------------------------------------------------------------
Export(c) ==
  \/ \E tm \in Timers, delay \in Delays, p \in Periods \cup {None} :
       SetTimer(c, tm, delay, p)
  \/ \E tm \in Timers : CancelTimer(c, tm)

ExportStep(c) == Schedule(c) \/ Unschedule(c) \/ Notify(c)

DispatchStep ==
  \/ Loop \/ EndOfScan \/ WakeDue \/ Fire \/ Callback \/ Erase \/ EndOfCheck
  \/ \E tm \in Timers : ScanOne(tm) \/ Check(tm)

Next ==
  \/ \E c \in Callers : Export(c) \/ ExportStep(c)
  \/ DispatchStep \/ WakeEmpty \/ WakeEarly
  \/ Shutdown \/ Tick

Spec == Init /\ [][Next]_vars

(***************************************************************************)
(* The dispatch thread runs whenever it is awake, and it wakes when it is  *)
(* notified or its deadline passes; time passes; an export that has begun  *)
(* gets mutex_ each time the dispatch thread sleeps, in the end (strong    *)
(* fairness: the host's mutex does not starve it).  No export is forced.   *)
(***************************************************************************)
Fairness ==
  /\ WF_vars(DispatchStep)
  /\ WF_vars(notified /\ (WakeEmpty \/ WakeEarly))
  /\ WF_vars(Tick)
  /\ \A c \in Callers : SF_vars(Schedule(c) \/ Unschedule(c)) /\ WF_vars(Notify(c))

FairSpec == Spec /\ Fairness

-----------------------------------------------------------------------------
(* What is shown.                                                          *)

\* Every variable has the type of the code's field.
TypeOK ==
  /\ now \in 0..MaxTime
  /\ active \in [Timers -> BOOLEAN] /\ owed \in [Timers -> BOOLEAN]
  /\ due \in [Timers -> Nat] /\ period \in [Timers -> Periods \cup {None}]
  /\ arming \in [Timers -> Nat] /\ quiet \in [Timers -> Nat]
  /\ fires \in [Timers -> 0..2]
  /\ pending \in SUBSET Timers
  /\ dispatch \in [at: {"loop", "empty", "scan", "sleep", "check", "fire",
                        "callback", "erase", "exited"},
                   todo: SUBSET Timers]
  /\ earliest \in Nat \cup {None} /\ clock \in Nat
  /\ firing \in [timer: Timers \cup {None}, arming: Nat, rearmed: BOOLEAN]
  /\ notified \in BOOLEAN /\ stop \in BOOLEAN
  /\ call \in [Callers -> [op: {"none", "schedule", "unschedule", "notify"},
                           timer: Timers \cup {None}, arming: Nat]]

\* An export is about to put tm on pending_.
BeingScheduled(tm) ==
  \E c \in Callers : call[c].op = "schedule" /\ call[c].timer = tm

\* An export is about to wake the dispatch thread.
BeingNotified == \E c \in Callers : call[c].op = "notify"

\* A timer that was set to a future time and has yet to fire is on pending_,
\* or the export that set it is about to put it there (NtSetTimerEx against
\* fire(), the erasure after it and pending_.clear()).
ArmedIsPending ==
  \A tm \in Timers : owed[tm] => tm \in pending \/ BeingScheduled(tm)

\* The dispatch thread does not sleep past a due time: while it sleeps, no
\* timer on pending_ is due before the time it sleeps until, unless it has
\* been notified or an export is about to notify it (dispatch_loop() against
\* a re-arm to an earlier time).
NeverSleepsPastDue ==
  Asleep /\ ~notified /\ ~BeingNotified =>
    \A tm \in pending : owed[tm] =>
      BeingScheduled(tm) \/ (At("sleep") /\ earliest <= due[tm])

\* Once NtCancelTimer has returned, the callback of an arming that it
\* cancelled does not run on the dispatch thread: unschedule() waits for a
\* firing under way, because dispatch_loop() keeps mutex_ across fire().
NoCallbackAfterCancel ==
  At("callback") => quiet[firing.timer] < firing.arming

\* A timer set to a future time fires, is set again or is cancelled: neither a
\* notification nor the timer is lost.  A periodic timer's due time moves on
\* with each firing.
ArmedTimerFires ==
  \A tm \in Timers : \A d \in 0..MaxTime :
    (owed[tm] /\ due[tm] = d /\ ~stop) ~> (~owed[tm] \/ due[tm] # d \/ stop)

\* The dispatch thread does what others wait for: an armed timer fires, is set
\* again or is cancelled, and ~TimerManager() can join it, in whichever of its
\* two waits the notifications find it.
DispatchServes == ArmedTimerFires /\ (stop ~> At("exited"))

\* "Only TimerManager's dispatch thread calls this, at the timer's actual due
\* time" (fire(), timer.hpp): the due time was checked before, and set() may
\* have moved it since.
FiresAtDueTime ==
  [][\A tm \in Timers : At("fire") /\ firing.timer = tm /\ fires'[tm] # fires[tm]
       => due[tm] <= now]_vars

\* "r9 = period in milliseconds (0 = one-shot)" (NtSetTimerEx): a timer set
\* without a period fires once.
OneShotFiresOnce ==
  \A tm \in Timers : period[tm] = None => fires[tm] <= 1

=============================================================================
