------------------------------ MODULE Dispatcher ------------------------------
(***************************************************************************)
(* The kernel's dispatcher: the waitable objects (events, semaphores,      *)
(* mutants, timers, threads), the waits registered on them, and the        *)
(* protocol between a waiter and the threads that signal, terminate, alert *)
(* or queue an APC to it (src/kernel/synchronization/wait.cpp and the      *)
(* object classes of include/xenon/kernel).                                *)
(*                                                                         *)
(* One dispatcher lock guards the objects and the registration of waits.   *)
(* A critical section that only reads and writes is one step; a signal,    *)
(* which walks the object's wait list, is one step for the change, one per *)
(* block visited and one to leave, with the lock held in between.  What    *)
(* the waiter reads without the lock (its thread's termination, alert and  *)
(* APC flags) interleaves with all of that.                                *)
(*                                                                         *)
(* Every wait registers on all its objects in one critical section, so the *)
(* order of every object's list is the order of registration: ahead[t] is  *)
(* the set of waits registered before t's and still registered, and the    *)
(* list of object o is the waits that name o in that order.                *)
(***************************************************************************)
EXTENDS Integers, Sequences, FiniteSets

CONSTANTS
  Threads,               \* guest threads, each on a host thread of its own
  ManualEvents,          \* notification events (KernelEvent, manual_reset_)
  AutoEvents,            \* synchronization events
  Semaphores,
  Mutants,
  NotificationTimers,
  SynchronizationTimers,
  Mirrored,              \* events and semaphores that live in guest memory
  Limit,                 \* KernelSemaphore::maximum_count_
  GuestValues,           \* SignalState values the guest stores directly
  Requests,              \* Threads: the waits that the thread makes
  MaxRecursion,          \* bound: how deep a thread acquires a mutant
  Terminates,            \* bound: the threads that are terminated,
  Alerts,                \*        alerted,
  Apcs,                  \*        queued an APC to,
  Delays,                \*        that delay,
  Exits,                 \*        that return from their entry
  None                   \* no thread, no object

Events == ManualEvents \cup AutoEvents
Timers == NotificationTimers \cup SynchronizationTimers
\* The objects whose state is a SignalState: 0 or 1, or a semaphore's count.
Counted == Events \cup Semaphores \cup Timers
\* A satisfied wait consumes nothing from these.
Latched == ManualEvents \cup NotificationTimers
Objects == Counted \cup Mutants \cup Threads

LimitOf(o) == IF o \in Semaphores THEN Limit[o] ELSE 1

Timeouts == {"zero", "finite", "infinite"}

\* The arguments of wait_for_objects_after(): objects in index order, and the
\* object signalled first (None for a wait without a signal).
WaitRequest ==
  [objects: Seq(Objects), all: BOOLEAN, alertable: BOOLEAN,
   timeout: Timeouts, signal: Events \cup Semaphores \cup Mutants \cup {None}]

\* A thread that is not waiting, and a delay, which waits for no object.
NoRequest ==
  [objects |-> <<>>, all |-> FALSE, alertable |-> FALSE,
   timeout |-> "infinite", signal |-> None]
DelayRequest(alertable) ==
  [objects |-> <<>>, all |-> FALSE, alertable |-> alertable,
   timeout |-> "finite", signal |-> None]

ASSUME ObjectsAssumption ==
  /\ None \notin Objects
  /\ Counted \cap Mutants = {} /\ Counted \cap Threads = {}
  /\ Mutants \cap Threads = {}
  /\ Events \cap Semaphores = {} /\ Events \cap Timers = {}
  /\ Semaphores \cap Timers = {}
  /\ ManualEvents \cap AutoEvents = {}
  /\ NotificationTimers \cap SynchronizationTimers = {}
  /\ Mirrored \subseteq Events \cup Semaphores

ASSUME LimitAssumption == Limit \in [Semaphores -> Nat \ {0}]

ASSUME RequestsAssumption ==
  /\ Requests \in [Threads -> SUBSET WaitRequest]
  /\ \A t \in Threads : \A r \in Requests[t] : r.objects # <<>>
  /\ GuestValues \subseteq Int
  /\ MaxRecursion \in Nat
  /\ Terminates \cup Alerts \cup Apcs \cup Delays \cup Exits \subseteq Threads

VARIABLES
  signal,      \* Counted: signaled_ (as 0 or 1) or count_
  mirror,      \* Mirrored: the SignalState word in guest memory
  guestWrote,  \* history: the words whose last store was the guest's
  owner,       \* Mutants: owner_thread_id_
  recursion,   \* Mutants: recursion_count_
  abandoned,   \* Mutants: abandoned_
  active,      \* Timers: active_
  terminated,  \* Threads: terminated_, which is what waits on a thread read
  alerted,     \* Threads: alerted_
  apc,         \* Threads: user_apc_pending_
  notify,      \* threads whose flag is set and whose notify_always() is due
  scan,        \* what the holder of the dispatcher lock is in the middle of
  pc,          \* Threads: where the thread is in its wait
  req,         \* Threads: the wait it makes
  ahead,       \* Threads: the waits registered before its own
  granted,     \* Threads: block.granted
  index,       \* Threads: block.index (from 1; 0 before the wait is satisfied)
  takeover,    \* Threads: block.abandoned
  woken,       \* Threads: block.wakeups # observed
  expired,     \* Threads: the deadline has passed
  outcome,     \* Threads: the WaitResult
  took         \* history: the objects consumed for the thread's wait

objectVars == <<signal, mirror, guestWrote, owner, recursion, abandoned, active>>
threadVars == <<terminated, alerted, apc, notify>>
grantVars == <<granted, index, takeover, took>>
waitVars == <<pc, req, ahead, woken, expired, outcome>>
vars == <<objectVars, threadVars, grantVars, waitVars, scan>>

Outcomes ==
  {"none", "Success", "Timeout", "Abandoned", "Terminating", "UserApc",
   "Alerted", "Failed"}

(***************************************************************************)
(* idle: in guest code; enter: about to take the dispatcher lock; locked:  *)
(* signalled with the lock still held; observe .. sleep: the steps of the  *)
(* wait loop; leave: about to unregister; done: the wait has returned to   *)
(* the export; delay, delayed: in delay_current_thread(); rundown: entry_()*)
(* has returned; exited: thread_main() is over.                            *)
(***************************************************************************)
LoopSteps == {"observe", "poll", "retry", "alerts", "sleep"}
Places ==
  {"idle", "enter", "locked", "leave", "done", "delay", "delayed", "rundown",
   "exited"}
    \cup LoopSteps

\* then: what follows the walk of obj's list, whose state was set to value.
\* who: the thread that holds the lock, where the thread matters.
NoScan ==
  [obj |-> None, value |-> 0, visited |-> {}, then |-> "store", who |-> None]
\* The lock is kept by a thread that signals and waits.
HeldBy(t) ==
  [obj |-> None, value |-> 0, visited |-> {}, then |-> "store", who |-> t]
ScanOf(o, value, then, who) ==
  [obj |-> o, value |-> value, visited |-> {}, then |-> then, who |-> who]
LockFree == scan = NoScan

Init ==
  /\ signal = [o \in Counted |-> 0]
  /\ mirror = [o \in Mirrored |-> 0]
  /\ guestWrote = {}
  /\ owner = [m \in Mutants |-> None]
  /\ recursion = [m \in Mutants |-> 0]
  /\ abandoned = [m \in Mutants |-> FALSE]
  /\ active = [tm \in Timers |-> FALSE]
  /\ terminated = [t \in Threads |-> FALSE]
  /\ alerted = [t \in Threads |-> FALSE]
  /\ apc = [t \in Threads |-> FALSE]
  /\ notify = {}
  /\ scan = NoScan
  /\ pc = [t \in Threads |-> "idle"]
  /\ req = [t \in Threads |-> NoRequest]
  /\ ahead = [t \in Threads |-> {}]
  /\ granted = [t \in Threads |-> FALSE]
  /\ index = [t \in Threads |-> 0]
  /\ takeover = [t \in Threads |-> FALSE]
  /\ woken = [t \in Threads |-> FALSE]
  /\ expired = [t \in Threads |-> FALSE]
  /\ outcome = [t \in Threads |-> "none"]
  /\ took = [t \in Threads |-> {}]

-----------------------------------------------------------------------------
(* Satisfying a wait.                                                      *)

ObjectsOf(t) == {req[t].objects[i] : i \in DOMAIN req[t].objects}

CanSatisfy(o, t) ==
  \/ o \in Counted /\ signal[o] > 0
  \/ o \in Mutants /\ (recursion[o] = 0 \/ owner[o] = t)
  \/ o \in Threads /\ terminated[o]

Satisfiable(t) ==
  IF req[t].all THEN \A o \in ObjectsOf(t) : CanSatisfy(o, t)
                ELSE \E o \in ObjectsOf(t) : CanSatisfy(o, t)

\* The index a satisfied wait reports: the lowest satisfiable one for a
\* WaitAny, the first for a WaitAll.
SatisfiedAt(t, i) ==
  /\ Satisfiable(t)
  /\ i \in DOMAIN req[t].objects
  /\ IF req[t].all
       THEN i = 1
       ELSE /\ CanSatisfy(req[t].objects[i], t)
            /\ \A j \in 1..(i - 1) : ~CanSatisfy(req[t].objects[j], t)

\* What try_satisfy_wait() consumes.
Satisfying(t, i) ==
  IF req[t].all THEN ObjectsOf(t) ELSE {req[t].objects[i]}

Consumed(o, S) == o \in S /\ o \notin Latched

Consume(t, S) ==
  /\ signal' = [o \in Counted |->
                  IF Consumed(o, S) THEN signal[o] - 1 ELSE signal[o]]
  /\ mirror' = [o \in Mirrored |->
                  IF Consumed(o, S) THEN signal[o] - 1 ELSE mirror[o]]
  /\ guestWrote' = {o \in guestWrote : ~Consumed(o, S)}
  /\ owner' = [m \in Mutants |->
                 IF m \in S /\ recursion[m] = 0 THEN t ELSE owner[m]]
  /\ recursion' = [m \in Mutants |->
                     IF m \in S THEN recursion[m] + 1 ELSE recursion[m]]
  /\ abandoned' = [m \in Mutants |->
                     abandoned[m] /\ ~(m \in S /\ recursion[m] = 0)]
  /\ took' = [took EXCEPT ![t] = S]
  /\ UNCHANGED active

TakesOver(S) == \E m \in S \cap Mutants : recursion[m] = 0 /\ abandoned[m]

\* try_satisfy_wait() followed by grant().
Grant(t) ==
  \E i \in DOMAIN req[t].objects :
    /\ SatisfiedAt(t, i)
    /\ Consume(t, Satisfying(t, i))
    /\ granted' = [granted EXCEPT ![t] = TRUE]
    /\ index' = [index EXCEPT ![t] = i]
    /\ takeover' = [takeover EXCEPT ![t] = TakesOver(Satisfying(t, i))]

SuccessOf(abandonedFlag) == IF abandonedFlag THEN "Abandoned" ELSE "Success"

-----------------------------------------------------------------------------
(* MultiWaitList::satisfy_waiters_locked(): the holder of the lock visits  *)
(* the blocks on scan.obj's list, oldest first.                            *)

Registered(t) == pc[t] \in LoopSteps \cup {"leave"}
WaitersOn(o) == {t \in Threads : Registered(t) /\ o \in ObjectsOf(t)}

\* Mutant: the walk takes the blocks in any order.
VisitInAnyOrder(t) == TRUE
\* The next block on the list: every older one has been visited.
VisitInOrder(t) == ahead[t] \cap WaitersOn(scan.obj) \subseteq scan.visited

\* Mutant: the walk stops after the first block, as notify_one() would.
ScanEndsAfterOne == WaitersOn(scan.obj) = {} \/ scan.visited # {}
ScanComplete == WaitersOn(scan.obj) \subseteq scan.visited

Wakeup(t) == woken' = [woken EXCEPT ![t] = TRUE]

Visit(t) ==
  /\ scan.obj # None
  /\ t \in WaitersOn(scan.obj) \ scan.visited
  /\ VisitInOrder(t)
  /\ scan' = [scan EXCEPT !.visited = @ \cup {t}]
  /\ IF ~granted[t] /\ Satisfiable(t)
       THEN Grant(t) /\ Wakeup(t)
       ELSE UNCHANGED <<objectVars, grantVars, woken>>
  /\ UNCHANGED <<threadVars, pc, req, ahead, expired, outcome>>

\* Mutant: pulse() does not store the state it leaves.
StoresMirrorUnlessPulsed(o) == o = scan.obj /\ scan.then = "store"
\* After the walk the SignalState mirror is stored; for a state adopted from
\* the guest, only if a waiter changed it.
StoresMirror(o) ==
  o = scan.obj /\ (scan.then = "adopt" => signal[o] # scan.value)

\* pulse() clears the event before that; a signal-and-wait keeps the lock.
EndScan ==
  /\ scan.obj # None
  /\ ScanComplete
  /\ signal' = [o \in Counted |-> IF scan.then = "clear" /\ o = scan.obj
                                    THEN 0 ELSE signal[o]]
  /\ mirror' = [o \in Mirrored |-> IF StoresMirror(o) THEN signal'[o] ELSE mirror[o]]
  /\ guestWrote' = {o \in guestWrote : ~StoresMirror(o)}
  /\ scan' = IF scan.then = "wait" THEN HeldBy(scan.who) ELSE NoScan
  /\ UNCHANGED <<owner, recursion, abandoned, active,
                 threadVars, grantVars, waitVars>>

-----------------------------------------------------------------------------
(* Signals, from any thread or from the host (a timer, audio, I/O).        *)

\* The state o is left in, and the walk of its list.
SignalAs(o, value, then, who) ==
  /\ signal' = [signal EXCEPT ![o] = value]
  /\ scan' = ScanOf(o, value, then, who)
  /\ UNCHANGED <<mirror, guestWrote, owner, recursion, abandoned>>

\* A state stored without waking anybody.
StoreAs(o, value) ==
  /\ signal' = [signal EXCEPT ![o] = value]
  /\ mirror' = [x \in Mirrored |-> IF x = o THEN value ELSE mirror[x]]
  /\ guestWrote' = guestWrote \ {o}
  /\ UNCHANGED <<owner, recursion, abandoned, scan>>

SetEvent(e) ==
  /\ LockFree
  /\ SignalAs(e, 1, "store", None)
  /\ UNCHANGED <<active, threadVars, grantVars, waitVars>>

PulseEvent(e) ==
  /\ LockFree
  /\ SignalAs(e, 1, "clear", None)
  /\ UNCHANGED <<active, threadVars, grantVars, waitVars>>

ResetEvent(e) ==
  /\ LockFree
  /\ StoreAs(e, 0)
  /\ UNCHANGED <<active, threadVars, grantVars, waitVars>>

\* A release that would exceed the limit changes nothing.
ReleaseSemaphore(s, n) ==
  /\ LockFree
  /\ n <= Limit[s] - signal[s]
  /\ SignalAs(s, signal[s] + n, "store", None)
  /\ UNCHANGED <<active, threadVars, grantVars, waitVars>>

Idle(t) == pc[t] = "idle" /\ scan.who # t

\* Ownership drops; the last release walks the list.
DropMutant(t, m, then) ==
  /\ owner[m] = t /\ recursion[m] > 0
  /\ recursion' = [recursion EXCEPT ![m] = @ - 1]
  /\ IF recursion[m] = 1
       THEN /\ owner' = [owner EXCEPT ![m] = None]
            /\ scan' = ScanOf(m, 0, then, t)
       ELSE /\ UNCHANGED owner
            /\ scan' = IF then = "wait" THEN HeldBy(t) ELSE NoScan
  /\ UNCHANGED <<signal, mirror, guestWrote, abandoned>>

ReleaseMutant(t, m) ==
  /\ Idle(t) /\ LockFree
  /\ DropMutant(t, m, "store")
  /\ UNCHANGED <<active, threadVars, grantVars, waitVars>>

\* KernelTimer::set() without a routine; a due time of zero fires in place.
SetTimer(tm, immediate) ==
  /\ LockFree
  /\ active' = [active EXCEPT ![tm] = TRUE]
  /\ IF immediate THEN SignalAs(tm, 1, "store", None) ELSE StoreAs(tm, 0)
  /\ UNCHANGED <<threadVars, grantVars, waitVars>>

CancelTimer(tm) ==
  /\ LockFree
  /\ active[tm]
  /\ active' = [active EXCEPT ![tm] = FALSE]
  /\ StoreAs(tm, 0)
  /\ UNCHANGED <<threadVars, grantVars, waitVars>>

\* KernelTimer::fire(): a periodic timer stays armed.
FireTimer(tm, periodic) ==
  /\ LockFree
  /\ active[tm]
  /\ active' = [active EXCEPT ![tm] = periodic]
  /\ SignalAs(tm, 1, "store", None)
  /\ UNCHANGED <<threadVars, grantVars, waitVars>>

\* The guest stores into an object's SignalState word behind the kernel's back.
GuestStore(o, v) ==
  /\ mirror' = [mirror EXCEPT ![o] = v]
  /\ guestWrote' = guestWrote \cup {o}
  /\ UNCHANGED <<signal, owner, recursion, abandoned, active, scan,
                 threadVars, grantVars, waitVars>>

\* The state a guest-written word stands for: for an event, any nonzero value
\* is signalled.
GuestState(o) ==
  IF o \in Semaphores THEN mirror[o] ELSE IF mirror[o] = 0 THEN 0 ELSE 1

\* Mutant: only a negative count is rejected.
AdoptableUnbounded(o) == GuestState(o) >= 0
Adoptable(o) == GuestState(o) \in 0..LimitOf(o)

\* reconcile_with_guest_state(), at the start of every Ke* export.  A count
\* out of range is rejected and changes nothing.
Reconcile(o) ==
  /\ LockFree
  /\ GuestState(o) # signal[o]
  /\ Adoptable(o)
  /\ IF o \in Events /\ GuestState(o) = 0
       THEN /\ signal' = [signal EXCEPT ![o] = 0]
            /\ UNCHANGED <<mirror, guestWrote, owner, recursion, abandoned, scan>>
       ELSE SignalAs(o, GuestState(o), "adopt", None)
  /\ UNCHANGED <<active, threadVars, grantVars, waitVars>>

-----------------------------------------------------------------------------
(* The wait: wait_for_objects_after().                                     *)

End(t, result) ==
  /\ pc' = [pc EXCEPT ![t] = "done"]
  /\ outcome' = [outcome EXCEPT ![t] = result]

WithinRecursionBound(t, r) ==
  \A i \in DOMAIN r.objects :
    r.objects[i] \in Mutants /\ owner[r.objects[i]] = t =>
      recursion[r.objects[i]] < MaxRecursion

BeginWait(t, r) ==
  /\ Idle(t)
  /\ WithinRecursionBound(t, r)
  /\ req' = [req EXCEPT ![t] = r]
  /\ IF terminated[t]
       THEN End(t, "Terminating")
       ELSE /\ pc' = [pc EXCEPT ![t] = "enter"]
            /\ UNCHANGED outcome
  /\ UNCHANGED <<objectVars, threadVars, grantVars, ahead, woken, expired, scan>>

\* The signal half of NtSignalAndWaitForSingleObjectEx, under the lock.
EnterSignal(t) ==
  LET o == req[t].signal IN
  /\ pc[t] = "enter" /\ o # None
  /\ LockFree
  /\ \/ /\ o \in Events \cup Semaphores
        /\ o \in Semaphores => signal[o] < Limit[o]
        /\ SignalAs(o, IF o \in Events THEN 1 ELSE signal[o] + 1, "wait", t)
     \/ o \in Mutants /\ DropMutant(t, o, "wait")
  /\ pc' = [pc EXCEPT ![t] = "locked"]
  /\ UNCHANGED <<active, threadVars, grantVars, req, ahead, woken, expired, outcome>>

\* A full semaphore, or a mutant the thread does not own.
EnterSignalFails(t) ==
  LET o == req[t].signal IN
  /\ pc[t] = "enter" /\ o # None
  /\ LockFree
  /\ \/ o \in Semaphores /\ signal[o] >= Limit[o]
     \/ o \in Mutants /\ owner[o] # t
  /\ End(t, "Failed")
  /\ UNCHANGED <<objectVars, threadVars, grantVars, req, ahead, woken, expired, scan>>

\* Neither an alert nor an APC ends the wait.
Undisturbed(t) == req[t].alertable => ~alerted[t] /\ ~apc[t]

\* The immediate check and the registration, in one critical section.
EnterWait(t) ==
  /\ \/ pc[t] = "enter" /\ req[t].signal = None /\ LockFree
     \/ pc[t] = "locked" /\ scan = HeldBy(t)
  /\ scan' = NoScan
  /\ \/ \E i \in DOMAIN req[t].objects :
        /\ SatisfiedAt(t, i)
        /\ Consume(t, Satisfying(t, i))
        /\ index' = [index EXCEPT ![t] = i]
        /\ End(t, SuccessOf(TakesOver(Satisfying(t, i))))
        /\ UNCHANGED <<threadVars, granted, takeover, ahead>>
     \/ /\ ~Satisfiable(t)
        /\ req[t].alertable /\ alerted[t]
        /\ alerted' = [alerted EXCEPT ![t] = FALSE]
        /\ End(t, "Alerted")
        /\ UNCHANGED <<objectVars, grantVars, terminated, apc, notify, ahead>>
     \/ /\ ~Satisfiable(t)
        /\ req[t].alertable /\ ~alerted[t] /\ apc[t]
        /\ End(t, "UserApc")
        /\ UNCHANGED <<objectVars, grantVars, threadVars, ahead>>
     \/ /\ ~Satisfiable(t)
        /\ Undisturbed(t)
        /\ req[t].timeout = "zero"
        /\ End(t, "Timeout")
        /\ UNCHANGED <<objectVars, grantVars, threadVars, ahead>>
     \/ /\ ~Satisfiable(t)
        /\ Undisturbed(t)
        /\ req[t].timeout # "zero"
        /\ ahead' = [ahead EXCEPT ![t] = {u \in Threads : Registered(u)}]
        /\ pc' = [pc EXCEPT ![t] = "observe"]
        /\ UNCHANGED <<objectVars, grantVars, threadVars, outcome>>
  /\ UNCHANGED <<req, woken, expired>>

Goto(t, place) == pc' = [pc EXCEPT ![t] = place]

\* The top of the loop: read granted and wakeups under the block's mutex.
Observe(t) ==
  /\ pc[t] = "observe"
  /\ IF granted[t]
       THEN Goto(t, "leave") /\ UNCHANGED woken
       ELSE Goto(t, "poll") /\ woken' = [woken EXCEPT ![t] = FALSE]
  /\ UNCHANGED <<objectVars, threadVars, grantVars, req, ahead, expired, outcome, scan>>

PollTerminated(t) ==
  /\ pc[t] = "poll"
  /\ IF terminated[t]
       THEN Goto(t, "leave") /\ outcome' = [outcome EXCEPT ![t] = "Terminating"]
       ELSE Goto(t, "retry") /\ UNCHANGED outcome
  /\ UNCHANGED <<objectVars, threadVars, grantVars, req, ahead, woken, expired, scan>>

\* A thread object's termination is read, not signalled: take it here.
Retry(t) ==
  /\ pc[t] = "retry"
  /\ LockFree
  /\ IF ~granted[t] /\ Satisfiable(t)
       THEN Grant(t) /\ Goto(t, "leave")
       ELSE UNCHANGED <<objectVars, grantVars>> /\ Goto(t, "alerts")
  /\ UNCHANGED <<threadVars, req, ahead, woken, expired, outcome, scan>>

\* Mutant: wakeups is observed here, after the checks, and not before them.
SleepObserving(t) == Goto(t, "sleep") /\ woken' = [woken EXCEPT ![t] = FALSE]
\* wakeups is compared with the value observed at the top of the loop.
Sleep(t) == Goto(t, "sleep") /\ UNCHANGED woken

\* alert_or_apc() and the deadline, outside the lock.
TestAlerts(t) ==
  /\ pc[t] = "alerts"
  /\ \/ /\ req[t].alertable /\ alerted[t]
        /\ alerted' = [alerted EXCEPT ![t] = FALSE]
        /\ outcome' = [outcome EXCEPT ![t] = "Alerted"]
        /\ Goto(t, "leave")
        /\ UNCHANGED <<terminated, apc, notify, woken>>
     \/ /\ req[t].alertable /\ ~alerted[t] /\ apc[t]
        /\ outcome' = [outcome EXCEPT ![t] = "UserApc"]
        /\ Goto(t, "leave")
        /\ UNCHANGED <<threadVars, woken>>
     \/ /\ Undisturbed(t)
        /\ IF expired[t]
             THEN /\ Goto(t, "leave")
                  /\ outcome' = [outcome EXCEPT ![t] = "Timeout"]
                  /\ UNCHANGED woken
             ELSE Sleep(t) /\ UNCHANGED outcome
        /\ UNCHANGED threadVars
  /\ UNCHANGED <<objectVars, grantVars, req, ahead, expired, scan>>

\* The condition variable: woken, or the deadline; either way loop once more.
Wake(t) ==
  /\ pc[t] = "sleep"
  /\ woken[t] \/ expired[t]
  /\ Goto(t, "observe")
  /\ UNCHANGED <<objectVars, threadVars, grantVars, req, ahead, woken, expired,
                 outcome, scan>>

\* Mutant: the reason to stop waiting wins over a late grant.
LeaveFirstReason(t) ==
  IF outcome[t] # "none" THEN outcome[t] ELSE SuccessOf(takeover[t])
\* A grant that came before the unregistration is what is reported.
LeaveResult(t) == IF granted[t] THEN SuccessOf(takeover[t]) ELSE outcome[t]

Leave(t) ==
  /\ pc[t] = "leave"
  /\ LockFree
  /\ ahead' = [u \in Threads |-> IF u = t THEN {} ELSE ahead[u] \ {t}]
  /\ End(t, LeaveResult(t))
  /\ UNCHANGED <<objectVars, threadVars, grantVars, req, woken, expired, scan>>

\* Back in the export, which runs the queued APCs after STATUS_USER_APC.
Return(t) ==
  /\ pc[t] = "done"
  /\ pc' = [pc EXCEPT ![t] = "idle"]
  /\ req' = [req EXCEPT ![t] = NoRequest]
  /\ granted' = [granted EXCEPT ![t] = FALSE]
  /\ index' = [index EXCEPT ![t] = 0]
  /\ takeover' = [takeover EXCEPT ![t] = FALSE]
  /\ took' = [took EXCEPT ![t] = {}]
  /\ woken' = [woken EXCEPT ![t] = FALSE]
  /\ expired' = [expired EXCEPT ![t] = FALSE]
  /\ outcome' = [outcome EXCEPT ![t] = "none"]
  /\ apc' = [apc EXCEPT ![t] = @ /\ outcome[t] # "UserApc"]
  /\ UNCHANGED <<objectVars, terminated, alerted, notify, ahead, scan>>

-----------------------------------------------------------------------------
(* delay_current_thread(): registered on the thread's own list only.       *)

DelayOutcome(t, alertable) ==
  IF terminated[t] THEN "Terminating"
  ELSE IF alertable /\ alerted[t] THEN "Alerted"
  ELSE IF alertable /\ apc[t] THEN "UserApc" ELSE "Success"

TakeAlertFor(t, result) ==
  alerted' = [alerted EXCEPT ![t] = @ /\ result # "Alerted"]

BeginDelay(t, alertable, positive) ==
  LET result == DelayOutcome(t, alertable) IN
  /\ Idle(t)
  /\ req' = [req EXCEPT ![t] = DelayRequest(alertable)]
  /\ IF result = "Success" /\ positive
       THEN /\ Goto(t, "delay")
            /\ woken' = [woken EXCEPT ![t] = TRUE]   \* test before sleeping
            /\ UNCHANGED <<outcome, alerted>>
       ELSE End(t, result) /\ TakeAlertFor(t, result) /\ UNCHANGED woken
  /\ UNCHANGED <<objectVars, terminated, apc, notify, grantVars, ahead, expired, scan>>

\* The condition variable's predicate, tested when woken and at the deadline.
DelayTest(t) ==
  /\ pc[t] = "delay"
  /\ woken[t] \/ expired[t]
  /\ IF DelayOutcome(t, req[t].alertable) # "Success" \/ expired[t]
       THEN Goto(t, "delayed") /\ UNCHANGED woken
       ELSE woken' = [woken EXCEPT ![t] = FALSE] /\ UNCHANGED pc
  /\ UNCHANGED <<objectVars, threadVars, grantVars, req, ahead, expired,
                 outcome, scan>>

\* The flags are read again to tell why the delay ended.
DelayEnd(t) ==
  LET result == DelayOutcome(t, req[t].alertable) IN
  /\ pc[t] = "delayed"
  /\ End(t, result) /\ TakeAlertFor(t, result)
  /\ UNCHANGED <<objectVars, terminated, apc, notify, grantVars, req, ahead,
                 woken, expired, scan>>

\* Time passes the deadline of a wait or delay.
Expire(t) ==
  /\ pc[t] \in LoopSteps \cup {"delay"}
  /\ req[t].timeout = "finite" /\ ~expired[t]
  /\ expired' = [expired EXCEPT ![t] = TRUE]
  /\ UNCHANGED <<objectVars, threadVars, grantVars, pc, req, ahead, woken,
                 outcome, scan>>

-----------------------------------------------------------------------------
(* Threads: termination, alerts, APCs and exit.  Each sets a flag and then *)
(* calls notify_always() on the thread's list.                             *)

Terminate(x) ==
  /\ ~terminated[x]
  /\ terminated' = [terminated EXCEPT ![x] = TRUE]
  /\ notify' = notify \cup {x}
  /\ UNCHANGED <<objectVars, alerted, apc, grantVars, waitVars, scan>>

Alert(x) ==
  /\ alerted' = [alerted EXCEPT ![x] = TRUE]
  /\ notify' = notify \cup {x}
  /\ UNCHANGED <<objectVars, terminated, apc, grantVars, waitVars, scan>>

\* KeTestAlertThread.
TestAlert(t) ==
  /\ Idle(t) /\ alerted[t]
  /\ alerted' = [alerted EXCEPT ![t] = FALSE]
  /\ UNCHANGED <<objectVars, terminated, apc, notify, grantVars, waitVars, scan>>

QueueUserApc(x) ==
  /\ apc' = [apc EXCEPT ![x] = TRUE]
  /\ notify' = notify \cup {x}
  /\ UNCHANGED <<objectVars, terminated, alerted, grantVars, waitVars, scan>>

\* KeRemoveQueueApc, of the last queued APC.
RemoveUserApc(x) ==
  /\ apc[x]
  /\ apc' = [apc EXCEPT ![x] = FALSE]
  /\ UNCHANGED <<objectVars, terminated, alerted, notify, grantVars, waitVars, scan>>

\* Mutant: a wait registers on its own thread only.
OnListOfSelf(t, x) ==
  t = x /\ (Registered(t) \/ pc[t] \in {"delay", "delayed"})
\* The blocks on thread x's list: the waits that name x, and x's own.
OnThreadList(t, x) ==
  \/ Registered(t) /\ (t = x \/ x \in ObjectsOf(t))
  \/ t = x /\ pc[t] \in {"delay", "delayed"}

NotifyAlways(x) ==
  /\ x \in notify
  /\ notify' = notify \ {x}
  /\ woken' = [t \in Threads |-> woken[t] \/ OnThreadList(t, x)]
  /\ UNCHANGED <<objectVars, terminated, alerted, apc, grantVars, pc, req,
                 ahead, expired, outcome, scan>>

\* entry_() returns.
Exit(t) ==
  /\ Idle(t)
  /\ Goto(t, "rundown")
  /\ UNCHANGED <<objectVars, threadVars, grantVars, req, ahead, woken, expired,
                 outcome, scan>>

\* abandon_mutants_owned_by_this_thread(), one mutant at a time.
AbandonMutant(t, m) ==
  /\ pc[t] = "rundown" /\ LockFree
  /\ owner[m] = t
  /\ abandoned' = [abandoned EXCEPT ![m] = TRUE]
  /\ owner' = [owner EXCEPT ![m] = None]
  /\ recursion' = [recursion EXCEPT ![m] = 0]
  /\ scan' = ScanOf(m, 0, "store", t)
  /\ UNCHANGED <<signal, mirror, guestWrote, active, threadVars, grantVars, waitVars>>

\* Mutant: the thread is signalled without its rundown.
MayOwnMutants(t) == TRUE
OwnsNothing(t) == \A m \in Mutants : owner[m] # t

\* The thread object is signalled, unless terminate() already did.
Finish(t) ==
  /\ pc[t] = "rundown" /\ scan.who # t
  /\ OwnsNothing(t)
  /\ Goto(t, "exited")
  /\ terminated' = [terminated EXCEPT ![t] = TRUE]
  /\ notify' = IF terminated[t] THEN notify ELSE notify \cup {t}
  /\ UNCHANGED <<objectVars, alerted, apc, grantVars, req, ahead, woken,
                 expired, outcome, scan>>

-----------------------------------------------------------------------------
(* A thread's own steps in a wait or delay, and in its rundown.            *)
WaitStep(t) ==
  \/ EnterSignal(t)
  \/ EnterSignalFails(t)
  \/ EnterWait(t)
  \/ Observe(t)
  \/ PollTerminated(t)
  \/ Retry(t)
  \/ TestAlerts(t)
  \/ Wake(t)
  \/ Leave(t)
  \/ Return(t)
  \/ DelayTest(t)
  \/ DelayEnd(t)

GuestStep(t) ==
  \/ \E r \in Requests[t] : BeginWait(t, r)
  \/ /\ t \in Delays
     /\ \E alertable, positive \in BOOLEAN : BeginDelay(t, alertable, positive)
  \/ \E m \in Mutants : ReleaseMutant(t, m)
  \/ TestAlert(t)
  \/ t \in Exits /\ Exit(t)

Rundown(t) ==
  \/ \E m \in Mutants : AbandonMutant(t, m)
  \/ Finish(t)

\* Signals, from whichever thread.
SignalStep ==
  \/ \E e \in Events : SetEvent(e) \/ PulseEvent(e) \/ ResetEvent(e)
  \/ \E s \in Semaphores : \E n \in 1..Limit[s] : ReleaseSemaphore(s, n)
  \/ \E tm \in Timers : \/ \E immediate \in BOOLEAN : SetTimer(tm, immediate)
                        \/ CancelTimer(tm)
                        \/ \E periodic \in BOOLEAN : FireTimer(tm, periodic)
  \/ \E o \in Mirrored : Reconcile(o) \/ \E v \in GuestValues : GuestStore(o, v)

\* What other threads do to a thread.
ThreadStep ==
  \/ \E x \in Terminates : Terminate(x)
  \/ \E x \in Alerts : Alert(x)
  \/ \E x \in Apcs : QueueUserApc(x) \/ RemoveUserApc(x)
  \/ \E x \in Threads : NotifyAlways(x)

Next ==
  \/ \E t \in Threads : WaitStep(t) \/ GuestStep(t) \/ Rundown(t) \/ Expire(t)
  \/ \E t \in Threads : Visit(t)
  \/ EndScan
  \/ SignalStep
  \/ ThreadStep

Spec == Init /\ [][Next]_vars

(***************************************************************************)
(* Every host thread runs until it blocks, the holder of the dispatcher    *)
(* lock releases it, a notify_always() that follows a flag is made, and    *)
(* deadlines pass.  A step that takes the dispatcher lock may find it held *)
(* over and over; that the host's mutex lets each contender in eventually  *)
(* is the strong fairness.  Nothing is assumed of guest code: no signal,   *)
(* wait or exit is forced.                                                 *)
(***************************************************************************)
Fairness ==
  /\ WF_vars(\E t \in Threads : Visit(t))
  /\ WF_vars(EndScan)
  /\ \A t \in Threads :
       /\ WF_vars(Observe(t) \/ PollTerminated(t) \/ TestAlerts(t) \/ Wake(t)
                    \/ Return(t) \/ DelayTest(t) \/ DelayEnd(t))
       /\ SF_vars(EnterSignal(t) \/ EnterSignalFails(t) \/ EnterWait(t)
                    \/ Retry(t) \/ Leave(t))
       /\ SF_vars(Rundown(t))
       /\ WF_vars(Expire(t))
       /\ WF_vars(NotifyAlways(t))

FairSpec == Spec /\ Fairness

-----------------------------------------------------------------------------
(* What is shown.                                                          *)

\* Every variable has the type the code gives it.  In particular no signal,
\* grant or guest-written SignalState takes a count below zero or above
\* maximum_count_ (KernelSemaphore::release_locked, satisfy_locked and
\* reconcile_with_guest_state).
TypeOK ==
  /\ signal \in [Counted -> Nat] /\ \A o \in Counted : signal[o] <= LimitOf(o)
  /\ mirror \in [Mirrored -> Int] /\ guestWrote \subseteq Mirrored
  /\ owner \in [Mutants -> Threads \cup {None}]
  /\ recursion \in [Mutants -> Nat]
  /\ abandoned \in [Mutants -> BOOLEAN]
  /\ active \in [Timers -> BOOLEAN]
  /\ terminated \in [Threads -> BOOLEAN]
  /\ alerted \in [Threads -> BOOLEAN]
  /\ apc \in [Threads -> BOOLEAN]
  /\ notify \subseteq Threads
  /\ scan \in [obj: Counted \cup Mutants \cup {None}, value: Nat,
               visited: SUBSET Threads,
               then: {"store", "clear", "adopt", "wait"},
               who: Threads \cup {None}]
  /\ pc \in [Threads -> Places]
  /\ req \in [Threads -> WaitRequest]
  /\ ahead \in [Threads -> SUBSET Threads]
  /\ granted \in [Threads -> BOOLEAN]
  /\ index \in [Threads -> Nat]
  /\ takeover \in [Threads -> BOOLEAN]
  /\ woken \in [Threads -> BOOLEAN]
  /\ expired \in [Threads -> BOOLEAN]
  /\ outcome \in [Threads -> Outcomes]
  /\ took \in [Threads -> SUBSET Objects]

\* Registered and not yet satisfied.
Waiting(t) == Registered(t) /\ ~granted[t]

\* A signal made under the dispatcher lock would satisfy t's wait.  The
\* termination of a thread is no such signal.
SignalSatisfiable(t) ==
  IF req[t].all
    THEN ObjectsOf(t) \cap Threads = {} /\ \A o \in ObjectsOf(t) : CanSatisfy(o, t)
    ELSE \E o \in ObjectsOf(t) \ Threads : CanSatisfy(o, t)

\* The walk of satisfy_waiters_locked() still has to come to t.
AwaitsVisit(t) == scan.obj # None /\ t \in WaitersOn(scan.obj) \ scan.visited

\* The dispatcher invariant (multi_wait_list.hpp, "a signalled object never
\* has a waiter it could satisfy"): every change that can satisfy a wait has
\* walked the list of the object it changed, so a wait that is registered and
\* that the walk in progress, if any, has passed is not satisfiable.  A wait
\* left satisfiable would sleep on a signal that has already been given.
NoMissedSignal ==
  \A t \in Threads : Waiting(t) /\ ~AwaitsVisit(t) => ~SignalSatisfiable(t)

\* What a wait reports is what was taken for it: success or abandonment
\* exactly when its objects (all of them, or the one at the reported index)
\* were consumed, nothing for a timeout, alert, APC, termination or failure,
\* whichever came first at the unregistration in wait_for_objects_after().
ResultMatchesTakes ==
  \A t \in Threads :
    pc[t] = "done" /\ req[t].objects # <<>> =>
      took[t] = IF outcome[t] \in {"Success", "Abandoned"}
                  THEN IF req[t].all THEN ObjectsOf(t)
                                     ELSE {req[t].objects[index[t]]}
                  ELSE {}

\* A mutant is owned exactly while it is held, never by a thread whose
\* thread_main() is over, and is marked abandoned only while it is free
\* (release_locked, satisfy_locked, abandon_mutants_owned_by_this_thread).
MutantOwnership ==
  \A m \in Mutants :
    /\ (owner[m] # None) <=> (recursion[m] > 0)
    /\ abandoned[m] => recursion[m] = 0
    /\ owner[m] # None => pc[owner[m]] # "exited"

\* The SignalState word of an object in guest memory is the object's state
\* whenever the dispatcher lock is free and the guest has not stored to the
\* word since the kernel last did (store_state_locked, satisfy_locked,
\* reconcile_with_guest_state): guest code that polls the word misses nothing.
MirrorCurrent ==
  LockFree => \A o \in Mirrored \ guestWrote : mirror[o] = signal[o]

\* t1 was in the line before t2: t2 is behind it, or not in the line at all.
Before(t1, t2) == t1 # t2 /\ (t1 \in ahead[t2] \/ ~Registered(t2))

\* o alone, or with the rest of a WaitAll, would satisfy t's wait.
EntitledTo(t, o) ==
  /\ Waiting(t) /\ o \in ObjectsOf(t)
  /\ CanSatisfy(o, t)
  /\ req[t].all => Satisfiable(t)

\* Signals go to the oldest waiter (MultiWaitList::satisfy_waiters_locked): no
\* step takes a signalled object for one wait past an older wait that it would
\* satisfy.  Waits for all of several objects, a thread among them, are left
\* out: the termination of a thread can make one satisfiable and walks no list.
NoOvertaking ==
  [][\A t1, t2 \in Threads : \A o \in took'[t2] \ (took[t2] \cup Threads) :
       Before(t1, t2) /\ (req[t1].all => ObjectsOf(t1) \cap Threads = {})
         => ~EntitledTo(t1, o)]_vars

\* An alert that ended a wait is reported by it: "an alert ends this thread's
\* next alertable wait or delay, which returns STATUS_ALERTED and clears it"
\* (thread.hpp).  The flag is cleared before the wait unregisters.
AlertIsReported ==
  [][\A t \in Threads :
       pc[t] = "leave" /\ outcome[t] = "Alerted" /\ pc'[t] = "done"
         => outcome'[t] = "Alerted"]_vars

\* A wait that a thread's end satisfied finds its mutants abandoned: "mutants
\* this thread still owns become abandoned before the thread is signalled"
\* (thread.cpp, thread_main).  terminate() signals it before its rundown.
SignalledThreadOwnsNothing ==
  \A t \in Threads : \A x \in took[t] \cap Threads :
    \A m \in Mutants : owner[m] # x

\* The thread's block has been notified, or a notify_always() that will notify
\* it is due.
WakeupDue(t) == woken[t] \/ \E x \in notify : OnThreadList(t, x)

\* No wakeup is lost between the tests of the wait loop and the sleep
\* (wait_for_objects_after): a thread asleep whose wait was granted, that was
\* terminated, alerted or queued an APC in an alertable wait, or whose wait is
\* satisfiable and not about to be visited by a walk, will be woken.
NoLostWakeup ==
  \A t \in Threads :
    /\ pc[t] = "sleep"
    /\ \/ granted[t] \/ terminated[t] \/ ~Undisturbed(t)
       \/ Satisfiable(t) /\ ~AwaitsVisit(t)
    => WakeupDue(t)

\* A wait that is satisfied returns, whoever satisfied it: a signaller granted
\* it under the dispatcher lock (grant() and the wait loop), or a thread that a
\* wait for any names has terminated, which nobody signals under the lock.
SatisfiedWaitReturns ==
  \A t \in Threads :
    (/\ Registered(t)
     /\ \/ granted[t]
        \/ ~req[t].all /\ \E x \in ObjectsOf(t) \cap Threads : terminated[x])
      ~> (pc[t] = "done")

\* A wait or delay that must be given up returns, whatever it waits for: its
\* thread was terminated, or alerted in an alertable wait, or it has a finite
\* timeout.  No wakeup is lost between the flag, notify_always() and the sleep.
GivenUpWaitReturns ==
  \A t \in Threads :
    (/\ Registered(t) \/ pc[t] \in {"enter", "delay", "delayed"}
     /\ \/ terminated[t]
        \/ alerted[t] /\ req[t].alertable
        \/ req[t].timeout = "finite")
      ~> (pc[t] = "done")

-----------------------------------------------------------------------------
(* Waits as their callers see them.  A wait is over when it is granted,     *)
(* although its thread still has to leave; a delay is no wait; what the     *)
(* holder of the lock owes is the wait that keeps it, or a pulse's clearing.*)

Phase(t) ==
  IF pc[t] \in {"enter", "locked"} THEN "called"
  ELSE IF Waiting(t) THEN "waiting"
  ELSE IF Registered(t) \/ (pc[t] = "done" /\ req[t].objects # <<>>) THEN "over" ELSE "idle"

Asked(t) == IF Phase(t) = "idle" THEN None ELSE req[t]

Line(t) == IF Waiting(t) THEN {u \in ahead[t] : Waiting(u)} ELSE {}

Result(t) ==
  IF Phase(t) # "over" THEN "none"
  ELSE IF pc[t] = "done" THEN outcome[t] ELSE SuccessOf(takeover[t])

Owed ==
  IF scan.obj # None /\ scan.then = "clear" THEN scan.obj
  ELSE IF scan.obj = None \/ scan.then = "wait" THEN scan.who ELSE None

Atomic == INSTANCE AtomicWait WITH
  Limits <- [o \in Counted |-> LimitOf(o)],
  phase  <- [t \in Threads |-> Phase(t)],
  ask    <- [t \in Threads |-> Asked(t)],
  line   <- [t \in Threads |-> Line(t)],
  result <- [t \in Threads |-> Result(t)],
  owed   <- Owed

\* A wait is atomic (wait_for_objects_after, satisfy_waiters_locked): what is
\* granted block by block, polled, and reported after a second look at the
\* block behaves as one step that takes the objects and fixes the result;
\* signals reach all the waits they satisfy, oldest first, before the next
\* operation; no wait is given up that a signal satisfies; a signal-and-wait
\* and a pulse let no other operation in between.
ImplementsAtomicWait == Atomic!Spec

=============================================================================
