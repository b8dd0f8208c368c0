-------------------------- MODULE DispatcherProofs --------------------------
(***************************************************************************)
(* Theorems about Dispatcher, for every set of threads, objects and waits. *)
(***************************************************************************)
EXTENDS Dispatcher, TLAPS

-----------------------------------------------------------------------------
(* What a wait that is satisfied takes.                                    *)

\* A wait registered or made by a thread names objects only, at indices that
\* are positive.
LEMMA RequestObjects ==
  ASSUME TypeOK, NEW t \in Threads
  PROVE  /\ ObjectsOf(t) \subseteq Objects
         /\ \A i \in DOMAIN req[t].objects : i \in Nat /\ req[t].objects[i] \in ObjectsOf(t)
  BY DEF TypeOK, WaitRequest, ObjectsOf

\* try_satisfy_wait() consumes only what it has found satisfiable.
LEMMA SatisfyingSatisfiable ==
  ASSUME TypeOK, NEW t \in Threads, NEW i, SatisfiedAt(t, i)
  PROVE  /\ Satisfying(t, i) \subseteq ObjectsOf(t)
         /\ \A o \in Satisfying(t, i) : CanSatisfy(o, t)
  BY RequestObjects DEF SatisfiedAt, Satisfying, Satisfiable

\* Consuming satisfiable objects keeps every count within its bounds.
LEMMA ConsumeType ==
  ASSUME TypeOK, NEW t \in Threads, NEW i, SatisfiedAt(t, i),
         Consume(t, Satisfying(t, i))
  PROVE  /\ signal' \in [Counted -> Nat] /\ \A o \in Counted : signal'[o] <= LimitOf(o)
         /\ mirror' \in [Mirrored -> Int] /\ guestWrote' \subseteq Mirrored
         /\ owner' \in [Mutants -> Threads \cup {None}]
         /\ recursion' \in [Mutants -> Nat]
         /\ abandoned' \in [Mutants -> BOOLEAN]
         /\ active' \in [Timers -> BOOLEAN]
         /\ took' \in [Threads -> SUBSET Objects]
  <1> DEFINE S == Satisfying(t, i)
  <1>1. S \subseteq Objects /\ \A o \in S : CanSatisfy(o, t)
    BY RequestObjects, SatisfyingSatisfiable
  <1>2. \A o \in Counted : o \notin Mutants /\ o \notin Threads
    BY ObjectsAssumption
  <1>3. \A o \in Counted : o \in S => signal[o] > 0
    BY <1>1, <1>2 DEF CanSatisfy
  <1>4. \A o \in Counted : LimitOf(o) \in Nat
    BY LimitAssumption DEF LimitOf
  <1>5. Mirrored \subseteq Counted
    BY ObjectsAssumption DEF Counted
  <1> HIDE DEF S
  <1>6. Consume(t, S)
    BY DEF S
  <1>7. signal' \in [Counted -> Nat] /\ \A o \in Counted : signal'[o] <= LimitOf(o)
    BY <1>3, <1>4, <1>6 DEF TypeOK, Consume, Consumed
  <1>8. mirror' \in [Mirrored -> Int] /\ guestWrote' \subseteq Mirrored
    BY <1>3, <1>5, <1>6 DEF TypeOK, Consume, Consumed
  <1>9. /\ owner' \in [Mutants -> Threads \cup {None}]
        /\ recursion' \in [Mutants -> Nat]
        /\ active' \in [Timers -> BOOLEAN]
        /\ took' \in [Threads -> SUBSET Objects]
    BY <1>1, <1>6 DEF TypeOK, Consume
  <1>10. abandoned' \in [Mutants -> BOOLEAN]
    BY <1>6 DEF TypeOK, Consume
  <1> QED
    BY <1>7, <1>8, <1>9, <1>10

LEMMA GrantType ==
  ASSUME TypeOK, NEW t \in Threads, Grant(t)
  PROVE  /\ signal' \in [Counted -> Nat] /\ \A o \in Counted : signal'[o] <= LimitOf(o)
         /\ mirror' \in [Mirrored -> Int] /\ guestWrote' \subseteq Mirrored
         /\ owner' \in [Mutants -> Threads \cup {None}]
         /\ recursion' \in [Mutants -> Nat]
         /\ abandoned' \in [Mutants -> BOOLEAN]
         /\ active' \in [Timers -> BOOLEAN]
         /\ took' \in [Threads -> SUBSET Objects]
         /\ granted' \in [Threads -> BOOLEAN]
         /\ index' \in [Threads -> Nat]
         /\ takeover' \in [Threads -> BOOLEAN]
  <1>1. PICK i \in DOMAIN req[t].objects :
          /\ SatisfiedAt(t, i)
          /\ Consume(t, Satisfying(t, i))
          /\ granted' = [granted EXCEPT ![t] = TRUE]
          /\ index' = [index EXCEPT ![t] = i]
          /\ takeover' = [takeover EXCEPT ![t] = TakesOver(Satisfying(t, i))]
    BY DEF Grant
  <1>2. i \in Nat
    BY RequestObjects
  <1>3. TakesOver(Satisfying(t, i)) \in BOOLEAN
    BY DEF TakesOver
  <1> QED
    BY <1>1, <1>2, <1>3, ConsumeType DEF TypeOK

-----------------------------------------------------------------------------
(* Type correctness.                                                       *)

LEMMA InitType == Init => TypeOK
  <1> SUFFICES ASSUME Init PROVE TypeOK
    OBVIOUS
  <1>1. NoRequest \in WaitRequest
    BY DEF NoRequest, WaitRequest, Timeouts
  <1>2. \A o \in Counted : 0 <= LimitOf(o)
    BY LimitAssumption DEF LimitOf
  <1> QED
    BY <1>1, <1>2 DEF Init, TypeOK, NoScan, Places, Outcomes


\* The values an action gives to pc, scan and req are of their types.
LEMMA ValueTypes ==
  /\ NoRequest \in WaitRequest
  /\ \A alertable \in BOOLEAN : DelayRequest(alertable) \in WaitRequest
  /\ \A o \in Counted : LimitOf(o) \in Nat /\ 1 <= LimitOf(o)
  /\ \A s \in Semaphores : LimitOf(s) = Limit[s] /\ s \in Counted
  /\ Events \subseteq Counted /\ Timers \subseteq Counted
  /\ Mirrored \subseteq Counted
  <1>1. NoRequest \in WaitRequest /\ \A alertable \in BOOLEAN : DelayRequest(alertable) \in WaitRequest
    BY DEF NoRequest, DelayRequest, WaitRequest, Timeouts
  <1>2. \A o \in Counted : LimitOf(o) \in Nat /\ 1 <= LimitOf(o)
    BY LimitAssumption DEF LimitOf
  <1> QED
    BY <1>1, <1>2, ObjectsAssumption DEF LimitOf, Counted

LEMMA SignalAsType ==
  ASSUME TypeOK, NEW o \in Counted, NEW v \in Nat, v <= LimitOf(o),
         NEW then \in {"store", "clear", "adopt", "wait"},
         NEW who \in Threads \cup {None}, SignalAs(o, v, then, who)
  PROVE  /\ signal' \in [Counted -> Nat] /\ \A x \in Counted : signal'[x] <= LimitOf(x)
         /\ scan' \in [obj: Counted \cup Mutants \cup {None}, value: Nat,
                       visited: SUBSET Threads,
                       then: {"store", "clear", "adopt", "wait"},
                       who: Threads \cup {None}]
  BY DEF TypeOK, SignalAs, ScanOf

LEMMA StoreAsType ==
  ASSUME TypeOK, NEW o \in Counted, NEW v \in Nat, v <= LimitOf(o), StoreAs(o, v)
  PROVE  /\ signal' \in [Counted -> Nat] /\ \A x \in Counted : signal'[x] <= LimitOf(x)
         /\ mirror' \in [Mirrored -> Int] /\ guestWrote' \subseteq Mirrored
  BY DEF TypeOK, StoreAs

LEMMA DropMutantType ==
  ASSUME TypeOK, NEW t \in Threads, NEW m \in Mutants,
         NEW then \in {"store", "wait"}, DropMutant(t, m, then)
  PROVE  /\ recursion' \in [Mutants -> Nat]
         /\ owner' \in [Mutants -> Threads \cup {None}]
         /\ scan' \in [obj: Counted \cup Mutants \cup {None}, value: Nat,
                       visited: SUBSET Threads,
                       then: {"store", "clear", "adopt", "wait"},
                       who: Threads \cup {None}]
  <1>1. recursion' \in [Mutants -> Nat]
    BY DEF TypeOK, DropMutant
  <1>2. CASE recursion[m] = 1
    BY <1>1, <1>2 DEF TypeOK, DropMutant, ScanOf
  <1>3. CASE recursion[m] # 1
    BY <1>1, <1>3 DEF TypeOK, DropMutant, HeldBy, NoScan
  <1> QED
    BY <1>2, <1>3

\* Every step keeps the types: one case per action.
LEMMA NextType == TypeOK /\ [Next]_vars => TypeOK'
  <1> SUFFICES ASSUME TypeOK, [Next]_vars PROVE TypeOK'
    OBVIOUS
  <1> USE ValueTypes
  <1>1. ASSUME NEW t \in Threads, Visit(t) PROVE TypeOK'
    BY <1>1, GrantType DEF TypeOK, objectVars, threadVars, grantVars, waitVars, Visit, Wakeup
  <1>2. ASSUME EndScan PROVE TypeOK'
    BY <1>2 DEF TypeOK, objectVars, threadVars, grantVars, waitVars, EndScan, NoScan, HeldBy, StoresMirror
  <1>3. ASSUME NEW e \in Events, SetEvent(e) PROVE TypeOK'
    BY <1>3, SignalAsType DEF TypeOK, objectVars, threadVars, grantVars, waitVars, SetEvent, SignalAs
  <1>4. ASSUME NEW e \in Events, PulseEvent(e) PROVE TypeOK'
    BY <1>4, SignalAsType DEF TypeOK, objectVars, threadVars, grantVars, waitVars, PulseEvent, SignalAs
  <1>5. ASSUME NEW e \in Events, ResetEvent(e) PROVE TypeOK'
    BY <1>5, StoreAsType DEF TypeOK, objectVars, threadVars, grantVars, waitVars, ResetEvent, StoreAs
  <1>6. ASSUME NEW s \in Semaphores, NEW n \in 1..Limit[s], ReleaseSemaphore(s, n) PROVE TypeOK'
    <2>1. signal[s] + n \in Nat /\ signal[s] + n <= LimitOf(s)
      BY <1>6, LimitAssumption DEF TypeOK, ReleaseSemaphore
    <2> QED
      BY <1>6, <2>1, SignalAsType DEF TypeOK, objectVars, threadVars, grantVars, waitVars, ReleaseSemaphore, SignalAs
  <1>7. ASSUME NEW t \in Threads, NEW m \in Mutants, ReleaseMutant(t, m) PROVE TypeOK'
    BY <1>7, DropMutantType DEF TypeOK, objectVars, threadVars, grantVars, waitVars, ReleaseMutant, DropMutant
  <1>8. ASSUME NEW tm \in Timers, NEW immediate \in BOOLEAN, SetTimer(tm, immediate) PROVE TypeOK'
    BY <1>8, SignalAsType, StoreAsType DEF TypeOK, objectVars, threadVars, grantVars, waitVars, SetTimer, SignalAs, StoreAs
  <1>9. ASSUME NEW tm \in Timers, CancelTimer(tm) PROVE TypeOK'
    BY <1>9, StoreAsType DEF TypeOK, objectVars, threadVars, grantVars, waitVars, CancelTimer, StoreAs
  <1>10. ASSUME NEW tm \in Timers, NEW periodic \in BOOLEAN, FireTimer(tm, periodic) PROVE TypeOK'
    BY <1>10, SignalAsType DEF TypeOK, objectVars, threadVars, grantVars, waitVars, FireTimer, SignalAs
  <1>11. ASSUME NEW o \in Mirrored, NEW v \in GuestValues, GuestStore(o, v) PROVE TypeOK'
    BY <1>11, RequestsAssumption DEF TypeOK, objectVars, threadVars, grantVars, waitVars, GuestStore
  <1>12. ASSUME NEW o \in Mirrored, Reconcile(o) PROVE TypeOK'
    <2>1. o \in Counted /\ GuestState(o) \in Nat /\ GuestState(o) <= LimitOf(o)
      BY <1>12 DEF Reconcile, Adoptable
    <2>2. CASE o \in Events /\ GuestState(o) = 0
      BY <1>12, <2>1, <2>2, SMTT(30) DEF TypeOK, objectVars, threadVars, grantVars, waitVars, Reconcile
    <2>3. CASE ~(o \in Events /\ GuestState(o) = 0)
      BY <1>12, <2>1, <2>3, SignalAsType DEF TypeOK, objectVars, threadVars, grantVars, waitVars, Reconcile, SignalAs
    <2> QED
      BY <2>2, <2>3
  <1>13. ASSUME NEW t \in Threads, NEW r \in Requests[t], BeginWait(t, r) PROVE TypeOK'
    BY <1>13, RequestsAssumption DEF TypeOK, objectVars, threadVars, grantVars, waitVars, BeginWait, End, Places, Outcomes
  <1>14. ASSUME NEW t \in Threads, EnterSignal(t) PROVE TypeOK'
    <2> DEFINE o == req[t].signal
    <2>1. CASE o \in Mutants /\ DropMutant(t, o, "wait")
      BY <1>14, <2>1, DropMutantType DEF TypeOK, objectVars, threadVars, grantVars, waitVars, EnterSignal, DropMutant, Places
    <2>2. CASE /\ o \in Events \cup Semaphores
               /\ o \in Semaphores => signal[o] < Limit[o]
               /\ SignalAs(o, IF o \in Events THEN 1 ELSE signal[o] + 1, "wait", t)
      <3> DEFINE v == IF o \in Events THEN 1 ELSE signal[o] + 1
      <3>1. o \in Counted /\ v \in Nat /\ v <= LimitOf(o)
        BY <2>2, LimitAssumption, ObjectsAssumption DEF TypeOK
      <3> HIDE DEF v
      <3>2. SignalAs(o, v, "wait", t)
        BY <2>2 DEF v
      <3> QED
        BY <1>14, <3>1, <3>2, SignalAsType DEF TypeOK, objectVars, threadVars, grantVars, waitVars, EnterSignal, SignalAs, Places
    <2> QED
      BY <1>14, <2>1, <2>2 DEF EnterSignal
  <1>15. ASSUME NEW t \in Threads, EnterSignalFails(t) PROVE TypeOK'
    BY <1>15 DEF TypeOK, objectVars, threadVars, grantVars, waitVars, EnterSignalFails, End, Places, Outcomes
  <1>16. ASSUME NEW t \in Threads, EnterWait(t) PROVE TypeOK'
    <2>1. scan' = NoScan /\ UNCHANGED <<req, woken, expired>>
      BY <1>16 DEF EnterWait
    <2>2. ASSUME NEW i \in DOMAIN req[t].objects, SatisfiedAt(t, i),
                 Consume(t, Satisfying(t, i)),
                 index' = [index EXCEPT ![t] = i],
                 End(t, SuccessOf(TakesOver(Satisfying(t, i)))),
                 UNCHANGED <<threadVars, granted, takeover, ahead>>
          PROVE  TypeOK'
      BY <2>1, <2>2, ConsumeType, RequestObjects
         DEF TypeOK, objectVars, threadVars, grantVars, waitVars, End, SuccessOf, Places, Outcomes, NoScan
    <2>3. ASSUME NEW result \in Outcomes, End(t, result),
                 alerted' \in [Threads -> BOOLEAN],
                 UNCHANGED <<objectVars, grantVars, terminated, apc, notify, ahead>>
          PROVE  TypeOK'
      BY <2>1, <2>3 DEF TypeOK, objectVars, threadVars, grantVars, waitVars, End, Places, NoScan
    <2>4. ASSUME ahead' = [ahead EXCEPT ![t] = {u \in Threads : Registered(u)}],
                 pc' = [pc EXCEPT ![t] = "observe"],
                 UNCHANGED <<objectVars, grantVars, threadVars, outcome>>
          PROVE  TypeOK'
      BY <2>1, <2>4 DEF TypeOK, objectVars, threadVars, grantVars, waitVars, Places, LoopSteps, NoScan
    <2>5. [alerted EXCEPT ![t] = FALSE] \in [Threads -> BOOLEAN] /\ alerted \in [Threads -> BOOLEAN]
      BY DEF TypeOK
    <2>6. "Alerted" \in Outcomes /\ "UserApc" \in Outcomes /\ "Timeout" \in Outcomes
      BY DEF Outcomes
    <2> QED
      BY <1>16, <2>2, <2>3, <2>4, <2>5, <2>6 DEF EnterWait, threadVars
  <1>17. ASSUME NEW t \in Threads, Observe(t) PROVE TypeOK'
    BY <1>17 DEF TypeOK, objectVars, threadVars, grantVars, waitVars, Observe, Goto, Places, LoopSteps, Outcomes
  <1>18. ASSUME NEW t \in Threads, PollTerminated(t) PROVE TypeOK'
    BY <1>18, SMTT(30) DEF TypeOK, objectVars, threadVars, grantVars, waitVars, PollTerminated, Goto, Places, LoopSteps, Outcomes
  <1>19. ASSUME NEW t \in Threads, Retry(t) PROVE TypeOK'
    BY <1>19, GrantType DEF TypeOK, objectVars, threadVars, grantVars, waitVars, Retry, Goto, Places, LoopSteps
  <1>20. ASSUME NEW t \in Threads, TestAlerts(t) PROVE TypeOK'
    <2>1. alerted' \in [Threads -> BOOLEAN] /\ outcome' \in [Threads -> Outcomes]
      <3>1. "Alerted" \in Outcomes /\ "UserApc" \in Outcomes /\ "Timeout" \in Outcomes
        BY DEF Outcomes
      <3>2. alerted' = alerted \/ alerted' = [alerted EXCEPT ![t] = FALSE]
        BY <1>20 DEF TestAlerts, threadVars
      <3>3. \/ outcome' = outcome
            \/ \E result \in Outcomes : outcome' = [outcome EXCEPT ![t] = result]
        BY <1>20, <3>1 DEF TestAlerts
      <3>4. alerted' \in [Threads -> BOOLEAN]
        BY <3>2 DEF TypeOK
      <3>5. outcome' \in [Threads -> Outcomes]
        BY <3>3 DEF TypeOK
      <3> QED
        BY <3>4, <3>5
    <2>2. pc' \in [Threads -> Places] /\ UNCHANGED <<woken, terminated, apc, notify>>
      BY <1>20 DEF TypeOK, TestAlerts, Sleep, Goto, threadVars, Places, LoopSteps
    <2> QED
      BY <1>20, <2>1, <2>2 DEF TypeOK, objectVars, threadVars, grantVars, waitVars, TestAlerts
  <1>21. ASSUME NEW t \in Threads, Wake(t) PROVE TypeOK'
    BY <1>21 DEF TypeOK, objectVars, threadVars, grantVars, waitVars, Wake, Goto, Places, LoopSteps
  <1>22. ASSUME NEW t \in Threads, Leave(t) PROVE TypeOK'
    BY <1>22 DEF TypeOK, objectVars, threadVars, grantVars, waitVars, Leave, End, LeaveResult, SuccessOf, Places, Outcomes
  <1>23. ASSUME NEW t \in Threads, Return(t) PROVE TypeOK'
    BY <1>23 DEF TypeOK, objectVars, threadVars, grantVars, waitVars, Return, Places, Outcomes
  <1>24. ASSUME NEW t \in Threads, NEW alertable \in BOOLEAN, NEW positive \in BOOLEAN, BeginDelay(t, alertable, positive) PROVE TypeOK'
    BY <1>24, ZenonT(30) DEF TypeOK, objectVars, threadVars, grantVars, waitVars, BeginDelay, End, Goto, TakeAlertFor, DelayOutcome, Places, Outcomes
  <1>25. ASSUME NEW t \in Threads, DelayTest(t) PROVE TypeOK'
    BY <1>25 DEF TypeOK, objectVars, threadVars, grantVars, waitVars, DelayTest, Goto, Places
  <1>26. ASSUME NEW t \in Threads, DelayEnd(t) PROVE TypeOK'
    BY <1>26 DEF TypeOK, objectVars, threadVars, grantVars, waitVars, DelayEnd, End, TakeAlertFor, DelayOutcome, Places, Outcomes
  <1>27. ASSUME NEW t \in Threads, Expire(t) PROVE TypeOK'
    BY <1>27 DEF TypeOK, objectVars, threadVars, grantVars, waitVars, Expire
  <1>28. ASSUME NEW t \in Threads, Terminate(t) PROVE TypeOK'
    BY <1>28 DEF TypeOK, objectVars, threadVars, grantVars, waitVars, Terminate
  <1>29. ASSUME NEW t \in Threads, Alert(t) PROVE TypeOK'
    BY <1>29 DEF TypeOK, objectVars, threadVars, grantVars, waitVars, Alert
  <1>30. ASSUME NEW t \in Threads, QueueUserApc(t) PROVE TypeOK'
    BY <1>30 DEF TypeOK, objectVars, threadVars, grantVars, waitVars, QueueUserApc
  <1>31. ASSUME NEW t \in Threads, RemoveUserApc(t) PROVE TypeOK'
    BY <1>31 DEF TypeOK, objectVars, threadVars, grantVars, waitVars, RemoveUserApc
  <1>32. ASSUME NEW t \in Threads, NotifyAlways(t) PROVE TypeOK'
    BY <1>32 DEF TypeOK, objectVars, threadVars, grantVars, waitVars, NotifyAlways, OnThreadList
  <1>33. ASSUME NEW t \in Threads, TestAlert(t) PROVE TypeOK'
    BY <1>33 DEF TypeOK, objectVars, threadVars, grantVars, waitVars, TestAlert
  <1>34. ASSUME NEW t \in Threads, Exit(t) PROVE TypeOK'
    BY <1>34 DEF TypeOK, objectVars, threadVars, grantVars, waitVars, Exit, Goto, Places
  <1>35. ASSUME NEW t \in Threads, NEW m \in Mutants, AbandonMutant(t, m) PROVE TypeOK'
    BY <1>35 DEF TypeOK, objectVars, threadVars, grantVars, waitVars, AbandonMutant, ScanOf
  <1>36. ASSUME NEW t \in Threads, Finish(t) PROVE TypeOK'
    BY <1>36 DEF TypeOK, objectVars, threadVars, grantVars, waitVars, Finish, Goto, Places
  <1>37. ASSUME UNCHANGED vars PROVE TypeOK'
    BY <1>37 DEF TypeOK, objectVars, threadVars, grantVars, waitVars, vars
  <1> QED
    BY <1>1, <1>2, <1>3, <1>4, <1>5, <1>6, <1>7, <1>8, <1>9, <1>10, <1>11, <1>12, <1>13, <1>14, <1>15, <1>16, <1>17, <1>18, <1>19, <1>20, <1>21, <1>22, <1>23, <1>24, <1>25, <1>26, <1>27, <1>28, <1>29, <1>30, <1>31, <1>32, <1>33, <1>34, <1>35, <1>36, <1>37, RequestsAssumption
       DEF Next, WaitStep, GuestStep, Rundown, SignalStep, ThreadStep

\* Every variable keeps its type and every count its bounds.
THEOREM TypeCorrect == Spec => []TypeOK
  BY InitType, NextType, PTL DEF Spec


-----------------------------------------------------------------------------
(* The dispatcher invariant.  NoMissedSignal is inductive together with     *)
(* TypeOK: a step either makes no wait satisfiable, or starts a walk that   *)
(* still has to come to every wait it may have made satisfiable.            *)

\* A wait becomes satisfiable by a signal only through one of its objects.
LEMMA SatisfiableByObject ==
  ASSUME NEW t \in Threads, req'[t] = req[t],
         \A o \in ObjectsOf(t) \ Threads : CanSatisfy(o, t)' => CanSatisfy(o, t),
         SignalSatisfiable(t)'
  PROVE  SignalSatisfiable(t)
  <1>1. ObjectsOf(t)' = ObjectsOf(t)
    BY DEF ObjectsOf
  <1>2. CASE req[t].all
    <2>1. ObjectsOf(t) \cap Threads = {} /\ \A o \in ObjectsOf(t) : CanSatisfy(o, t)'
      BY <1>1, <1>2 DEF SignalSatisfiable
    <2> QED
      BY <1>2, <2>1 DEF SignalSatisfiable
  <1>3. CASE ~req[t].all
    <2>1. PICK o \in ObjectsOf(t) \ Threads : CanSatisfy(o, t)'
      BY <1>1, <1>3 DEF SignalSatisfiable
    <2> QED
      BY <1>3, <2>1 DEF SignalSatisfiable
  <1> QED
    BY <1>2, <1>3

\* Taking objects for one wait makes none satisfiable for another.
LEMMA ConsumeSatisfiesNobody ==
  ASSUME TypeOK, NEW t \in Threads, NEW S, Consume(t, S),
         NEW u \in Threads, u # t, NEW o, o \notin Threads, CanSatisfy(o, u)'
  PROVE  CanSatisfy(o, u)
  <1>1. CASE o \in Counted
    BY <1>1, ObjectsAssumption DEF TypeOK, Consume, CanSatisfy
  <1>2. CASE o \in Mutants
    BY <1>2, ObjectsAssumption DEF TypeOK, Consume, CanSatisfy
  <1> QED
    BY <1>1, <1>2 DEF CanSatisfy

\* A step under which no wait appears, no object becomes satisfiable and no
\* walk passes a wait keeps the invariant.
LEMMA QuietStep ==
  ASSUME NoMissedSignal,
         \A t \in Threads : Waiting(t)' => Waiting(t) /\ req'[t] = req[t],
         \A t \in Threads : Waiting(t)' /\ AwaitsVisit(t) => AwaitsVisit(t)',
         \A t \in Threads : \A o : o \notin Threads /\ CanSatisfy(o, t)' => CanSatisfy(o, t)
  PROVE  NoMissedSignal'
  <1> SUFFICES ASSUME NEW t \in Threads, Waiting(t)', ~AwaitsVisit(t)', SignalSatisfiable(t)'
               PROVE  FALSE
    BY DEF NoMissedSignal
  <1>1. Waiting(t) /\ req'[t] = req[t] /\ ObjectsOf(t)' = ObjectsOf(t)
    BY DEF ObjectsOf
  <1>2. ~AwaitsVisit(t)
    OBVIOUS
  <1>3. SignalSatisfiable(t)
    BY <1>1, SatisfiableByObject
  <1> QED
    BY <1>1, <1>2, <1>3 DEF NoMissedSignal

\* A step that starts the walk of o's list and makes nothing else satisfiable
\* keeps the invariant.
LEMMA WalkStart ==
  ASSUME NoMissedSignal, scan.obj = None, NEW o, o # None,
         scan'.obj = o, scan'.visited = {},
         \A t \in Threads : Waiting(t)' => Waiting(t) /\ req'[t] = req[t],
         \A t \in Threads : \A x : x \notin Threads /\ x # o /\ CanSatisfy(x, t)' => CanSatisfy(x, t)
  PROVE  NoMissedSignal'
  <1> SUFFICES ASSUME NEW t \in Threads, Waiting(t)', ~AwaitsVisit(t)', SignalSatisfiable(t)'
               PROVE  FALSE
    BY DEF NoMissedSignal
  <1>1. Waiting(t) /\ req'[t] = req[t] /\ ObjectsOf(t)' = ObjectsOf(t)
    BY DEF ObjectsOf
  <1>2. o \notin ObjectsOf(t)
    BY <1>1 DEF AwaitsVisit, WaitersOn, Waiting
  <1>3. ~AwaitsVisit(t)
    BY DEF AwaitsVisit
  <1>4. SignalSatisfiable(t)
    BY <1>1, <1>2, SatisfiableByObject
  <1> QED
    BY <1>1, <1>3, <1>4 DEF NoMissedSignal


\* The same, for a step that changes no object and leaves the lock alone.
LEMMA WaitsOnlyStep ==
  ASSUME NoMissedSignal, UNCHANGED <<signal, owner, recursion, scan>>,
         \A t \in Threads : Waiting(t)' => Waiting(t) /\ req'[t] = req[t]
  PROVE  NoMissedSignal'
  <1>1. \A t \in Threads : Waiting(t)' /\ AwaitsVisit(t) => AwaitsVisit(t)'
    BY DEF AwaitsVisit, WaitersOn, Waiting, ObjectsOf
  <1>2. \A t \in Threads : \A o : o \notin Threads /\ CanSatisfy(o, t)' => CanSatisfy(o, t)
    BY DEF CanSatisfy
  <1> QED
    BY <1>1, <1>2, QuietStep

\* Waits are the same when the places, the requests and the grants are.
LEMMA SameWaits ==
  ASSUME UNCHANGED <<pc, req, granted>>
  PROVE  \A t \in Threads : Waiting(t)' => Waiting(t) /\ req'[t] = req[t]
  BY DEF Waiting, Registered

\* A signal: o is given a state and the walk of its list starts.
LEMMA SignalStarts ==
  ASSUME TypeOK, NoMissedSignal, LockFree, UNCHANGED <<pc, req, granted>>,
         NEW o \in Counted, NEW v, NEW then, NEW who, SignalAs(o, v, then, who)
  PROVE  NoMissedSignal'
  <1>1. scan.obj = None /\ o # None /\ scan'.obj = o /\ scan'.visited = {}
    BY ObjectsAssumption DEF LockFree, NoScan, SignalAs, ScanOf, Objects
  <1>2. \A t \in Threads : \A x : x \notin Threads /\ x # o /\ CanSatisfy(x, t)' => CanSatisfy(x, t)
    BY DEF TypeOK, SignalAs, CanSatisfy
  <1> QED
    BY <1>1, <1>2, SameWaits, WalkStart

\* Clearing an object satisfies nobody.
LEMMA ClearSatisfiesNobody ==
  ASSUME TypeOK, NoMissedSignal, UNCHANGED <<pc, req, granted, scan, owner, recursion>>,
         NEW o \in Counted, signal' = [signal EXCEPT ![o] = 0]
  PROVE  NoMissedSignal'
  <1>1. \A t \in Threads : \A x : x \notin Threads /\ CanSatisfy(x, t)' => CanSatisfy(x, t)
    BY DEF TypeOK, CanSatisfy
  <1>2. \A t \in Threads : Waiting(t)' /\ AwaitsVisit(t) => AwaitsVisit(t)'
    BY DEF AwaitsVisit, WaitersOn, Registered, ObjectsOf
  <1> QED
    BY <1>1, <1>2, SameWaits, QuietStep

\* Releasing a mutant: the last release starts the walk of its list, any other
\* leaves the mutant with its owner.
LEMMA DropStarts ==
  ASSUME TypeOK, NoMissedSignal, LockFree, NEW t \in Threads, NEW m \in Mutants,
         NEW then, DropMutant(t, m, then),
         \A u \in Threads : Waiting(u)' => Waiting(u) /\ req'[u] = req[u]
  PROVE  NoMissedSignal'
  <1>1. CASE recursion[m] = 1
    <2>1. scan.obj = None /\ m # None /\ scan'.obj = m /\ scan'.visited = {}
      BY <1>1, ObjectsAssumption DEF LockFree, NoScan, DropMutant, ScanOf, Objects
    <2>2. \A u \in Threads : \A x : x \notin Threads /\ x # m /\ CanSatisfy(x, u)' => CanSatisfy(x, u)
      BY <1>1 DEF TypeOK, DropMutant, CanSatisfy
    <2> QED
      BY <2>1, <2>2, WalkStart
  <1>2. CASE recursion[m] # 1
    <2>1. \A u \in Threads : \A x : x \notin Threads /\ CanSatisfy(x, u)' => CanSatisfy(x, u)
      BY <1>2 DEF TypeOK, DropMutant, CanSatisfy
    <2>2. \A u \in Threads : ~AwaitsVisit(u)
      BY DEF LockFree, NoScan, AwaitsVisit
    <2> QED
      BY <2>1, <2>2, QuietStep
  <1> QED
    BY <1>1, <1>2


LEMMA VisitKeeps ==
  ASSUME TypeOK, NoMissedSignal, NEW t \in Threads, Visit(t)
  PROVE  NoMissedSignal'
  <1> SUFFICES ASSUME NEW u \in Threads, Waiting(u)', ~AwaitsVisit(u)', SignalSatisfiable(u)'
               PROVE  FALSE
    BY DEF NoMissedSignal
  <1>1. UNCHANGED <<pc, req>> /\ scan' = [scan EXCEPT !.visited = @ \cup {t}]
    BY DEF Visit
  <1>2. Registered(u) /\ ObjectsOf(u)' = ObjectsOf(u) /\ ~granted'[u]
    BY <1>1 DEF Waiting, Registered, ObjectsOf
  <1>3. CASE ~granted[t] /\ Satisfiable(t)
    <2>1. granted' = [granted EXCEPT ![t] = TRUE] /\ \E S : Consume(t, S)
      BY <1>3 DEF Visit, Grant
    <2>2. u # t /\ Waiting(u)
      BY <1>2, <2>1 DEF TypeOK, Waiting
    <2>3. SignalSatisfiable(u)
      BY <1>1, <2>1, <2>2, ConsumeSatisfiesNobody, SatisfiableByObject
    <2>4. ~AwaitsVisit(u)
      BY <1>1, <1>2, <2>2 DEF TypeOK, AwaitsVisit, WaitersOn, Registered
    <2> QED
      BY <2>2, <2>3, <2>4 DEF NoMissedSignal
  <1>4. CASE ~(~granted[t] /\ Satisfiable(t))
    <2>1. UNCHANGED <<objectVars, grantVars>>
      BY <1>4 DEF Visit
    <2>2. Waiting(u) /\ SignalSatisfiable(u)
      <3>1. \A o \in ObjectsOf(u) \ Threads : CanSatisfy(o, u)' => CanSatisfy(o, u)
        BY <2>1 DEF objectVars, CanSatisfy
      <3> QED
        BY <1>1, <1>2, <2>1, <3>1, SatisfiableByObject DEF Waiting, grantVars
    <2>3. u # t
      BY <1>4, <2>2 DEF Waiting, SignalSatisfiable, Satisfiable
    <2>4. ~AwaitsVisit(u)
      BY <1>1, <1>2, <2>3 DEF TypeOK, AwaitsVisit, WaitersOn, Registered
    <2> QED
      BY <2>2, <2>4 DEF NoMissedSignal
  <1> QED
    BY <1>3, <1>4

LEMMA EndScanKeeps ==
  ASSUME TypeOK, NoMissedSignal, EndScan
  PROVE  NoMissedSignal'
  <1>1. UNCHANGED <<pc, req, granted>>
    BY DEF EndScan, waitVars, grantVars
  <1>2. \A t \in Threads : ~AwaitsVisit(t)
    BY DEF EndScan, ScanComplete, AwaitsVisit
  <1>3. \A t \in Threads : \A o : o \notin Threads /\ CanSatisfy(o, t)' => CanSatisfy(o, t)
    BY DEF TypeOK, EndScan, CanSatisfy
  <1> QED
    BY <1>1, <1>2, <1>3, SameWaits, QuietStep

LEMMA EnterWaitKeeps ==
  ASSUME TypeOK, NoMissedSignal, NEW t \in Threads, EnterWait(t)
  PROVE  NoMissedSignal'
  <1>1. scan.obj = None /\ scan'.obj = None /\ ~Registered(t) /\ UNCHANGED req
    BY DEF EnterWait, LockFree, NoScan, HeldBy, Registered, LoopSteps
  <1>2. \A u \in Threads : ~AwaitsVisit(u)
    BY <1>1 DEF AwaitsVisit
  <1>3. ASSUME NEW S, Consume(t, S), NEW result, End(t, result), UNCHANGED granted
        PROVE  NoMissedSignal'
    <2>1. \A u \in Threads : Waiting(u)' => u # t /\ Waiting(u) /\ req'[u] = req[u]
      BY <1>1, <1>3 DEF TypeOK, End, Waiting, Registered, LoopSteps
    <2> SUFFICES ASSUME NEW u \in Threads, Waiting(u)', SignalSatisfiable(u)' PROVE FALSE
      BY DEF NoMissedSignal
    <2>2. SignalSatisfiable(u)
      BY <1>3, <2>1, ConsumeSatisfiesNobody, SatisfiableByObject
    <2> QED
      BY <1>2, <2>1, <2>2 DEF NoMissedSignal
  <1>4. ASSUME NEW result, End(t, result), UNCHANGED <<objectVars, grantVars>>
        PROVE  NoMissedSignal'
    <2>1. \A u \in Threads : Waiting(u)' => Waiting(u) /\ req'[u] = req[u]
      BY <1>1, <1>4 DEF TypeOK, End, Waiting, Registered, LoopSteps, grantVars
    <2>2. \A u \in Threads : \A o : o \notin Threads /\ CanSatisfy(o, u)' => CanSatisfy(o, u)
      BY <1>4 DEF objectVars, CanSatisfy
    <2> QED
      BY <1>2, <2>1, <2>2, QuietStep
  <1>5. ASSUME ~Satisfiable(t), pc' = [pc EXCEPT ![t] = "observe"],
               UNCHANGED <<objectVars, grantVars>>
        PROVE  NoMissedSignal'
    <2> SUFFICES ASSUME NEW u \in Threads, Waiting(u)', SignalSatisfiable(u)' PROVE FALSE
      BY DEF NoMissedSignal
    <2>1. SignalSatisfiable(u)
      <3>1. \A o : o \notin Threads /\ CanSatisfy(o, u)' => CanSatisfy(o, u)
        BY <1>5 DEF objectVars, CanSatisfy
      <3> QED
        BY <1>1, <3>1, SatisfiableByObject
    <2>2. u # t
      BY <1>5, <2>1 DEF SignalSatisfiable, Satisfiable
    <2>3. Waiting(u)
      BY <1>5, <2>2 DEF TypeOK, Waiting, Registered, grantVars
    <2> QED
      BY <1>2, <2>1, <2>3 DEF NoMissedSignal
  <1> QED
    BY <1>3, <1>4, <1>5 DEF EnterWait

\* A retry that succeeds is of a wait that names a thread; either way nobody
\* else's wait becomes satisfiable.
LEMMA RetryKeeps ==
  ASSUME TypeOK, NoMissedSignal, NEW t \in Threads, Retry(t)
  PROVE  NoMissedSignal'
  <1>1. UNCHANGED <<req, scan>> /\ LockFree
    BY DEF Retry
  <1>2. \A u \in Threads : ~AwaitsVisit(u)
    BY <1>1 DEF AwaitsVisit, LockFree, NoScan
  <1>3. CASE ~granted[t] /\ Satisfiable(t)
    <2>1. granted' = [granted EXCEPT ![t] = TRUE] /\ \E S : Consume(t, S)
      BY <1>3 DEF Retry, Grant
    <2> SUFFICES ASSUME NEW u \in Threads, Waiting(u)', SignalSatisfiable(u)' PROVE FALSE
      BY DEF NoMissedSignal
    <2>2. u # t /\ Waiting(u)
      BY <1>3, <2>1 DEF TypeOK, Waiting, Registered, Retry, Goto
    <2>3. SignalSatisfiable(u)
      BY <1>1, <2>1, <2>2, ConsumeSatisfiesNobody, SatisfiableByObject
    <2> QED
      BY <1>2, <2>2, <2>3 DEF NoMissedSignal
  <1>4. CASE ~(~granted[t] /\ Satisfiable(t))
    <2>1. UNCHANGED <<signal, owner, recursion, granted>>
      BY <1>4 DEF Retry, objectVars, grantVars
    <2>2. \A u \in Threads : Waiting(u)' => Waiting(u) /\ req'[u] = req[u]
      BY <1>1, <1>4, <2>1 DEF TypeOK, Waiting, Registered, LoopSteps, Retry, Goto
    <2> QED
      BY <1>1, <2>1, <2>2, WaitsOnlyStep
  <1> QED
    BY <1>3, <1>4


\* Every step keeps the dispatcher invariant: one case per action.
LEMMA NextNoMissedSignal == TypeOK /\ NoMissedSignal /\ [Next]_vars => NoMissedSignal'
  <1> SUFFICES ASSUME TypeOK, NoMissedSignal, [Next]_vars PROVE NoMissedSignal'
    OBVIOUS
  <1> USE ValueTypes
  <1>1. ASSUME NEW t \in Threads, Visit(t) PROVE NoMissedSignal'
    BY <1>1, VisitKeeps
  <1>2. ASSUME EndScan PROVE NoMissedSignal'
    BY <1>2, EndScanKeeps
  <1>3. ASSUME NEW e \in Events, SetEvent(e) PROVE NoMissedSignal'
    BY <1>3, SignalStarts DEF SetEvent, objectVars, threadVars, grantVars, waitVars
  <1>4. ASSUME NEW e \in Events, PulseEvent(e) PROVE NoMissedSignal'
    BY <1>4, SignalStarts DEF PulseEvent, objectVars, threadVars, grantVars, waitVars
  <1>5. ASSUME NEW e \in Events, ResetEvent(e) PROVE NoMissedSignal'
    BY <1>5, ClearSatisfiesNobody DEF ResetEvent, StoreAs, objectVars, threadVars, grantVars, waitVars
  <1>6. ASSUME NEW s \in Semaphores, NEW n \in 1..Limit[s], ReleaseSemaphore(s, n) PROVE NoMissedSignal'
    BY <1>6, SignalStarts DEF ReleaseSemaphore, objectVars, threadVars, grantVars, waitVars
  <1>7. ASSUME NEW t \in Threads, NEW m \in Mutants, ReleaseMutant(t, m) PROVE NoMissedSignal'
    BY <1>7, DropStarts, SameWaits DEF ReleaseMutant, objectVars, threadVars, grantVars, waitVars
  <1>8. ASSUME NEW tm \in Timers, NEW immediate \in BOOLEAN, SetTimer(tm, immediate) PROVE NoMissedSignal'
    BY <1>8, SignalStarts, ClearSatisfiesNobody DEF SetTimer, StoreAs, objectVars, threadVars, grantVars, waitVars
  <1>9. ASSUME NEW tm \in Timers, CancelTimer(tm) PROVE NoMissedSignal'
    BY <1>9, ClearSatisfiesNobody DEF CancelTimer, StoreAs, objectVars, threadVars, grantVars, waitVars
  <1>10. ASSUME NEW tm \in Timers, NEW periodic \in BOOLEAN, FireTimer(tm, periodic) PROVE NoMissedSignal'
    BY <1>10, SignalStarts DEF FireTimer, objectVars, threadVars, grantVars, waitVars
  <1>11. ASSUME NEW o \in Mirrored, NEW v, GuestStore(o, v) PROVE NoMissedSignal'
    BY <1>11, WaitsOnlyStep, SameWaits DEF GuestStore, objectVars, threadVars, grantVars, waitVars
  <1>12. ASSUME NEW o \in Mirrored, Reconcile(o) PROVE NoMissedSignal'
    BY <1>12, SignalStarts, ClearSatisfiesNobody DEF Reconcile, objectVars, threadVars, grantVars, waitVars
  <1>13. ASSUME NEW t \in Threads, NEW r, BeginWait(t, r) PROVE NoMissedSignal'
    <2>1. \A u \in Threads : Waiting(u)' => Waiting(u) /\ req'[u] = req[u]
      BY <1>13 DEF TypeOK, BeginWait, Idle, End, Waiting, Registered, LoopSteps, grantVars
    <2> QED
      BY <1>13, <2>1, WaitsOnlyStep DEF BeginWait, objectVars
  <1>14. ASSUME NEW t \in Threads, EnterSignal(t) PROVE NoMissedSignal'
    <2>1. \A u \in Threads : Waiting(u)' => Waiting(u) /\ req'[u] = req[u]
      BY <1>14 DEF TypeOK, EnterSignal, Waiting, Registered, LoopSteps, grantVars
    <2> DEFINE o == req[t].signal
    <2>2. CASE o \in Mutants /\ DropMutant(t, o, "wait")
      BY <1>14, <2>1, <2>2, DropStarts DEF EnterSignal
    <2>3. ASSUME o \in Counted, NEW v, SignalAs(o, v, "wait", t)
          PROVE  NoMissedSignal'
      <3>1. scan.obj = None /\ o # None /\ scan'.obj = o /\ scan'.visited = {}
        BY <1>14, <2>3 DEF EnterSignal, LockFree, NoScan, SignalAs, ScanOf
      <3>2. \A u \in Threads : \A x : x \notin Threads /\ x # o /\ CanSatisfy(x, u)' => CanSatisfy(x, u)
        BY <2>3 DEF TypeOK, SignalAs, CanSatisfy
      <3> QED
        BY <2>1, <3>1, <3>2, WalkStart
    <2> QED
      BY <1>14, <2>2, <2>3, ValueTypes DEF EnterSignal
  <1>15. ASSUME NEW t \in Threads, EnterSignalFails(t) PROVE NoMissedSignal'
    <2>1. \A u \in Threads : Waiting(u)' => Waiting(u) /\ req'[u] = req[u]
      BY <1>15 DEF TypeOK, EnterSignalFails, End, Waiting, Registered, LoopSteps, grantVars
    <2> QED
      BY <1>15, <2>1, WaitsOnlyStep DEF EnterSignalFails, objectVars
  <1>16. ASSUME NEW t \in Threads, EnterWait(t) PROVE NoMissedSignal'
    BY <1>16, EnterWaitKeeps
  <1>17. ASSUME NEW t \in Threads, Observe(t) PROVE NoMissedSignal'
    <2>1. \A u \in Threads : Waiting(u)' => Waiting(u) /\ req'[u] = req[u]
      BY <1>17 DEF TypeOK, Observe, Goto, Waiting, Registered, LoopSteps, grantVars
    <2> QED
      BY <1>17, <2>1, WaitsOnlyStep DEF Observe, objectVars
  <1>18. ASSUME NEW t \in Threads, PollTerminated(t) PROVE NoMissedSignal'
    <2>1. \A u \in Threads : Waiting(u)' => Waiting(u) /\ req'[u] = req[u]
      BY <1>18 DEF TypeOK, PollTerminated, Goto, Waiting, Registered, LoopSteps, grantVars
    <2> QED
      BY <1>18, <2>1, WaitsOnlyStep DEF PollTerminated, objectVars
  <1>19. ASSUME NEW t \in Threads, Retry(t) PROVE NoMissedSignal'
    BY <1>19, RetryKeeps
  <1>20. ASSUME NEW t \in Threads, TestAlerts(t) PROVE NoMissedSignal'
    <2>1. \A u \in Threads : Waiting(u)' => Waiting(u) /\ req'[u] = req[u]
      BY <1>20 DEF TypeOK, TestAlerts, Sleep, Goto, Waiting, Registered, LoopSteps, grantVars
    <2> QED
      BY <1>20, <2>1, WaitsOnlyStep DEF TestAlerts, objectVars
  <1>21. ASSUME NEW t \in Threads, Wake(t) PROVE NoMissedSignal'
    <2>1. \A u \in Threads : Waiting(u)' => Waiting(u) /\ req'[u] = req[u]
      BY <1>21 DEF TypeOK, Wake, Goto, Waiting, Registered, LoopSteps, grantVars
    <2> QED
      BY <1>21, <2>1, WaitsOnlyStep DEF Wake, objectVars
  <1>22. ASSUME NEW t \in Threads, Leave(t) PROVE NoMissedSignal'
    <2>1. \A u \in Threads : Waiting(u)' => Waiting(u) /\ req'[u] = req[u]
      BY <1>22 DEF TypeOK, Leave, End, Waiting, Registered, LoopSteps, grantVars
    <2> QED
      BY <1>22, <2>1, WaitsOnlyStep DEF Leave, objectVars
  <1>23. ASSUME NEW t \in Threads, Return(t) PROVE NoMissedSignal'
    <2>1. \A u \in Threads : Waiting(u)' => Waiting(u) /\ req'[u] = req[u]
      BY <1>23 DEF TypeOK, Return, End, Waiting, Registered, LoopSteps, grantVars
    <2> QED
      BY <1>23, <2>1, WaitsOnlyStep DEF Return, objectVars
  <1>24. ASSUME NEW t \in Threads, NEW alertable, NEW positive, BeginDelay(t, alertable, positive) PROVE NoMissedSignal'
    <2>1. \A u \in Threads : Waiting(u)' => Waiting(u) /\ req'[u] = req[u]
      BY <1>24 DEF TypeOK, BeginDelay, Idle, End, Goto, Waiting, Registered, LoopSteps, grantVars
    <2> QED
      BY <1>24, <2>1, WaitsOnlyStep DEF BeginDelay, objectVars
  <1>25. ASSUME NEW t \in Threads, DelayTest(t) PROVE NoMissedSignal'
    <2>1. \A u \in Threads : Waiting(u)' => Waiting(u) /\ req'[u] = req[u]
      BY <1>25 DEF TypeOK, DelayTest, Goto, Waiting, Registered, LoopSteps, grantVars
    <2> QED
      BY <1>25, <2>1, WaitsOnlyStep DEF DelayTest, objectVars
  <1>26. ASSUME NEW t \in Threads, DelayEnd(t) PROVE NoMissedSignal'
    <2>1. \A u \in Threads : Waiting(u)' => Waiting(u) /\ req'[u] = req[u]
      BY <1>26 DEF TypeOK, DelayEnd, End, Waiting, Registered, LoopSteps, grantVars
    <2> QED
      BY <1>26, <2>1, WaitsOnlyStep DEF DelayEnd, objectVars
  <1>27. ASSUME NEW t \in Threads, \/ Expire(t) \/ Terminate(t) \/ Alert(t) \/ TestAlert(t) \/ QueueUserApc(t)
                 \/ RemoveUserApc(t) \/ NotifyAlways(t) PROVE NoMissedSignal'
    BY <1>27, WaitsOnlyStep, SameWaits
       DEF Expire, Terminate, Alert, TestAlert, QueueUserApc, RemoveUserApc, NotifyAlways, objectVars, threadVars, grantVars, waitVars
  <1>28. ASSUME NEW t \in Threads, Exit(t) PROVE NoMissedSignal'
    <2>1. \A u \in Threads : Waiting(u)' => Waiting(u) /\ req'[u] = req[u]
      BY <1>28 DEF TypeOK, Exit, Idle, Goto, Waiting, Registered, LoopSteps, grantVars
    <2> QED
      BY <1>28, <2>1, WaitsOnlyStep DEF Exit, objectVars
  <1>29. ASSUME NEW t \in Threads, NEW m \in Mutants, AbandonMutant(t, m) PROVE NoMissedSignal'
    <2>1. scan.obj = None /\ m # None /\ scan'.obj = m /\ scan'.visited = {}
      BY <1>29, ObjectsAssumption DEF AbandonMutant, LockFree, NoScan, ScanOf, Objects
    <2>2. \A u \in Threads : \A x : x \notin Threads /\ x # m /\ CanSatisfy(x, u)' => CanSatisfy(x, u)
      BY <1>29 DEF TypeOK, AbandonMutant, CanSatisfy
    <2> QED
      BY <1>29, <2>1, <2>2, SameWaits, WalkStart DEF AbandonMutant, waitVars, grantVars
  <1>30. ASSUME NEW t \in Threads, Finish(t) PROVE NoMissedSignal'
    <2>1. \A u \in Threads : Waiting(u)' => Waiting(u) /\ req'[u] = req[u]
      BY <1>30 DEF TypeOK, Finish, Goto, Waiting, Registered, LoopSteps, grantVars
    <2> QED
      BY <1>30, <2>1, WaitsOnlyStep DEF Finish, objectVars
  <1>31. ASSUME UNCHANGED vars PROVE NoMissedSignal'
    BY <1>31, WaitsOnlyStep, SameWaits DEF vars, objectVars, threadVars, grantVars, waitVars
  <1> QED
    BY <1>1, <1>2, <1>3, <1>4, <1>5, <1>6, <1>7, <1>8, <1>9, <1>10, <1>11, <1>12, <1>13, <1>14, <1>15, <1>16, <1>17, <1>18, <1>19, <1>20, <1>21, <1>22, <1>23, <1>24, <1>25, <1>26, <1>27, <1>28, <1>29, <1>30, <1>31, RequestsAssumption
       DEF Next, WaitStep, GuestStep, Rundown, SignalStep, ThreadStep

\* No wait sleeps on a signal already given: a registered wait that the walk in
\* progress has passed is satisfiable by no object but a terminated thread,
\* for any number of threads, objects and waits.
THEOREM DispatcherInvariant == Spec => []NoMissedSignal
  <1>1. Init => NoMissedSignal
    BY DEF Init, NoMissedSignal, Waiting, Registered, LoopSteps
  <1>2. TypeOK /\ NoMissedSignal /\ [Next]_vars => (TypeOK /\ NoMissedSignal)'
    BY NextType, NextNoMissedSignal
  <1> QED
    BY <1>1, <1>2, InitType, PTL DEF Spec


-----------------------------------------------------------------------------
(* Order.                                                                  *)

\* A step that takes an object for t2 is t2's own check or retry, with no walk
\* in progress, or the walk's visit to t2.
LEMMA TakingSteps ==
  ASSUME TypeOK, [Next]_vars, NEW t \in Threads, took'[t] \ took[t] # {}
  PROVE  EnterWait(t) \/ Retry(t) \/ Visit(t)
  <1>1. ASSUME took' = [took EXCEPT ![t] = {}] PROVE FALSE
    BY <1>1 DEF TypeOK
  <1>2. ASSUME NEW u \in Threads, NEW S, took' = [took EXCEPT ![u] = S] PROVE u = t
    BY <1>2 DEF TypeOK
  <1>3. took' # took
    OBVIOUS
  <1>4. \A u \in Threads : EnterWait(u) \/ Retry(u) \/ Visit(u) => u = t
    BY <1>2, <1>3 DEF EnterWait, Retry, Visit, Grant, Consume, grantVars
  <1>5. \A u \in Threads : ~Return(u)
    BY <1>1, <1>2, SMTT(30) DEF Return
  <1>6. \A u \in Threads :
          WaitStep(u) => EnterWait(u) \/ Retry(u)
    BY <1>3, <1>5 DEF WaitStep, EnterSignal, EnterSignalFails, Observe, PollTerminated,
                      TestAlerts, Wake, Leave, DelayTest, DelayEnd, grantVars
  <1>7. \A u \in Threads : ~GuestStep(u) /\ ~Rundown(u) /\ ~Expire(u)
    BY <1>3 DEF GuestStep, Rundown, BeginWait, BeginDelay, ReleaseMutant, TestAlert, Exit,
                AbandonMutant, Finish, Expire, grantVars
  <1>8. ~SignalStep
    BY <1>3 DEF SignalStep, SetEvent, PulseEvent, ResetEvent, ReleaseSemaphore, SetTimer,
                CancelTimer, FireTimer, GuestStore, Reconcile, grantVars
  <1>9. ~ThreadStep
    BY <1>3 DEF ThreadStep, Terminate, Alert, QueueUserApc, RemoveUserApc, NotifyAlways, grantVars
  <1>10. ~EndScan /\ ~UNCHANGED vars
    BY <1>3 DEF EndScan, vars, grantVars
  <1> QED
    BY <1>4, <1>6, <1>7, <1>8, <1>9, <1>10 DEF Next

\* No step takes a signalled object for one wait past an older wait that it
\* would satisfy, however many waits and objects there are.
THEOREM SignalsGoToTheOldest == Spec => NoOvertaking
  <1> DEFINE Step ==
        \A t1, t2 \in Threads : \A o \in took'[t2] \ (took[t2] \cup Threads) :
          Before(t1, t2) /\ (req[t1].all => ObjectsOf(t1) \cap Threads = {})
            => ~EntitledTo(t1, o)
  <1>1. TypeOK /\ NoMissedSignal /\ [Next]_vars => [Step]_vars
    <2> SUFFICES ASSUME TypeOK, NoMissedSignal, [Next]_vars,
                        NEW t1 \in Threads, NEW t2 \in Threads,
                        NEW o \in took'[t2] \ (took[t2] \cup Threads),
                        Before(t1, t2), req[t1].all => ObjectsOf(t1) \cap Threads = {},
                        EntitledTo(t1, o)
                 PROVE  FALSE
      OBVIOUS
    <2>1. Waiting(t1) /\ SignalSatisfiable(t1)
      BY DEF EntitledTo, SignalSatisfiable, Satisfiable
    <2>2. AwaitsVisit(t1)
      BY <2>1 DEF NoMissedSignal
    <2>3. EnterWait(t2) \/ Retry(t2) \/ Visit(t2)
      BY TakingSteps
    <2>4. Visit(t2)
      BY <2>2, <2>3 DEF EnterWait, Retry, AwaitsVisit, LockFree, NoScan, HeldBy
    <2>5. Registered(t2) /\ VisitInOrder(t2)
      BY <2>4 DEF Visit, WaitersOn
    <2>6. t1 \in ahead[t2]
      BY <2>5 DEF Before
    <2> QED
      BY <2>2, <2>5, <2>6 DEF AwaitsVisit, VisitInOrder
  <1> QED
    BY <1>1, TypeCorrect, DispatcherInvariant, PTL DEF Spec, NoOvertaking

-----------------------------------------------------------------------------
(* Mutants.                                                                *)

\* Steps that leave the mutants alone and end no thread.
LEMMA MutantsUntouched ==
  ASSUME MutantOwnership, UNCHANGED <<owner, recursion, abandoned>>,
         \A t \in Threads : pc'[t] = "exited" => pc[t] = "exited",
         TypeOK
  PROVE  MutantOwnership'
  BY DEF MutantOwnership, TypeOK

LEMMA ConsumeOwnership ==
  ASSUME TypeOK, MutantOwnership, NEW t \in Threads, pc[t] # "exited", NEW S, Consume(t, S),
         \A u \in Threads : pc'[u] = "exited" => pc[u] = "exited"
  PROVE  MutantOwnership'
  <1> SUFFICES ASSUME NEW m \in Mutants
               PROVE  /\ (owner'[m] # None) <=> (recursion'[m] > 0)
                      /\ abandoned'[m] => recursion'[m] = 0
                      /\ owner'[m] # None => pc'[owner'[m]] # "exited"
    BY DEF MutantOwnership
  <1>1. t # None
    BY ObjectsAssumption DEF Objects
  <1>2. CASE m \in S /\ recursion[m] = 0
    <2>1. owner'[m] = t /\ recursion'[m] = 1
      BY <1>2 DEF Consume, TypeOK
    <2>2. abandoned'[m] = FALSE
      BY <1>2 DEF Consume
    <2>3. pc'[t] # "exited"
      OBVIOUS
    <2> QED
      BY <1>1, <2>1, <2>2, <2>3
  <1>3. CASE ~(m \in S /\ recursion[m] = 0)
    BY <1>3 DEF Consume, TypeOK, MutantOwnership
  <1> QED
    BY <1>2, <1>3

LEMMA DropOwnership ==
  ASSUME TypeOK, MutantOwnership, NEW t \in Threads, NEW m \in Mutants, NEW then,
         DropMutant(t, m, then), \A u \in Threads : pc'[u] = "exited" => pc[u] = "exited"
  PROVE  MutantOwnership'
  <1>1. CASE recursion[m] = 1
    BY <1>1, ObjectsAssumption DEF TypeOK, MutantOwnership, DropMutant
  <1>2. CASE recursion[m] # 1
    BY <1>2, ObjectsAssumption DEF TypeOK, MutantOwnership, DropMutant
  <1> QED
    BY <1>1, <1>2

LEMMA NextMutantOwnership == TypeOK /\ MutantOwnership /\ [Next]_vars => MutantOwnership'
  <1> SUFFICES ASSUME TypeOK, MutantOwnership, [Next]_vars PROVE MutantOwnership'
    OBVIOUS
  <1>1. ASSUME NEW t \in Threads, Visit(t) PROVE MutantOwnership'
    <2>1. pc[t] # "exited" /\ UNCHANGED pc
      BY <1>1 DEF Visit, WaitersOn, Registered, LoopSteps
    <2> QED
      BY <1>1, <2>1, ConsumeOwnership, MutantsUntouched DEF Visit, Grant, objectVars
  <1>2. ASSUME NEW t \in Threads, Retry(t) PROVE MutantOwnership'
    <2>1. pc[t] # "exited" /\ \A u \in Threads : pc'[u] = "exited" => pc[u] = "exited"
      BY <1>2 DEF TypeOK, Retry, Goto
    <2> QED
      BY <1>2, <2>1, ConsumeOwnership, MutantsUntouched DEF Retry, Grant, objectVars
  <1>3. ASSUME NEW t \in Threads, EnterWait(t) PROVE MutantOwnership'
    <2>1. pc[t] # "exited" /\ \A u \in Threads : pc'[u] = "exited" => pc[u] = "exited"
      BY <1>3 DEF TypeOK, EnterWait, End
    <2> QED
      BY <1>3, <2>1, ConsumeOwnership, MutantsUntouched DEF EnterWait, objectVars
  <1>4. ASSUME NEW t \in Threads, EnterSignal(t) PROVE MutantOwnership'
    <2>1. \A u \in Threads : pc'[u] = "exited" => pc[u] = "exited"
      BY <1>4 DEF TypeOK, EnterSignal
    <2> QED
      BY <1>4, <2>1, DropOwnership, MutantsUntouched DEF EnterSignal, SignalAs
  <1>5. ASSUME NEW t \in Threads, NEW m \in Mutants, ReleaseMutant(t, m) PROVE MutantOwnership'
    BY <1>5, DropOwnership DEF ReleaseMutant, waitVars
  <1>6. ASSUME NEW t \in Threads, NEW m \in Mutants, AbandonMutant(t, m) PROVE MutantOwnership'
    <2>1. /\ UNCHANGED pc
          /\ \A k \in Mutants \ {m} : /\ owner'[k] = owner[k] /\ recursion'[k] = recursion[k]
                                     /\ abandoned'[k] = abandoned[k]
          /\ owner'[m] = None /\ recursion'[m] = 0
      BY <1>6 DEF AbandonMutant, TypeOK, waitVars
    <2> QED
      BY <2>1 DEF MutantOwnership
  <1>7. ASSUME NEW t \in Threads, Finish(t) PROVE MutantOwnership'
    <2>1. UNCHANGED <<owner, recursion, abandoned>> /\ \A m \in Mutants : owner[m] # t
      BY <1>7 DEF Finish, OwnsNothing, objectVars
    <2>2. \A u \in Threads \ {t} : pc'[u] = pc[u]
      BY <1>7 DEF TypeOK, Finish, Goto
    <2> QED
      BY <2>1, <2>2 DEF TypeOK, MutantOwnership
  <1>8. ASSUME SignalStep PROVE MutantOwnership'
    <2>1. UNCHANGED <<owner, recursion, abandoned, pc>>
      BY <1>8 DEF SignalStep, SetEvent, PulseEvent, ResetEvent, ReleaseSemaphore, SetTimer,
                  CancelTimer, FireTimer, GuestStore, Reconcile, SignalAs, StoreAs, waitVars
    <2> QED
      BY <2>1, MutantsUntouched
  <1>9. ASSUME ThreadStep \/ EndScan \/ UNCHANGED vars PROVE MutantOwnership'
    <2>1. UNCHANGED <<owner, recursion, abandoned, pc>>
      BY <1>9 DEF ThreadStep, Terminate, Alert, QueueUserApc, RemoveUserApc, NotifyAlways,
                  EndScan, vars, objectVars, waitVars
    <2> QED
      BY <2>1, MutantsUntouched
  <1>10. ASSUME NEW t \in Threads, NEW place \in Places \ {"exited"},
                pc' = [pc EXCEPT ![t] = place] \/ UNCHANGED pc, UNCHANGED objectVars
         PROVE  MutantOwnership'
    <2>1. \A u \in Threads : pc'[u] = "exited" => pc[u] = "exited"
      BY <1>10 DEF TypeOK
    <2> QED
      BY <1>10, <2>1, MutantsUntouched DEF objectVars
  <1>11. {"idle", "enter", "done", "delay", "delayed", "leave", "rundown", "observe",
          "poll", "retry", "alerts", "sleep"} \subseteq Places \ {"exited"}
    BY DEF Places, LoopSteps
  <1>12. ASSUME NEW t \in Threads, WaitStep(t) PROVE MutantOwnership'
    BY <1>2, <1>3, <1>4, <1>10, <1>11, <1>12
       DEF WaitStep, EnterSignalFails, Observe, PollTerminated, TestAlerts, Wake, Leave,
           Return, DelayTest, DelayEnd, Goto, Sleep, End
  <1>13. ASSUME NEW t \in Threads, GuestStep(t) \/ Rundown(t) \/ Expire(t) PROVE MutantOwnership'
    BY <1>5, <1>6, <1>7, <1>10, <1>11, <1>13
       DEF GuestStep, Rundown, BeginWait, BeginDelay, TestAlert, Exit, Expire, Goto, End, waitVars
  <1> QED
    BY <1>1, <1>8, <1>9, <1>12, <1>13 DEF Next

\* A mutant is owned exactly while it is held, never by a thread that is gone,
\* and abandoned only while it is free, whatever waits, releases, signals and
\* exits interleave.
THEOREM MutantsHaveLiveOwners == Spec => []MutantOwnership
  <1>1. Init => MutantOwnership
    BY DEF Init, MutantOwnership
  <1>2. TypeOK /\ MutantOwnership /\ [Next]_vars => (TypeOK /\ MutantOwnership)'
    BY NextType, NextMutantOwnership
  <1> QED
    BY <1>1, <1>2, InitType, PTL DEF Spec

-----------------------------------------------------------------------------
(* The SignalState words.  In the middle of a walk the word of the walked   *)
(* object is stored at the end; unless the state was adopted from the word, *)
(* which is then the guest's until a grant stores it.                       *)

MirrorInv ==
  \A o \in Mirrored \ guestWrote :
    scan.obj # o \/ scan.then = "adopt" => mirror[o] = signal[o]

\* None is no object in guest memory, and such an object is an event or a
\* semaphore.
LEMMA MirroredObjects ==
  /\ None \notin Mirrored /\ Mirrored \subseteq Counted
  /\ Mirrored \cap Mutants = {} /\ Mirrored \cap Timers = {}
  BY ObjectsAssumption DEF Objects, Counted

\* A step that stores no word and no state, and goes on with the same walk.
LEMMA WordsUntouched ==
  ASSUME MirrorInv, UNCHANGED <<signal, mirror, guestWrote>>,
         UNCHANGED <<scan>> \/ scan.obj = None \/ scan.obj \in Mutants \/ (scan'.obj = scan.obj /\ scan'.then = scan.then)
  PROVE  MirrorInv'
  BY MirroredObjects DEF MirrorInv

\* A grant stores the word of everything it consumes.
LEMMA ConsumeWords ==
  ASSUME TypeOK, MirrorInv, NEW t \in Threads, NEW S, Consume(t, S),
         scan.obj = None \/ (scan'.obj = scan.obj /\ scan'.then = scan.then)
  PROVE  MirrorInv'
  <1> SUFFICES ASSUME NEW o \in Mirrored, o \notin guestWrote',
                      scan'.obj # o \/ scan'.then = "adopt"
               PROVE  mirror'[o] = signal'[o]
    BY DEF MirrorInv
  <1>1. o \in Counted /\ o # None
    BY MirroredObjects
  <1>2. CASE Consumed(o, S)
    BY <1>1, <1>2 DEF Consume
  <1>3. CASE ~Consumed(o, S)
    <2>1. o \notin guestWrote /\ mirror'[o] = mirror[o] /\ signal'[o] = signal[o]
      BY <1>1, <1>3 DEF Consume
    <2> QED
      BY <1>1, <2>1 DEF MirrorInv
  <1> QED
    BY <1>2, <1>3

LEMMA SignalWords ==
  ASSUME TypeOK, MirrorInv, scan.obj = None, NEW o \in Counted, NEW v, NEW then, NEW who,
         SignalAs(o, v, then, who), then = "adopt" => o \in guestWrote
  PROVE  MirrorInv'
  BY MirroredObjects DEF TypeOK, MirrorInv, SignalAs, ScanOf

LEMMA StoreWords ==
  ASSUME TypeOK, MirrorInv, scan.obj = None, NEW o \in Counted, NEW v, StoreAs(o, v)
  PROVE  MirrorInv'
  BY MirroredObjects DEF TypeOK, MirrorInv, StoreAs

LEMMA EndScanWords ==
  ASSUME TypeOK, MirrorInv, EndScan
  PROVE  MirrorInv'
  <1> SUFFICES ASSUME NEW o \in Mirrored, o \notin guestWrote'
               PROVE  mirror'[o] = signal'[o]
    BY DEF MirrorInv
  <1>1. o \in Counted
    BY MirroredObjects
  <1>2. CASE StoresMirror(o)
    BY <1>2 DEF EndScan
  <1>3. CASE ~StoresMirror(o)
    <2>1. o \notin guestWrote /\ mirror'[o] = mirror[o]
      BY <1>3 DEF EndScan
    <2>2. scan.obj # o \/ scan.then = "adopt"
      BY <1>3 DEF StoresMirror
    <2>3. signal'[o] = signal[o]
      BY <1>1, <2>2 DEF EndScan
    <2> QED
      BY <2>1, <2>2, <2>3 DEF MirrorInv
  <1> QED
    BY <1>2, <1>3

\* What is adopted was stored by the guest: a word that the kernel stored is
\* the state itself.
LEMMA ReconcileWords ==
  ASSUME TypeOK, MirrorInv, NEW o \in Mirrored, Reconcile(o)
  PROVE  MirrorInv'
  <1>1. o \in Counted /\ scan.obj = None /\ (o \in Semaphores \/ o \in Events)
    BY MirroredObjects, ObjectsAssumption DEF Reconcile, LockFree, NoScan
  <1>2. o \in Events => signal[o] \in {0, 1}
    BY <1>1, ObjectsAssumption DEF TypeOK, LimitOf
  <1>3. o \in guestWrote
    BY <1>1, <1>2, MirroredObjects, ObjectsAssumption DEF MirrorInv, Reconcile, GuestState
  <1>4. CASE o \in Events /\ GuestState(o) = 0
    BY <1>1, <1>3, <1>4, MirroredObjects DEF TypeOK, MirrorInv, Reconcile
  <1>5. CASE ~(o \in Events /\ GuestState(o) = 0)
    BY <1>1, <1>3, <1>5, SignalWords DEF Reconcile
  <1> QED
    BY <1>4, <1>5

LEMMA NextMirrorInv == TypeOK /\ MirrorInv /\ [Next]_vars => MirrorInv'
  <1> SUFFICES ASSUME TypeOK, MirrorInv, [Next]_vars PROVE MirrorInv'
    OBVIOUS
  <1>1. ASSUME NEW t \in Threads, Visit(t) PROVE MirrorInv'
    <2>1. scan'.obj = scan.obj /\ scan'.then = scan.then
      BY <1>1 DEF Visit, TypeOK
    <2> QED
      BY <1>1, <2>1, ConsumeWords, WordsUntouched DEF Visit, Grant, objectVars
  <1>2. ASSUME NEW t \in Threads, Retry(t) PROVE MirrorInv'
    BY <1>2, ConsumeWords, WordsUntouched DEF Retry, Grant, objectVars
  <1>3. ASSUME NEW t \in Threads, EnterWait(t) PROVE MirrorInv'
    <2>1. scan.obj = None
      BY <1>3 DEF EnterWait, LockFree, NoScan, HeldBy
    <2> QED
      BY <1>3, <2>1, ConsumeWords, WordsUntouched DEF EnterWait, objectVars
  <1>4. ASSUME NEW t \in Threads, EnterSignal(t) PROVE MirrorInv'
    <2> DEFINE o == req[t].signal
    <2>1. scan.obj = None
      BY <1>4 DEF EnterSignal, LockFree, NoScan
    <2>2. CASE o \in Mutants /\ DropMutant(t, o, "wait")
      BY <2>1, <2>2, WordsUntouched DEF DropMutant
    <2>3. CASE /\ o \in Events \cup Semaphores
               /\ SignalAs(o, IF o \in Events THEN 1 ELSE signal[o] + 1, "wait", t)
      <3>1. o \in Counted
        BY <2>3 DEF Counted
      <3> QED
        BY <2>1, <2>3, <3>1, SignalWords
    <2> QED
      BY <1>4, <2>2, <2>3 DEF EnterSignal
  <1>5. ASSUME NEW t \in Threads, NEW m \in Mutants, ReleaseMutant(t, m) \/ AbandonMutant(t, m)
        PROVE  MirrorInv'
    <2>1. scan.obj = None /\ UNCHANGED <<signal, mirror, guestWrote>>
      BY <1>5 DEF ReleaseMutant, AbandonMutant, DropMutant, LockFree, NoScan
    <2> QED
      BY <2>1, WordsUntouched
  <1>6. ASSUME SignalStep PROVE MirrorInv'
    <2>1. ASSUME NEW e \in Events, SetEvent(e) \/ PulseEvent(e) \/ ResetEvent(e) PROVE MirrorInv'
      <3>1. scan.obj = None /\ e \in Counted
        BY <2>1 DEF SetEvent, PulseEvent, ResetEvent, LockFree, NoScan, Counted
      <3> QED
        BY <2>1, <3>1, SignalWords, StoreWords DEF SetEvent, PulseEvent, ResetEvent
    <2>2. ASSUME NEW s \in Semaphores, NEW n \in 1..Limit[s], ReleaseSemaphore(s, n) PROVE MirrorInv'
      <3>1. scan.obj = None /\ s \in Counted
        BY <2>2 DEF ReleaseSemaphore, LockFree, NoScan, Counted
      <3> QED
        BY <2>2, <3>1, SignalWords DEF ReleaseSemaphore
    <2>3. ASSUME NEW tm \in Timers, NEW b \in BOOLEAN, SetTimer(tm, b) \/ CancelTimer(tm) \/ FireTimer(tm, b)
          PROVE  MirrorInv'
      <3>1. scan.obj = None /\ tm \in Counted
        BY <2>3 DEF SetTimer, CancelTimer, FireTimer, LockFree, NoScan, Counted
      <3>2. SignalAs(tm, 1, "store", None) \/ StoreAs(tm, 0)
        BY <2>3 DEF SetTimer, CancelTimer, FireTimer
      <3> QED
        BY <3>1, <3>2, SignalWords, StoreWords
    <2>4. ASSUME NEW o \in Mirrored, NEW v \in GuestValues, GuestStore(o, v) PROVE MirrorInv'
      BY <2>4 DEF TypeOK, MirrorInv, GuestStore
    <2> QED
      BY <1>6, <2>1, <2>2, <2>3, <2>4, ReconcileWords DEF SignalStep
  <1>7. ASSUME UNCHANGED <<signal, mirror, guestWrote, scan>> PROVE MirrorInv'
    BY <1>7, WordsUntouched
  <1>8. ASSUME NEW t \in Threads, WaitStep(t) PROVE MirrorInv'
    BY <1>2, <1>3, <1>4, <1>7, <1>8
       DEF WaitStep, EnterSignalFails, Observe, PollTerminated, TestAlerts, Wake, Leave,
           Return, DelayTest, DelayEnd, objectVars
  <1>9. ASSUME NEW t \in Threads, GuestStep(t) \/ Rundown(t) \/ Expire(t) PROVE MirrorInv'
    BY <1>5, <1>7, <1>9
       DEF GuestStep, Rundown, BeginWait, BeginDelay, TestAlert, Exit, Finish, Expire, objectVars
  <1>10. ASSUME ThreadStep \/ UNCHANGED vars PROVE MirrorInv'
    BY <1>7, <1>10 DEF ThreadStep, Terminate, Alert, QueueUserApc, RemoveUserApc, NotifyAlways,
                       vars, objectVars
  <1> QED
    BY <1>1, <1>6, <1>8, <1>9, <1>10, EndScanWords DEF Next

\* Whenever the dispatcher lock is free, the SignalState word of an object in
\* guest memory is the object's state, unless the guest stored to it last
\* (store_state_locked, satisfy_locked, reconcile_with_guest_state): for any
\* objects, walks, grants and pulses, and guest stores anywhere among them.
THEOREM WordsAreCurrent == Spec => []MirrorCurrent
  <1>1. Init => MirrorInv
    BY MirroredObjects DEF Init, MirrorInv
  <1>2. TypeOK /\ MirrorInv /\ [Next]_vars => (TypeOK /\ MirrorInv)'
    BY NextType, NextMirrorInv
  <1>3. MirrorInv => MirrorCurrent
    BY MirroredObjects DEF MirrorInv, MirrorCurrent, LockFree, NoScan
  <1> QED
    BY <1>1, <1>2, <1>3, InitType, PTL DEF Spec

-----------------------------------------------------------------------------
(* What a wait reports.  The grant protocol: nothing is taken for a thread  *)
(* before its wait is satisfied; from then on the block says what was, and  *)
(* no reason to give up is ever taken for a success.                        *)

\* What a satisfied wait takes, by the index in its block.
TakenAt(t) == IF req[t].all THEN ObjectsOf(t) ELSE {req[t].objects[index[t]]}

ResultOf(t) ==
  IF pc[t] = "done"
    THEN IF outcome[t] \in {"Success", "Abandoned"} /\ req[t].objects # <<>>
           THEN took[t] = TakenAt(t) ELSE took[t] = {}
    ELSE /\ outcome[t] \notin {"Success", "Abandoned"}
         /\ granted[t] => Registered(t) /\ req[t].objects # <<>>
         /\ took[t] = IF granted[t] THEN TakenAt(t) ELSE {}
         /\ pc[t] \in {"delay", "delayed"} => req[t].objects = <<>>

GrantInv == \A t \in Threads : ResultOf(t)

\* Where a thread is, what its wait is and what the block says of it.
WaitOf(t) == <<pc[t], req[t], granted[t], index[t], outcome[t], took[t]>>

LEMMA SameResult ==
  ASSUME NEW t \in Threads, ResultOf(t), UNCHANGED WaitOf(t)
  PROVE  ResultOf(t)'
  BY DEF ResultOf, WaitOf, TakenAt, ObjectsOf, Registered

\* The thread moves on without a grant and without ending its wait.
LEMMA MovesOn ==
  ASSUME NEW t \in Threads, ResultOf(t), pc[t] # "done", pc'[t] # "done",
         UNCHANGED <<granted[t], index[t], took[t]>>,
         granted[t] => req'[t] = req[t] /\ Registered(t)',
         outcome'[t] \notin {"Success", "Abandoned"},
         pc'[t] \in {"delay", "delayed"} => req'[t].objects = <<>>
  PROVE  ResultOf(t)'
  BY DEF ResultOf, TakenAt, ObjectsOf

\* A grant: block.granted, block.index and the objects consumed.
LEMMA Granted ==
  ASSUME TypeOK, GrantInv, NEW t \in Threads, Registered(t), Registered(t)', Grant(t),
         req'[t] = req[t], outcome'[t] = outcome[t]
  PROVE  ResultOf(t)' /\ \A u \in Threads \ {t} : UNCHANGED <<granted[u], index[u], took[u]>>
  <1>1. PICK i \in DOMAIN req[t].objects :
          /\ Consume(t, Satisfying(t, i))
          /\ granted' = [granted EXCEPT ![t] = TRUE]
          /\ index' = [index EXCEPT ![t] = i]
    BY DEF Grant
  <1>2. took'[t] = Satisfying(t, i) /\ index'[t] = i /\ granted'[t] = TRUE
        /\ \A u \in Threads \ {t} : UNCHANGED <<granted[u], index[u], took[u]>>
    BY <1>1 DEF TypeOK, Consume
  <1>3. took'[t] = TakenAt(t)'
    BY <1>2 DEF TakenAt, Satisfying, ObjectsOf
  <1>4. pc[t] # "done" /\ pc'[t] \notin {"done", "delay", "delayed"} /\ outcome[t] \notin {"Success", "Abandoned"}
    BY DEF Registered, LoopSteps, GrantInv, ResultOf
  <1>5. req[t].objects # <<>>
    OBVIOUS
  <1> QED
    BY <1>2, <1>3, <1>4, <1>5 DEF ResultOf

LEMMA EnterWaitResult ==
  ASSUME TypeOK, GrantInv, NEW t \in Threads, EnterWait(t)
  PROVE  GrantInv'
  <1>1. /\ pc[t] \in {"enter", "locked"} /\ ~Registered(t)
        /\ ResultOf(t) /\ UNCHANGED req
    BY DEF EnterWait, Registered, LoopSteps, GrantInv
  <1>2. granted[t] = FALSE /\ took[t] = {} /\ outcome[t] \notin {"Success", "Abandoned"}
    BY <1>1 DEF ResultOf, TypeOK
  <1>3. \A u \in Threads \ {t} : UNCHANGED WaitOf(u)
    BY <1>1 DEF EnterWait, End, Consume, TypeOK, WaitOf, grantVars
  <1>4. ASSUME NEW i \in DOMAIN req[t].objects, Consume(t, Satisfying(t, i)),
               index' = [index EXCEPT ![t] = i],
               End(t, SuccessOf(TakesOver(Satisfying(t, i))))
        PROVE  ResultOf(t)'
    <2>1. took'[t] = Satisfying(t, i) /\ index'[t] = i /\ pc'[t] = "done"
      BY <1>4 DEF TypeOK, Consume, End
    <2>2. outcome'[t] \in {"Success", "Abandoned"}
      BY <1>4 DEF TypeOK, End, SuccessOf
    <2>3. req[t].objects # <<>>
      BY <1>4
    <2> QED
      BY <1>1, <2>1, <2>2, <2>3 DEF ResultOf, TakenAt, Satisfying, ObjectsOf
  <1>5. ASSUME NEW result \in {"Alerted", "UserApc", "Timeout"}, End(t, result), UNCHANGED grantVars
        PROVE  ResultOf(t)'
    BY <1>2, <1>5 DEF TypeOK, End, grantVars, ResultOf
  <1>6. ASSUME pc' = [pc EXCEPT ![t] = "observe"], UNCHANGED <<grantVars, outcome>>
        PROVE  ResultOf(t)'
    BY <1>2, <1>6 DEF TypeOK, grantVars, ResultOf
  <1>7. ResultOf(t)'
    BY <1>4, <1>5, <1>6 DEF EnterWait
  <1> QED
    BY <1>3, <1>7, SameResult DEF GrantInv

\* A grant that came before the unregistration is reported, and without one
\* nothing was taken.
LEMMA LeaveKeepsResult ==
  ASSUME TypeOK, GrantInv, NEW t \in Threads, Leave(t)
  PROVE  ResultOf(t)'
  <1>1. ResultOf(t) /\ pc[t] = "leave" /\ UNCHANGED <<req, index, granted, took>>
    BY DEF GrantInv, Leave, grantVars
  <1>2. pc'[t] = "done" /\ outcome'[t] = LeaveResult(t)
    BY DEF TypeOK, Leave, End
  <1>3. CASE granted[t]
    <2>1. took[t] = TakenAt(t) /\ outcome'[t] \in {"Success", "Abandoned"}
      BY <1>1, <1>2, <1>3 DEF ResultOf, LeaveResult, SuccessOf
    <2>2. req[t].objects # <<>>
      BY <1>1, <1>3 DEF ResultOf
    <2> QED
      BY <1>1, <1>2, <2>1, <2>2 DEF ResultOf, TakenAt, ObjectsOf
  <1>4. CASE ~granted[t]
    BY <1>1, <1>2, <1>4 DEF ResultOf, LeaveResult
  <1> QED
    BY <1>3, <1>4

\* A thread that is not in a wait for objects: nothing is granted or taken.
LEMMA EndsWithNothing ==
  ASSUME TypeOK, NEW t \in Threads, ResultOf(t), pc[t] \in {"idle", "enter", "delay", "delayed"},
         UNCHANGED <<granted[t], index[t], took[t]>>,
         \/ pc'[t] = "done" /\ (outcome'[t] \in {"Success", "Abandoned"} => req'[t].objects = <<>>)
         \/ pc'[t] = "enter" /\ outcome'[t] = outcome[t]
         \/ pc'[t] = "delay" /\ outcome'[t] = outcome[t] /\ req'[t].objects = <<>>
  PROVE  ResultOf(t)'
  BY DEF TypeOK, ResultOf, Registered, LoopSteps

LEMMA NextGrantInv == TypeOK /\ GrantInv /\ [Next]_vars => GrantInv'
  <1> SUFFICES ASSUME TypeOK, GrantInv, [Next]_vars PROVE GrantInv'
    OBVIOUS
  <1>0. ASSUME NEW t \in Threads, ResultOf(t)', \A u \in Threads \ {t} : UNCHANGED WaitOf(u) PROVE GrantInv'
    BY <1>0, SameResult DEF GrantInv
  <1>1. ASSUME NEW t \in Threads, Visit(t) PROVE GrantInv'
    <2>1. Registered(t) /\ Registered(t)' /\ UNCHANGED <<pc, req, outcome>>
      BY <1>1 DEF Visit, WaitersOn, Registered
    <2>2. CASE Grant(t)
      <3>1. \A u \in Threads \ {t} : UNCHANGED WaitOf(u)
        BY <2>1, <2>2, Granted DEF WaitOf
      <3> QED
        BY <1>0, <2>1, <2>2, <3>1, Granted
    <2>3. CASE UNCHANGED grantVars
      BY <2>1, <2>3, SameResult DEF GrantInv, WaitOf, grantVars
    <2> QED
      BY <1>1, <2>2, <2>3 DEF Visit
  <1>2. ASSUME NEW t \in Threads, Retry(t) PROVE GrantInv'
    <2>1. pc[t] = "retry" /\ UNCHANGED <<req, outcome>> /\ \A u \in Threads \ {t} : pc'[u] = pc[u]
      BY <1>2 DEF TypeOK, Retry, Goto
    <2>2. CASE Grant(t) /\ Goto(t, "leave")
      <3>1. Registered(t) /\ Registered(t)'
        BY <2>1, <2>2 DEF TypeOK, Registered, LoopSteps, Goto
      <3>2. \A u \in Threads \ {t} : UNCHANGED WaitOf(u)
        BY <2>1, <2>2, <3>1, Granted DEF WaitOf
      <3> QED
        BY <1>0, <2>1, <2>2, <3>1, <3>2, Granted
    <2>3. CASE UNCHANGED grantVars /\ Goto(t, "alerts")
      <3>1. pc'[t] = "alerts" /\ \A u \in Threads \ {t} : UNCHANGED WaitOf(u)
        BY <2>1, <2>3 DEF TypeOK, WaitOf, grantVars, Goto
      <3>2. ResultOf(t)'
        BY <2>1, <2>3, <3>1, MovesOn DEF GrantInv, ResultOf, grantVars, Registered, LoopSteps
      <3> QED
        BY <1>0, <3>1, <3>2
    <2> QED
      BY <1>2, <2>2, <2>3 DEF Retry
  <1>3. ASSUME NEW t \in Threads, Leave(t) PROVE GrantInv'
    <2>1. \A u \in Threads \ {t} : UNCHANGED WaitOf(u)
      BY <1>3 DEF TypeOK, Leave, End, WaitOf, grantVars
    <2> QED
      BY <1>0, <1>3, <2>1, LeaveKeepsResult
  <1>4. ASSUME NEW t \in Threads, Return(t) PROVE GrantInv'
    <2>1. \A u \in Threads \ {t} : UNCHANGED WaitOf(u)
      BY <1>4 DEF TypeOK, Return, WaitOf
    <2>2. pc'[t] = "idle" /\ granted'[t] = FALSE /\ took'[t] = {} /\ outcome'[t] = "none"
      BY <1>4 DEF TypeOK, Return
    <2>3. ResultOf(t)'
      BY <2>2 DEF ResultOf
    <2> QED
      BY <1>0, <2>1, <2>3
  \* The other steps of a wait: a place, a reason to leave.
  <1>5. ASSUME NEW t \in Threads, Observe(t) \/ PollTerminated(t) \/ TestAlerts(t) \/ Wake(t) PROVE GrantInv'
    <2>1. /\ Registered(t) /\ pc[t] # "done" /\ UNCHANGED <<req, granted, index, took>>
          /\ \A u \in Threads \ {t} : UNCHANGED WaitOf(u)
      BY <1>5 DEF TypeOK, Observe, PollTerminated, TestAlerts, Wake, Goto, Sleep, WaitOf, grantVars,
                  Registered, LoopSteps
    <2>2. Registered(t)' /\ pc'[t] \notin {"done", "delay", "delayed"}
      BY <1>5 DEF TypeOK, Observe, PollTerminated, TestAlerts, Wake, Goto, Sleep, Registered, LoopSteps
    <2>3. outcome'[t] = outcome[t] \/ outcome'[t] \in {"Terminating", "Alerted", "UserApc", "Timeout"}
      BY <1>5 DEF TypeOK, Observe, PollTerminated, TestAlerts, Wake
    <2>4. ResultOf(t)'
      BY <2>1, <2>2, <2>3, MovesOn DEF GrantInv, ResultOf
    <2> QED
      BY <1>0, <2>1, <2>4
  <1>6. ASSUME NEW t \in Threads, EnterSignal(t) \/ DelayTest(t) \/ Exit(t) \/ Finish(t) PROVE GrantInv'
    <2>1. /\ pc[t] \notin {"done"} /\ ~Registered(t) /\ UNCHANGED <<req, granted, index, took, outcome>>
          /\ \A u \in Threads \ {t} : UNCHANGED WaitOf(u)
      BY <1>6 DEF TypeOK, EnterSignal, DelayTest, Exit, Finish, Goto, WaitOf, grantVars,
                  Registered, LoopSteps, Idle
    <2>2. pc'[t] # "done" /\ (pc'[t] \in {"delay", "delayed"} => pc[t] \in {"delay", "delayed"})
      BY <1>6 DEF TypeOK, EnterSignal, DelayTest, Exit, Finish, Goto
    <2>3. ResultOf(t)'
      BY <2>1, <2>2, MovesOn DEF GrantInv, ResultOf
    <2> QED
      BY <1>0, <2>1, <2>3
  <1>7. ASSUME NEW t \in Threads, NEW r \in Requests[t], BeginWait(t, r) PROVE GrantInv'
    <2>1. /\ pc[t] = "idle" /\ UNCHANGED <<granted, index, took>>
          /\ \A u \in Threads \ {t} : UNCHANGED WaitOf(u)
      BY <1>7 DEF TypeOK, BeginWait, End, Idle, WaitOf, grantVars
    <2>2. \/ pc'[t] = "done" /\ outcome'[t] = "Terminating"
          \/ pc'[t] = "enter" /\ outcome'[t] = outcome[t]
      BY <1>7 DEF TypeOK, BeginWait, End
    <2> QED
      BY <1>0, <2>1, <2>2, EndsWithNothing DEF GrantInv
  <1>8. ASSUME NEW t \in Threads, EnterSignalFails(t) PROVE GrantInv'
    <2>1. /\ pc[t] = "enter" /\ UNCHANGED <<granted, index, took>>
          /\ \A u \in Threads \ {t} : UNCHANGED WaitOf(u)
          /\ pc'[t] = "done" /\ outcome'[t] = "Failed"
      BY <1>8 DEF TypeOK, EnterSignalFails, End, WaitOf, grantVars
    <2> QED
      BY <1>0, <2>1, EndsWithNothing DEF GrantInv
  <1>9. ASSUME NEW t \in Threads, NEW alertable \in BOOLEAN, NEW positive \in BOOLEAN,
               BeginDelay(t, alertable, positive)
        PROVE  GrantInv'
    <2>1. /\ pc[t] = "idle" /\ UNCHANGED <<granted, index, took>>
          /\ \A u \in Threads \ {t} : UNCHANGED WaitOf(u)
      BY <1>9 DEF TypeOK, BeginDelay, End, Goto, Idle, WaitOf, grantVars
    <2>2. req'[t].objects = <<>>
      BY <1>9 DEF TypeOK, BeginDelay, DelayRequest
    <2>3. pc'[t] = "done" \/ (pc'[t] = "delay" /\ outcome'[t] = outcome[t])
      BY <1>9 DEF TypeOK, BeginDelay, End, Goto
    <2> QED
      BY <1>0, <2>1, <2>2, <2>3, EndsWithNothing DEF GrantInv
  <1>10. ASSUME NEW t \in Threads, DelayEnd(t) PROVE GrantInv'
    <2>1. /\ pc[t] = "delayed" /\ UNCHANGED <<granted, index, took, req>> /\ pc'[t] = "done"
          /\ \A u \in Threads \ {t} : UNCHANGED WaitOf(u)
      BY <1>10 DEF TypeOK, DelayEnd, End, WaitOf, grantVars
    <2>2. ResultOf(t) /\ req[t].objects = <<>>
      BY <2>1 DEF GrantInv, ResultOf
    <2> QED
      BY <1>0, <2>1, <2>2, EndsWithNothing
  <1>11. ASSUME UNCHANGED <<pc, req, granted, index, outcome, took>> PROVE GrantInv'
    BY <1>11, SameResult DEF GrantInv, WaitOf
  <1>12. ASSUME NEW t \in Threads, GuestStep(t) \/ Rundown(t) \/ Expire(t) PROVE GrantInv'
    BY <1>6, <1>7, <1>9, <1>11, <1>12
       DEF GuestStep, Rundown, ReleaseMutant, TestAlert, AbandonMutant, Expire, grantVars, waitVars
  <1>13. ASSUME ThreadStep \/ EndScan \/ UNCHANGED vars PROVE GrantInv'
    BY <1>11, <1>13 DEF ThreadStep, Terminate, Alert, QueueUserApc, RemoveUserApc, NotifyAlways,
                        EndScan, vars, grantVars, waitVars
  <1>14. ASSUME SignalStep PROVE GrantInv'
    BY <1>11, <1>14 DEF SignalStep, SetEvent, PulseEvent, ResetEvent, ReleaseSemaphore, SetTimer,
                        CancelTimer, FireTimer, GuestStore, Reconcile, grantVars, waitVars
  <1>15. ASSUME NEW t \in Threads, WaitStep(t) PROVE GrantInv'
    BY <1>2, <1>3, <1>4, <1>5, <1>6, <1>8, <1>10, <1>15, EnterWaitResult DEF WaitStep
  <1> QED
    BY <1>1, <1>12, <1>13, <1>14, <1>15 DEF Next

\* What a wait reports is what was consumed for it, whichever of a grant, a
\* deadline, an alert, an APC and a termination came first at the
\* unregistration in wait_for_objects_after().
THEOREM WaitsReportWhatTheyTook == Spec => []ResultMatchesTakes
  <1>1. Init => GrantInv
    BY DEF Init, GrantInv, ResultOf
  <1>2. TypeOK /\ GrantInv /\ [Next]_vars => (TypeOK /\ GrantInv)'
    BY NextType, NextGrantInv
  <1>3. GrantInv => ResultMatchesTakes
    BY DEF GrantInv, ResultOf, TakenAt, ResultMatchesTakes
  <1> QED
    BY <1>1, <1>2, <1>3, InitType, PTL DEF Spec


-----------------------------------------------------------------------------
(* Waits as their callers see them.  What the mapping to AtomicWait needs   *)
(* besides the invariants above: what a thread that is in a wait asked for, *)
(* why it may give up, and who is in the line.                              *)

\* The reason to leave is one that the request admits.
ReasonHolds(t) ==
  \/ outcome[t] = "Terminating" /\ terminated[t]
  \/ outcome[t] \in {"Alerted", "UserApc"} /\ req[t].alertable
  \/ outcome[t] = "Timeout" /\ req[t].timeout = "finite"

CallOf(t) ==
  /\ pc[t] \in {"enter", "locked"} \/ Registered(t) => req[t].objects # <<>>
  /\ pc[t] = "locked" => req[t].signal # None
  /\ took[t] = {} => index[t] = 0
  /\ expired[t] => pc[t] # "idle" /\ req[t].timeout = "finite"
  /\ pc[t] = "leave" /\ ~granted[t] => ReasonHolds(t)

LineInv  == \A t \in Threads : \A u \in ahead[t] : Registered(u)
PulseInv == scan.obj # None /\ scan.then = "clear" => scan.obj \in Counted

CallInv == (\A t \in Threads : CallOf(t)) /\ LineInv /\ PulseInv

\* A thread of which none of this changes, but that it may be terminated.
LEMMA SameCall ==
  ASSUME TypeOK, NEW t \in Threads, CallOf(t), UNCHANGED <<WaitOf(t), expired[t]>>,
         terminated[t] => terminated'[t]
  PROVE  CallOf(t)'
  BY DEF CallOf, WaitOf, Registered, ReasonHolds

\* Nor does a grant of its wait matter to it.
LEMMA GrantedCall ==
  ASSUME TypeOK, NEW t \in Threads, CallOf(t), Registered(t), Registered(t)', Grant(t),
         UNCHANGED <<req[t], expired[t]>>
  PROVE  CallOf(t)' /\ \A u \in Threads \ {t} : UNCHANGED <<granted[u], index[u], took[u]>>
  <1>1. PICK i \in DOMAIN req[t].objects :
          /\ Consume(t, Satisfying(t, i))
          /\ granted' = [granted EXCEPT ![t] = TRUE]
          /\ index' = [index EXCEPT ![t] = i]
    BY DEF Grant
  <1>2. /\ took'[t] = Satisfying(t, i) /\ granted'[t] = TRUE
        /\ \A u \in Threads \ {t} : UNCHANGED <<granted[u], index[u], took[u]>>
    BY <1>1 DEF TypeOK, Consume
  <1>3. took'[t] # {}
    BY <1>2, RequestObjects DEF Satisfying
  <1>4. pc'[t] \notin {"idle", "locked"} /\ req[t].objects # <<>> /\ pc[t] # "idle"
    BY DEF Registered, LoopSteps, CallOf
  <1>5. expired[t] => req[t].timeout = "finite"
    BY DEF CallOf
  <1> QED
    BY <1>2, <1>3, <1>4, <1>5 DEF CallOf

\* A thread that moves on in its wait, or ends it, without taking anything.
LEMMA MovedCall ==
  ASSUME TypeOK, NEW t \in Threads, CallOf(t), UNCHANGED <<index[t], took[t], expired[t], req[t]>>,
         pc'[t] \in {"enter", "locked"} \/ Registered(t)' => pc[t] \in {"enter", "locked"} \/ Registered(t),
         pc'[t] # "idle",
         pc'[t] = "locked" => req[t].signal # None,
         pc'[t] = "leave" /\ ~granted'[t] => ReasonHolds(t)'
  PROVE  CallOf(t)'
  <1>1. expired[t] => req[t].timeout = "finite"
    BY DEF CallOf
  <1>2. pc'[t] \in {"enter", "locked"} \/ Registered(t)' => req[t].objects # <<>>
    BY DEF CallOf
  <1>3. took[t] = {} => index[t] = 0
    BY DEF CallOf
  <1> QED
    BY <1>1, <1>2, <1>3 DEF CallOf

\* The line keeps its order and no one in it unregisters; no pulse starts.
LEMMA SameLine ==
  ASSUME LineInv, UNCHANGED ahead, \A t \in Threads : Registered(t) => Registered(t)',
         TypeOK
  PROVE  LineInv'
  BY DEF LineInv, TypeOK

LEMMA EnterWaitCall ==
  ASSUME TypeOK, CallInv, NEW t \in Threads, EnterWait(t)
  PROVE  CallInv'
  <1>1. /\ pc[t] \in {"enter", "locked"} /\ ~Registered(t) /\ CallOf(t)
        /\ UNCHANGED <<req, expired>> /\ scan'.obj = None
    BY DEF EnterWait, Registered, LoopSteps, CallInv, NoScan
  <1>2. \A u \in Threads \ {t} : UNCHANGED <<WaitOf(u), expired[u]>> /\ terminated'[u] = terminated[u]
    BY <1>1 DEF EnterWait, End, Consume, TypeOK, WaitOf, grantVars, threadVars
  <1>3. ASSUME NEW i \in DOMAIN req[t].objects, Consume(t, Satisfying(t, i)),
               index' = [index EXCEPT ![t] = i],
               End(t, SuccessOf(TakesOver(Satisfying(t, i))))
        PROVE  CallOf(t)'
    <2>1. took'[t] = Satisfying(t, i) /\ pc'[t] = "done"
      BY <1>3 DEF TypeOK, Consume, End
    <2>2. took'[t] # {}
      BY <2>1, RequestObjects DEF Satisfying
    <2>3. expired[t] => req[t].timeout = "finite"
      BY <1>1 DEF CallOf
    <2> QED
      BY <1>1, <2>1, <2>2, <2>3 DEF CallOf, Registered, LoopSteps
  <1>4. ASSUME NEW result, End(t, result), UNCHANGED grantVars PROVE CallOf(t)'
    <2>1. pc'[t] = "done" /\ UNCHANGED <<index, took>>
      BY <1>4 DEF TypeOK, End, grantVars
    <2> QED
      BY <1>1, <2>1, MovedCall DEF Registered, LoopSteps
  <1>5. ASSUME pc' = [pc EXCEPT ![t] = "observe"], UNCHANGED grantVars PROVE CallOf(t)'
    <2>1. pc'[t] = "observe" /\ UNCHANGED <<index, took>>
      BY <1>5 DEF TypeOK, grantVars
    <2> QED
      BY <1>1, <2>1, MovedCall
  <1>6. \A u \in Threads : CallOf(u)'
    BY <1>2, <1>3, <1>4, <1>5, SameCall DEF EnterWait, CallInv
  <1>7. \A u \in Threads : Registered(u) => Registered(u)'
    BY <1>1, <1>2 DEF Registered, WaitOf
  <1>8. UNCHANGED ahead \/ ahead' = [ahead EXCEPT ![t] = {u \in Threads : Registered(u)}]
    BY DEF EnterWait
  <1>9. LineInv'
    BY <1>7, <1>8 DEF TypeOK, CallInv, LineInv
  <1> QED
    BY <1>1, <1>6, <1>9 DEF CallInv, PulseInv

LEMMA NextCallInv == TypeOK /\ GrantInv /\ CallInv /\ [Next]_vars => CallInv'
  <1> SUFFICES ASSUME TypeOK, GrantInv, CallInv, [Next]_vars PROVE CallInv'
    OBVIOUS
  <1> USE ValueTypes
  \* A step of one thread that keeps the line and the lock, or starts no pulse.
  <1>0. ASSUME NEW t \in Threads, CallOf(t)',
               \A u \in Threads \ {t} : UNCHANGED <<WaitOf(u), expired[u]>>,
               \A u \in Threads \ {t} : terminated[u] => terminated'[u],
               ahead' = ahead, Registered(t) => Registered(t)', PulseInv'
        PROVE  CallInv'
    <2>1. \A u \in Threads : CallOf(u)'
      BY <1>0, SameCall DEF CallInv
    <2>2. \A u \in Threads : Registered(u) => Registered(u)'
      BY <1>0 DEF Registered, WaitOf
    <2> QED
      BY <1>0, <2>1, <2>2, SameLine DEF CallInv
  <1>1. ASSUME NEW t \in Threads, Visit(t) PROVE CallInv'
    <2>1. /\ Registered(t) /\ Registered(t)' /\ CallOf(t)
          /\ UNCHANGED <<pc, req, outcome, expired, terminated, ahead>>
      BY <1>1 DEF Visit, WaitersOn, Registered, threadVars, CallInv
    <2>2. PulseInv'
      BY <1>1 DEF TypeOK, Visit, CallInv, PulseInv
    <2>3. CASE Grant(t)
      <3>1. CallOf(t)' /\ \A u \in Threads \ {t} : UNCHANGED <<granted[u], index[u], took[u]>>
        BY <2>1, <2>3, GrantedCall
      <3>2. \A u \in Threads \ {t} : UNCHANGED <<WaitOf(u), expired[u]>>
        BY <2>1, <3>1 DEF WaitOf
      <3> QED
        BY <1>0, <2>1, <2>2, <3>1, <3>2
    <2>4. CASE UNCHANGED grantVars
      <3>1. \A u \in Threads : UNCHANGED <<WaitOf(u), expired[u]>>
        BY <2>1, <2>4 DEF WaitOf, grantVars
      <3>2. CallOf(t)'
        BY <2>1, <3>1, SameCall
      <3> QED
        BY <1>0, <2>1, <2>2, <3>1, <3>2
    <2> QED
      BY <1>1, <2>3, <2>4 DEF Visit
  <1>2. ASSUME NEW t \in Threads, Retry(t) PROVE CallInv'
    <2>1. /\ Registered(t) /\ Registered(t)' /\ CallOf(t) /\ pc'[t] \in {"leave", "alerts"}
          /\ UNCHANGED <<req, outcome, expired, terminated, ahead, scan>>
          /\ \A u \in Threads \ {t} : pc'[u] = pc[u]
      BY <1>2 DEF TypeOK, Retry, Goto, Registered, LoopSteps, threadVars, CallInv
    <2>2. PulseInv'
      BY <2>1 DEF CallInv, PulseInv
    <2>3. CASE Grant(t)
      <3>1. CallOf(t)' /\ \A u \in Threads \ {t} : UNCHANGED <<granted[u], index[u], took[u]>>
        BY <2>1, <2>3, GrantedCall
      <3>2. \A u \in Threads \ {t} : UNCHANGED <<WaitOf(u), expired[u]>>
        BY <2>1, <3>1 DEF WaitOf
      <3> QED
        BY <1>0, <2>1, <2>2, <3>1, <3>2
    <2>4. CASE UNCHANGED grantVars /\ Goto(t, "alerts")
      <3>1. pc'[t] = "alerts" /\ UNCHANGED <<index, took>>
        BY <2>4 DEF TypeOK, Goto, grantVars
      <3>2. CallOf(t)'
        BY <2>1, <3>1, MovedCall
      <3>3. \A u \in Threads \ {t} : UNCHANGED <<WaitOf(u), expired[u]>>
        BY <2>1, <2>4 DEF WaitOf, grantVars
      <3> QED
        BY <1>0, <2>1, <2>2, <3>2, <3>3
    <2> QED
      BY <1>2, <2>3, <2>4 DEF Retry
  <1>3. ASSUME NEW t \in Threads, Leave(t) PROVE CallInv'
    <2>1. /\ pc'[t] = "done" /\ CallOf(t) /\ UNCHANGED <<req, expired, terminated, scan, index, took>>
          /\ \A u \in Threads \ {t} : UNCHANGED <<WaitOf(u), expired[u]>>
          /\ ahead' = [u \in Threads |-> IF u = t THEN {} ELSE ahead[u] \ {t}]
      BY <1>3 DEF TypeOK, Leave, End, CallInv, threadVars, grantVars, WaitOf
    <2>2. CallOf(t)'
      BY <2>1, MovedCall DEF Registered, LoopSteps
    <2>3. \A u \in Threads : CallOf(u)'
      BY <2>1, <2>2, SameCall DEF CallInv
    <2>4. \A u \in Threads \ {t} : Registered(u) => Registered(u)'
      BY <2>1 DEF Registered, WaitOf
    <2>5. LineInv'
      BY <2>1, <2>4 DEF TypeOK, CallInv, LineInv
    <2> QED
      BY <2>1, <2>3, <2>5 DEF CallInv, PulseInv
  <1>4. ASSUME NEW t \in Threads, Return(t) PROVE CallInv'
    <2>1. /\ pc[t] = "done" /\ pc'[t] = "idle" /\ index'[t] = 0 /\ expired'[t] = FALSE
          /\ UNCHANGED <<ahead, scan, terminated>>
          /\ \A u \in Threads \ {t} : UNCHANGED <<WaitOf(u), expired[u]>>
      BY <1>4 DEF TypeOK, Return, WaitOf
    <2>2. CallOf(t)' /\ ~Registered(t)
      BY <2>1 DEF CallOf, Registered, LoopSteps
    <2>3. PulseInv'
      BY <2>1 DEF CallInv, PulseInv
    <2> QED
      BY <1>0, <2>1, <2>2, <2>3
  <1>5. ASSUME NEW t \in Threads, Observe(t) \/ PollTerminated(t) \/ TestAlerts(t) \/ Wake(t) PROVE CallInv'
    <2>1. /\ Registered(t) /\ CallOf(t)
          /\ UNCHANGED <<req, granted, index, took, expired, terminated, ahead, scan>>
          /\ \A u \in Threads \ {t} : UNCHANGED <<WaitOf(u), expired[u]>>
      BY <1>5 DEF TypeOK, Observe, PollTerminated, TestAlerts, Wake, Goto, Sleep, WaitOf, grantVars,
                  Registered, LoopSteps, threadVars, CallInv
    <2>2. Registered(t)' /\ pc'[t] \in LoopSteps \cup {"leave"}
      BY <1>5 DEF TypeOK, Observe, PollTerminated, TestAlerts, Wake, Goto, Sleep, Registered, LoopSteps
    <2>3. expired[t] => req[t].timeout = "finite"
      BY <2>1 DEF CallOf
    <2>4. pc'[t] = "leave" /\ ~granted[t] => ReasonHolds(t)'
      BY <1>5, <2>1, <2>3
         DEF TypeOK, Observe, PollTerminated, TestAlerts, Wake, Goto, Sleep, ReasonHolds, threadVars
    <2>5. CallOf(t)'
      BY <2>1, <2>2, <2>4, MovedCall DEF LoopSteps
    <2>6. PulseInv'
      BY <2>1 DEF CallInv, PulseInv
    <2> QED
      BY <1>0, <2>1, <2>2, <2>5, <2>6
  <1>6. ASSUME NEW t \in Threads, EnterSignal(t) PROVE CallInv'
    <2>1. /\ pc[t] = "enter" /\ req[t].signal # None /\ pc'[t] = "locked" /\ CallOf(t)
          /\ UNCHANGED <<req, granted, index, took, expired, terminated, ahead, outcome>>
          /\ \A u \in Threads \ {t} : UNCHANGED <<WaitOf(u), expired[u]>>
      BY <1>6 DEF TypeOK, EnterSignal, WaitOf, grantVars, threadVars, CallInv
    <2>2. CallOf(t)' /\ ~Registered(t)
      BY <2>1, MovedCall DEF Registered, LoopSteps
    <2>3. scan'.then # "clear" \/ scan'.obj = None
      BY <1>6 DEF EnterSignal, SignalAs, DropMutant, ScanOf, HeldBy
    <2> QED
      BY <1>0, <2>1, <2>2, <2>3 DEF PulseInv
  <1>7. ASSUME NEW t \in Threads, EnterSignalFails(t) \/ DelayTest(t) \/ DelayEnd(t) \/ Exit(t) \/ Finish(t)
        PROVE  CallInv'
    <2>1. /\ ~Registered(t) /\ CallOf(t) /\ (terminated[t] => terminated'[t])
          /\ UNCHANGED <<req, granted, index, took, expired, ahead, scan>>
          /\ \A u \in Threads \ {t} : UNCHANGED <<WaitOf(u), expired[u]>> /\ terminated'[u] = terminated[u]
      BY <1>7 DEF TypeOK, EnterSignalFails, DelayTest, DelayEnd, Exit, Finish, Goto, End, Idle, WaitOf,
                  grantVars, threadVars, Registered, LoopSteps, CallInv
    <2>2. pc'[t] \in {"delay", "delayed", "done", "rundown", "exited"}
      BY <1>7 DEF TypeOK, EnterSignalFails, DelayTest, DelayEnd, Exit, Finish, Goto, End
    <2>3. CallOf(t)'
      BY <2>1, <2>2, MovedCall DEF Registered, LoopSteps
    <2>4. PulseInv'
      BY <2>1 DEF CallInv, PulseInv
    <2> QED
      BY <1>0, <2>1, <2>3, <2>4
  <1>8. ASSUME NEW t \in Threads, NEW r \in Requests[t], BeginWait(t, r) PROVE CallInv'
    <2>1. /\ pc[t] = "idle" /\ CallOf(t) /\ UNCHANGED <<granted, index, took, expired, terminated, ahead, scan>>
          /\ \A u \in Threads \ {t} : UNCHANGED <<WaitOf(u), expired[u]>>
      BY <1>8 DEF TypeOK, BeginWait, End, Idle, WaitOf, grantVars, threadVars, CallInv
    <2>2. pc'[t] \in {"enter", "done"} /\ req'[t] = r /\ r.objects # <<>>
      BY <1>8, RequestsAssumption DEF TypeOK, BeginWait, End
    <2>3. ~expired[t] /\ (took[t] = {} => index[t] = 0) /\ ~Registered(t)
      BY <2>1 DEF CallOf, Registered, LoopSteps
    <2>4. CallOf(t)'
      BY <2>1, <2>2, <2>3 DEF CallOf, Registered, LoopSteps
    <2>5. PulseInv'
      BY <2>1 DEF CallInv, PulseInv
    <2> QED
      BY <1>0, <2>1, <2>3, <2>4, <2>5
  <1>9. ASSUME NEW t \in Threads, NEW alertable \in BOOLEAN, NEW positive \in BOOLEAN,
               BeginDelay(t, alertable, positive)
        PROVE  CallInv'
    <2>1. /\ pc[t] = "idle" /\ CallOf(t) /\ UNCHANGED <<granted, index, took, expired, terminated, ahead, scan>>
          /\ \A u \in Threads \ {t} : UNCHANGED <<WaitOf(u), expired[u]>>
      BY <1>9 DEF TypeOK, BeginDelay, End, Goto, Idle, WaitOf, grantVars, CallInv
    <2>2. pc'[t] \in {"delay", "done"}
      BY <1>9 DEF TypeOK, BeginDelay, End, Goto
    <2>3. ~expired[t] /\ (took[t] = {} => index[t] = 0) /\ ~Registered(t)
      BY <2>1 DEF CallOf, Registered, LoopSteps
    <2>4. CallOf(t)'
      BY <2>1, <2>2, <2>3 DEF CallOf, Registered, LoopSteps
    <2>5. PulseInv'
      BY <2>1 DEF CallInv, PulseInv
    <2> QED
      BY <1>0, <2>1, <2>3, <2>4, <2>5
  <1>10. ASSUME NEW t \in Threads, Expire(t) PROVE CallInv'
    <2>1. /\ UNCHANGED <<pc, req, granted, index, took, outcome, terminated, ahead, scan>> /\ CallOf(t)
          /\ req[t].timeout = "finite" /\ pc[t] # "idle"
          /\ \A u \in Threads \ {t} : expired'[u] = expired[u]
      BY <1>10 DEF TypeOK, Expire, threadVars, grantVars, LoopSteps, CallInv
    <2>2. CallOf(t)'
      BY <2>1 DEF CallOf, Registered, ReasonHolds
    <2>3. PulseInv' /\ (Registered(t) => Registered(t)')
      BY <2>1 DEF CallInv, PulseInv, Registered
    <2>4. \A u \in Threads \ {t} : UNCHANGED <<WaitOf(u), expired[u]>>
      BY <2>1 DEF WaitOf
    <2> QED
      BY <1>0, <2>1, <2>2, <2>3, <2>4
  \* The steps that change no wait.
  <1>11. ASSUME UNCHANGED <<pc, req, granted, index, outcome, took, expired, ahead>>,
                \A u \in Threads : terminated[u] => terminated'[u], PulseInv'
         PROVE  CallInv'
    <2>1. \A u \in Threads : UNCHANGED <<WaitOf(u), expired[u]>>
      BY <1>11 DEF WaitOf
    <2>2. \A u \in Threads : CallOf(u)'
      BY <1>11, <2>1, SameCall DEF CallInv
    <2>3. \A u \in Threads : Registered(u) => Registered(u)'
      BY <1>11 DEF Registered
    <2> QED
      BY <1>11, <2>2, <2>3, SameLine DEF CallInv
  <1>12. ASSUME NEW t \in Threads, NEW m \in Mutants, ReleaseMutant(t, m) \/ AbandonMutant(t, m) PROVE CallInv'
    <2>1. scan'.then # "clear" \/ scan'.obj = None
      BY <1>12 DEF ReleaseMutant, AbandonMutant, DropMutant, ScanOf, NoScan
    <2> QED
      BY <1>11, <1>12, <2>1 DEF ReleaseMutant, AbandonMutant, grantVars, waitVars, threadVars, PulseInv
  <1>13. ASSUME NEW t \in Threads, GuestStep(t) \/ Rundown(t) \/ Expire(t) PROVE CallInv'
    <2>1. TestAlert(t) => CallInv'
      BY <1>11 DEF TestAlert, grantVars, waitVars, CallInv, PulseInv
    <2> QED
      BY <1>7, <1>8, <1>9, <1>10, <1>12, <1>13, <2>1 DEF GuestStep, Rundown
  <1>14. ASSUME ThreadStep \/ UNCHANGED vars PROVE CallInv'
    <2>1. PulseInv' /\ UNCHANGED <<pc, req, granted, index, outcome, took, expired, ahead>>
      BY <1>14 DEF ThreadStep, Terminate, Alert, QueueUserApc, RemoveUserApc, NotifyAlways,
                   vars, grantVars, waitVars, CallInv, PulseInv
    <2>2. \A u \in Threads : terminated[u] => terminated'[u]
      BY <1>14 DEF TypeOK, ThreadStep, Terminate, Alert, QueueUserApc, RemoveUserApc, NotifyAlways,
                   vars, threadVars
    <2> QED
      BY <1>11, <2>1, <2>2
  <1>15. ASSUME EndScan PROVE CallInv'
    <2>1. scan'.obj = None
      BY <1>15 DEF EndScan, HeldBy, NoScan
    <2> QED
      BY <1>11, <1>15, <2>1 DEF EndScan, threadVars, grantVars, waitVars, PulseInv
  <1>16. ASSUME SignalStep PROVE CallInv'
    <2>1. UNCHANGED <<pc, req, granted, index, outcome, took, expired, ahead, terminated>>
      BY <1>16 DEF SignalStep, SetEvent, PulseEvent, ResetEvent, ReleaseSemaphore, SetTimer,
                   CancelTimer, FireTimer, GuestStore, Reconcile, grantVars, waitVars, threadVars
    <2>2. UNCHANGED scan \/ scan'.obj \in Counted
      BY <1>16 DEF SignalStep, SetEvent, PulseEvent, ResetEvent, ReleaseSemaphore, SetTimer,
                   CancelTimer, FireTimer, GuestStore, Reconcile, SignalAs, StoreAs, ScanOf
    <2> QED
      BY <1>11, <2>1, <2>2 DEF CallInv, PulseInv
  <1>17. ASSUME NEW t \in Threads, WaitStep(t) PROVE CallInv'
    BY <1>2, <1>3, <1>4, <1>5, <1>6, <1>7, <1>17, EnterWaitCall DEF WaitStep
  <1> QED
    BY <1>1, <1>13, <1>14, <1>15, <1>16, <1>17 DEF Next

-----------------------------------------------------------------------------
(* The mapping.  A thread's abstract wait, and the operators of AtomicWait  *)
(* in terms of the dispatcher's.                                            *)

Phases  == [t \in Threads |-> Phase(t)]
Asks    == [t \in Threads |-> Asked(t)]
Lines   == [t \in Threads |-> Line(t)]
Results == [t \in Threads |-> Result(t)]

\* The phase says where the thread is.
LEMMA PhaseOf ==
  ASSUME TypeOK, NEW t \in Threads
  PROVE  /\ pc[t] \in {"enter", "locked"} => Phase(t) = "called"
         /\ Phase(t) = "waiting" <=> Waiting(t)
         /\ Registered(t) /\ granted[t] => Phase(t) = "over"
         /\ pc[t] = "done" /\ req[t].objects # <<>> => Phase(t) = "over"
         /\ pc[t] = "done" /\ req[t].objects = <<>> => Phase(t) = "idle"
         /\ pc[t] \in {"idle", "delay", "delayed", "rundown", "exited"} => Phase(t) = "idle"
         /\ Phase(t) # "idle" => Asked(t) = req[t]
         /\ Phase(t) = "idle" => Asked(t) = None
         /\ Phase(t) # "over" => Result(t) = "none"
  BY DEF Phase, Waiting, Registered, LoopSteps, Asked, Result

LEMMA AbstractWait ==
  ASSUME TypeOK, NEW t \in Threads, Phase(t) # "idle"
  PROVE  /\ Atomic!ObjectsOf(t) = ObjectsOf(t)
         /\ Atomic!Satisfiable(t) <=> Satisfiable(t)
         /\ Atomic!BySignal(t) <=> SignalSatisfiable(t)
         /\ \A i : Atomic!SatisfiedAt(t, i) <=> SatisfiedAt(t, i)
         /\ \A i : Atomic!Chosen(t, i) = Satisfying(t, i)
  <1>1. Asks[t] = req[t] /\ Asks[t] = Asked(t)
    BY PhaseOf DEF Asks
  <1>2. Atomic!ObjectsOf(t) = ObjectsOf(t)
    BY <1>1 DEF Atomic!ObjectsOf, ObjectsOf, Asks
  <1>3. \A o : Atomic!CanSatisfy(o, t) <=> CanSatisfy(o, t)
    BY DEF Atomic!CanSatisfy, CanSatisfy
  <1>4. Atomic!Satisfiable(t) <=> Satisfiable(t)
    BY <1>1, <1>2, <1>3 DEF Atomic!Satisfiable, Satisfiable, Asks
  <1>5. Atomic!BySignal(t) <=> SignalSatisfiable(t)
    BY <1>1, <1>2, <1>3 DEF Atomic!BySignal, SignalSatisfiable, Asks
  <1>6. \A i : Atomic!SatisfiedAt(t, i) <=> SatisfiedAt(t, i)
    BY <1>1, <1>3, <1>4 DEF Atomic!SatisfiedAt, SatisfiedAt, Asks
  <1>7. \A i : Atomic!Chosen(t, i) = Satisfying(t, i)
    BY <1>1, <1>2 DEF Atomic!Chosen, Satisfying, Asks
  <1> QED
    BY <1>2, <1>4, <1>5, <1>6, <1>7

LEMMA AbstractWaiting ==
  ASSUME TypeOK
  PROVE  Atomic!Waiting = {t \in Threads : Waiting(t)}
  BY PhaseOf DEF Atomic!Waiting

\* With no walk before it, a wait that a signal satisfies is no longer one.
LEMMA SettledWhenWalked ==
  ASSUME TypeOK, NoMissedSignal, \A t \in Threads : ~AwaitsVisit(t)
  PROVE  Atomic!Settled
  <1>1. \A t \in Threads : Waiting(t) => Phase(t) # "idle" /\ ~SignalSatisfiable(t)
    BY PhaseOf DEF NoMissedSignal
  <1> QED
    BY <1>1, AbstractWait, AbstractWaiting DEF Atomic!Settled

LEMMA FreeWhenUnlocked ==
  ASSUME TypeOK, NoMissedSignal, LockFree
  PROVE  Atomic!Free /\ Atomic!Settled /\ Owed = None
  <1>1. \A t \in Threads : ~AwaitsVisit(t)
    BY DEF LockFree, NoScan, AwaitsVisit
  <1>2. Owed = None
    BY DEF LockFree, NoScan, Owed
  <1> QED
    BY <1>1, <1>2, SettledWhenWalked DEF Atomic!Free

\* A thread's abstract wait is a function of these.
WaitSeen(t) == <<pc[t], req[t], granted[t], takeover[t], outcome[t]>>

LEMMA SameSeen ==
  ASSUME NEW t \in Threads, UNCHANGED WaitSeen(t)
  PROVE  UNCHANGED <<Phase(t), Asked(t), Result(t)>> /\ Waiting(t)' = Waiting(t)
  <1>1. Waiting(t)' = Waiting(t) /\ Registered(t)' = Registered(t)
    BY DEF WaitSeen, Waiting, Registered
  <1>2. Phase(t)' = Phase(t)
    BY <1>1 DEF WaitSeen, Phase
  <1> QED
    BY <1>1, <1>2 DEF WaitSeen, Asked, Result

\* The line is that of the waits in it.
LEMMA SameLines ==
  ASSUME TypeOK, UNCHANGED ahead, \A t \in Threads : Waiting(t)' = Waiting(t)
  PROVE  Lines' = Lines
  <1>1. \A t \in Threads : Line(t)' = Line(t)
    BY DEF Line, TypeOK
  <1> QED
    BY <1>1 DEF Lines

\* A step that no wait sees, whatever it does to objects.
LEMMA SameAbstractWaits ==
  ASSUME \A t \in Threads : UNCHANGED <<Phase(t), Asked(t), Result(t)>>,
         Lines' = Lines, UNCHANGED <<index, took>>
  PROVE  UNCHANGED Atomic!waits
  <1>1. Phases' = Phases /\ Asks' = Asks /\ Results' = Results
    BY DEF Phases, Asks, Results
  <1> QED
    BY <1>1 DEF Atomic!waits, Phases, Asks, Lines, Results

\* A step that no caller of a wait sees.
LEMMA Unseen ==
  ASSUME \A t \in Threads : UNCHANGED <<Phase(t), Asked(t), Result(t)>>,
         Lines' = Lines, Owed' = Owed,
         UNCHANGED <<signal, owner, recursion, abandoned, terminated, index, took>>
  PROVE  UNCHANGED Atomic!vars
  BY SameAbstractWaits DEF Atomic!vars, Atomic!objects

-----------------------------------------------------------------------------
(* The dispatcher implements the atomic waits: one lemma per kind of step.  *)

\* What is owed when the walk of o's list starts, and when there is none.
LEMMA OwedAfter ==
  /\ \A o, v, then, who : o # None /\ scan' = ScanOf(o, v, then, who)
       => Owed' = IF then = "clear" THEN o ELSE IF then = "wait" THEN who ELSE None
  /\ \A t : scan' = HeldBy(t) => Owed' = t
  /\ scan' = NoScan => Owed' = None
  BY DEF Owed, ScanOf, HeldBy, NoScan

\* No wait is touched.
LEMMA WaitsUntouched ==
  ASSUME TypeOK, UNCHANGED <<waitVars, grantVars>>
  PROVE  /\ \A t \in Threads : UNCHANGED <<Phase(t), Asked(t), Result(t)>>
         /\ Lines' = Lines /\ UNCHANGED Atomic!waits
  <1>1. \A t \in Threads : UNCHANGED WaitSeen(t)
    BY DEF waitVars, grantVars, WaitSeen
  <1>2. \A t \in Threads : UNCHANGED <<Phase(t), Asked(t), Result(t)>>
    BY <1>1, SameSeen
  <1>3. Lines' = Lines
    BY <1>1, SameSeen, SameLines DEF waitVars
  <1> QED
    BY <1>2, <1>3, SameAbstractWaits DEF grantVars

LEMMA SignalRefines ==
  ASSUME TypeOK, NoMissedSignal, LockFree, NEW o \in Counted, NEW v \in 0..LimitOf(o),
         signal' = [signal EXCEPT ![o] = v], Owed' \in {None, o},
         UNCHANGED <<owner, recursion, abandoned, threadVars, grantVars, waitVars>>
  PROVE  Atomic!Next
  <1>1. PICK next \in {None, o} : Owed' = next
    OBVIOUS
  <1>2. UNCHANGED Atomic!waits /\ terminated' = terminated
    BY WaitsUntouched DEF threadVars
  <1>3. Atomic!Signal(o, v, next)
    BY <1>1, <1>2, FreeWhenUnlocked DEF Atomic!Signal
  <1> QED
    BY <1>3 DEF Atomic!Next, Atomic!ObjectStep

\* The operations on events, semaphores and timers, and the adoption of what
\* the guest stored.
LEMMA SignalStepRefines ==
  ASSUME TypeOK, NoMissedSignal, SignalStep
  PROVE  Atomic!Next \/ UNCHANGED Atomic!vars
  <1> USE ValueTypes
  <1>0. \A o \in Counted : o # None /\ 0 \in 0..LimitOf(o) /\ 1 \in 0..LimitOf(o) /\ signal[o] \in 0..LimitOf(o)
    BY ObjectsAssumption DEF Objects, TypeOK
  <1>1. ASSUME NEW o \in Counted, NEW v \in 0..LimitOf(o), NEW then \in {"store", "clear", "adopt"},
               SignalAs(o, v, then, None), LockFree, UNCHANGED <<threadVars, grantVars, waitVars>>
        PROVE  Atomic!Next
    <2>1. Owed' \in {None, o}
      BY <1>0, <1>1, OwedAfter DEF SignalAs
    <2> QED
      BY <1>1, <2>1, SignalRefines DEF SignalAs
  <1>2. ASSUME NEW o \in Counted, signal' = [signal EXCEPT ![o] = 0], LockFree, UNCHANGED scan,
               UNCHANGED <<owner, recursion, abandoned, threadVars, grantVars, waitVars>>
        PROVE  Atomic!Next
    <2>1. Owed' = None
      BY <1>2, OwedAfter DEF LockFree
    <2> QED
      BY <1>0, <1>2, <2>1, SignalRefines
  <1>3. ASSUME NEW e \in Events, SetEvent(e) \/ PulseEvent(e) \/ ResetEvent(e) PROVE Atomic!Next
    BY <1>0, <1>1, <1>2, <1>3 DEF SetEvent, PulseEvent, ResetEvent, StoreAs
  <1>4. ASSUME NEW s \in Semaphores, NEW n \in 1..Limit[s], ReleaseSemaphore(s, n) PROVE Atomic!Next
    <2>1. signal[s] + n \in 0..LimitOf(s)
      BY <1>4, LimitAssumption DEF TypeOK, ReleaseSemaphore
    <2> QED
      BY <1>1, <1>4, <2>1 DEF ReleaseSemaphore
  <1>5. ASSUME NEW tm \in Timers, NEW immediate \in BOOLEAN, SetTimer(tm, immediate) PROVE Atomic!Next
    BY <1>0, <1>1, <1>2, <1>5 DEF SetTimer, StoreAs
  <1>6. ASSUME NEW tm \in Timers, CancelTimer(tm) PROVE Atomic!Next
    BY <1>2, <1>6 DEF CancelTimer, StoreAs
  <1>7. ASSUME NEW tm \in Timers, NEW periodic \in BOOLEAN, FireTimer(tm, periodic) PROVE Atomic!Next
    BY <1>0, <1>1, <1>7 DEF FireTimer
  <1>8. ASSUME NEW o \in Mirrored, Reconcile(o) PROVE Atomic!Next
    <2>1. GuestState(o) \in 0..LimitOf(o)
      BY <1>8 DEF Reconcile, Adoptable
    <2> QED
      BY <1>1, <1>2, <1>8, <2>1 DEF Reconcile
  <1>9. ASSUME NEW o \in Mirrored, NEW v \in GuestValues, GuestStore(o, v) PROVE UNCHANGED Atomic!vars
    <2>1. Owed' = Owed
      BY <1>9 DEF GuestStore, Owed
    <2> QED
      BY <1>9, <2>1, WaitsUntouched, Unseen DEF GuestStore, threadVars, grantVars
  <1> QED
    BY <1>3, <1>4, <1>5, <1>6, <1>7, <1>8, <1>9 DEF SignalStep

\* The walk ends: a pulse clears its event; nothing else is seen.
LEMMA EndScanRefines ==
  ASSUME TypeOK, NoMissedSignal, CallInv, EndScan
  PROVE  Atomic!Next \/ UNCHANGED Atomic!vars
  <1>1. Atomic!Settled
    <2>1. \A t \in Threads : ~AwaitsVisit(t)
      BY DEF EndScan, ScanComplete, AwaitsVisit
    <2> QED
      BY <2>1, SettledWhenWalked
  <1>2. /\ UNCHANGED <<owner, recursion, abandoned, terminated, index, took>>
        /\ UNCHANGED Atomic!waits /\ Lines' = Lines
        /\ \A t \in Threads : UNCHANGED <<Phase(t), Asked(t), Result(t)>>
    BY WaitsUntouched DEF EndScan, threadVars, grantVars
  <1>3. CASE scan.then = "clear"
    <2>1. PICK o \in Counted : scan.obj = o /\ Owed = o
      BY <1>3 DEF CallInv, PulseInv, EndScan, Owed
    <2>2. signal' = [signal EXCEPT ![o] = 0]
      BY <1>3, <2>1 DEF TypeOK, EndScan
    <2>3. Owed' = None
      BY <1>3, OwedAfter DEF EndScan
    <2>4. Atomic!Clear(o)
      BY <1>1, <1>2, <2>1, <2>2, <2>3 DEF Atomic!Clear
    <2> QED
      BY <2>4 DEF Atomic!Next, Atomic!ObjectStep
  <1>4. CASE scan.then # "clear"
    <2>1. signal' = signal
      BY <1>4 DEF TypeOK, EndScan
    <2>2. Owed' = Owed
      BY <1>4, OwedAfter DEF EndScan, Owed
    <2> QED
      BY <1>2, <2>1, <2>2, Unseen
  <1> QED
    BY <1>3, <1>4

\* One level of a mutant, or all of it.
LEMMA DropRefines ==
  ASSUME TypeOK, NEW t \in Threads, NEW m \in Mutants, NEW then \in {"store", "wait"}, DropMutant(t, m, then)
  PROVE  Atomic!Drop(t, m) /\ Owed' = IF then = "wait" THEN t ELSE None
  <1>1. owner' = [owner EXCEPT ![m] = IF recursion[m] = 1 THEN None ELSE @]
    BY DEF TypeOK, DropMutant
  <1>2. m # None
    BY ObjectsAssumption DEF Objects
  <1>3. Owed' = IF then = "wait" THEN t ELSE None
    BY <1>2, OwedAfter DEF DropMutant
  <1> QED
    BY <1>1, <1>3 DEF Atomic!Drop, DropMutant

LEMMA MutantStepRefines ==
  ASSUME TypeOK, NoMissedSignal, NEW t \in Threads, NEW m \in Mutants,
         ReleaseMutant(t, m) \/ AbandonMutant(t, m)
  PROVE  Atomic!Next
  <1>1. UNCHANGED Atomic!waits /\ terminated' = terminated /\ LockFree
    BY WaitsUntouched DEF ReleaseMutant, AbandonMutant, threadVars
  <1>2. Phases[t] = "idle" /\ Phases[t] = Phase(t)
    BY PhaseOf DEF Phases, ReleaseMutant, AbandonMutant, Idle
  <1>3. Atomic!Free /\ Owed = None
    BY <1>1, FreeWhenUnlocked
  <1>4. CASE ReleaseMutant(t, m)
    <2>1. Atomic!Drop(t, m) /\ Owed' = None
      BY <1>4, DropRefines DEF ReleaseMutant
    <2>2. Atomic!Release(t, m)
      BY <1>1, <1>2, <1>3, <2>1 DEF Atomic!Release, Phases
    <2> QED
      BY <2>2 DEF Atomic!Next, Atomic!ObjectStep
  <1>5. CASE AbandonMutant(t, m)
    <2>1. Owed' = None
      BY <1>5, OwedAfter, ObjectsAssumption DEF AbandonMutant, Objects
    <2>2. Atomic!Abandon(t, m)
      BY <1>1, <1>2, <1>3, <1>5, <2>1 DEF Atomic!Abandon, Phases, AbandonMutant
    <2> QED
      BY <2>2 DEF Atomic!Next, Atomic!ObjectStep
  <1> QED
    BY <1>4, <1>5

\* A step of one thread's wait: the others' waits stay as they are.
LEMMA OneWaitMoves ==
  ASSUME NEW t \in Threads, \A u \in Threads \ {t} : UNCHANGED WaitSeen(u)
  PROVE  /\ Phases' = [Phases EXCEPT ![t] = Phase(t)']
         /\ Asks' = [Asks EXCEPT ![t] = Asked(t)']
         /\ Results' = [Results EXCEPT ![t] = Result(t)']
         /\ \A u \in Threads \ {t} : Waiting(u)' = Waiting(u)
  BY SameSeen DEF Phases, Asks, Results

\* A grant is the abstract take: no older wait is satisfied by a signal.
LEMMA GrantRefines ==
  ASSUME TypeOK, TypeOK', NEW t \in Threads, Waiting(t), Registered(t)', Grant(t),
         \A u \in ahead[t] : Waiting(u) => ~SignalSatisfiable(u),
         UNCHANGED <<req, ahead, terminated, outcome>>, Owed' = Owed,
         \A u \in Threads \ {t} : pc'[u] = pc[u]
  PROVE  Atomic!Next
  <1>1. PICK i \in DOMAIN req[t].objects :
          /\ SatisfiedAt(t, i)
          /\ Consume(t, Satisfying(t, i))
          /\ granted' = [granted EXCEPT ![t] = TRUE]
          /\ index' = [index EXCEPT ![t] = i]
          /\ takeover' = [takeover EXCEPT ![t] = TakesOver(Satisfying(t, i))]
    BY DEF Grant
  <1>2. PICK S : S = Satisfying(t, i)
    OBVIOUS
  <1>3. granted'[t] = TRUE /\ takeover'[t] = TakesOver(S)
        /\ \A u \in Threads \ {t} : UNCHANGED WaitSeen(u)
    BY <1>1, <1>2 DEF TypeOK, WaitSeen
  <1>4. Phase(t) = "waiting" /\ Phase(t)' = "over" /\ Asked(t) = req[t] /\ Asked(t)' = req[t] /\ ~Waiting(t)'
    <2>1. Phase(t) = "waiting" /\ Asked(t) = req[t]
      BY PhaseOf
    <2>2. ~Waiting(t)' /\ pc'[t] \notin {"enter", "locked", "done"}
      BY <1>3 DEF Waiting, Registered, LoopSteps
    <2>3. Phase(t)' = "over"
      BY <2>2 DEF Phase
    <2> QED
      BY <2>1, <2>2, <2>3 DEF Asked
  <1>5. Result(t)' = SuccessOf(TakesOver(S))
    <2>1. pc'[t] # "done"
      BY DEF Registered, LoopSteps
    <2> QED
      BY <1>3, <1>4, <2>1 DEF Result
  <1>6. /\ Phases' = [Phases EXCEPT ![t] = "over"] /\ Asks' = Asks
        /\ Results' = [Results EXCEPT ![t] = SuccessOf(TakesOver(S))]
        /\ \A u \in Threads \ {t} : Waiting(u)' = Waiting(u)
    <2>1. Asks' = [Asks EXCEPT ![t] = Asks[t]]
      BY <1>3, <1>4, OneWaitMoves DEF Asks
    <2> QED
      BY <1>3, <1>4, <1>5, <2>1, OneWaitMoves DEF Asks
  <1>7. Lines' = [u \in Threads |-> IF u = t THEN {} ELSE Lines[u] \ {t}]
    <2>1. Line(t)' = {}
      BY <1>4 DEF Line
    <2>2. \A u \in Threads \ {t} : Line(u)' = Line(u) \ {t}
      BY <1>4, <1>6 DEF Line, TypeOK
    <2> QED
      BY <2>1, <2>2 DEF Lines
  <1>8. \A u \in Lines[t] : ~Atomic!BySignal(u)
    <2>1. \A u \in Lines[t] : u \in Threads /\ u \in ahead[t] /\ Waiting(u)
      BY DEF Lines, Line, TypeOK
    <2> QED
      BY <2>1, AbstractWait, PhaseOf
  <1>9. Atomic!SatisfiedAt(t, i) /\ Atomic!Chosen(t, i) = S /\ Asks[t] = req[t]
    BY <1>1, <1>2, <1>4, AbstractWait DEF Asks
  <1>10. Atomic!TakeOf(t, S) /\ took' = [took EXCEPT ![t] = S]
    BY <1>1, <1>2 DEF Atomic!TakeOf, Consume, Consumed
  <1>11. Atomic!ResultOf(S) = SuccessOf(TakesOver(S))
    BY DEF Atomic!ResultOf, SuccessOf, TakesOver
  <1>12. Atomic!Takes(t)
    BY <1>1, <1>6, <1>9, <1>10, <1>11 DEF Atomic!Takes, Atomic!Becomes, Phases, Asks, Results
  <1>13. Atomic!Take(t)
    BY <1>4, <1>7, <1>8, <1>12 DEF Atomic!Take, Atomic!LeavesLine, Phases, Lines
  <1> QED
    BY <1>13 DEF Atomic!Next, Atomic!WaitStep

LEMMA VisitRefines ==
  ASSUME TypeOK, TypeOK', NoMissedSignal, NEW t \in Threads, Visit(t)
  PROVE  Atomic!Next \/ UNCHANGED Atomic!vars
  <1>1. /\ Registered(t) /\ Registered(t)' /\ UNCHANGED <<pc, req, ahead, outcome, terminated>>
        /\ VisitInOrder(t)
    BY DEF Visit, WaitersOn, Registered, threadVars
  <1>2. Owed' = Owed
    BY DEF Visit, Owed, TypeOK
  <1>3. CASE ~granted[t] /\ Satisfiable(t)
    <2>1. Waiting(t) /\ Grant(t)
      BY <1>1, <1>3 DEF Visit, Waiting
    <2>2. \A u \in ahead[t] : Waiting(u) => ~SignalSatisfiable(u)
      BY <1>1 DEF TypeOK, VisitInOrder, NoMissedSignal, AwaitsVisit
    <2> QED
      BY <1>1, <1>2, <2>1, <2>2, GrantRefines
  <1>4. CASE ~(~granted[t] /\ Satisfiable(t))
    <2>1. UNCHANGED <<objectVars, grantVars>>
      BY <1>4 DEF Visit
    <2>2. \A u \in Threads : UNCHANGED WaitSeen(u)
      BY <1>1, <2>1 DEF WaitSeen, grantVars
    <2>3. Lines' = Lines
      BY <1>1, <2>2, SameSeen, SameLines
    <2> QED
      BY <1>1, <1>2, <2>1, <2>2, <2>3, SameSeen, Unseen DEF objectVars, grantVars
  <1> QED
    BY <1>3, <1>4

\* A step inside the wait loop that takes nothing.
LEMMA LoopUnseen ==
  ASSUME TypeOK, NEW t \in Threads, Registered(t), Registered(t)',
         UNCHANGED <<signal, owner, recursion, abandoned, terminated, grantVars, req, ahead, scan>>,
         \A u \in Threads \ {t} : pc'[u] = pc[u] /\ outcome'[u] = outcome[u]
  PROVE  UNCHANGED Atomic!vars
  <1>1. \A u \in Threads \ {t} : UNCHANGED WaitSeen(u)
    BY DEF WaitSeen, grantVars
  <1>2. pc[t] \notin {"enter", "locked", "done"} /\ pc'[t] \notin {"enter", "locked", "done"}
    BY DEF Registered, LoopSteps
  <1>3. Waiting(t)' = Waiting(t)
    BY DEF Waiting, grantVars
  <1>4. Phase(t)' = Phase(t)
    BY <1>2, <1>3 DEF Phase
  <1>5. Asked(t)' = Asked(t) /\ Result(t)' = Result(t)
    BY <1>2, <1>4 DEF Asked, Result, grantVars
  <1>6. Lines' = Lines
    BY <1>1, <1>3, SameSeen, SameLines
  <1>7. Owed' = Owed
    BY DEF Owed
  <1> QED
    BY <1>1, <1>4, <1>5, <1>6, <1>7, SameSeen, Unseen DEF grantVars

LEMMA RetryRefines ==
  ASSUME TypeOK, TypeOK', NoMissedSignal, NEW t \in Threads, Retry(t)
  PROVE  Atomic!Next \/ UNCHANGED Atomic!vars
  <1>1. /\ Registered(t) /\ Registered(t)' /\ LockFree /\ UNCHANGED <<req, ahead, outcome, terminated, scan>>
        /\ \A u \in Threads \ {t} : pc'[u] = pc[u]
    BY DEF TypeOK, Retry, Goto, Registered, LoopSteps, threadVars
  <1>2. CASE ~granted[t] /\ Satisfiable(t)
    <2>1. Waiting(t) /\ Grant(t)
      BY <1>1, <1>2 DEF Retry, Waiting
    <2>2. \A u \in ahead[t] : Waiting(u) => ~SignalSatisfiable(u)
      BY <1>1 DEF TypeOK, NoMissedSignal, AwaitsVisit, LockFree, NoScan
    <2>3. Owed' = Owed
      BY <1>1 DEF Owed
    <2> QED
      BY <1>1, <2>1, <2>2, <2>3, GrantRefines
  <1>3. CASE ~(~granted[t] /\ Satisfiable(t))
    BY <1>1, <1>3, LoopUnseen DEF Retry, objectVars
  <1> QED
    BY <1>2, <1>3

\* The unregistration: nothing new for a wait that was granted, and otherwise
\* the wait is given up, which no signal satisfies.
LEMMA LeaveRefines ==
  ASSUME TypeOK, TypeOK', NoMissedSignal, GrantInv, CallInv, NEW t \in Threads, Leave(t)
  PROVE  Atomic!Next \/ UNCHANGED Atomic!vars
  <1>1. /\ pc[t] = "leave" /\ Registered(t) /\ LockFree /\ req[t].objects # <<>>
        /\ UNCHANGED <<objectVars, terminated, grantVars, req, scan>>
        /\ pc'[t] = "done" /\ outcome'[t] = LeaveResult(t)
        /\ ahead' = [u \in Threads |-> IF u = t THEN {} ELSE ahead[u] \ {t}]
    BY DEF TypeOK, Leave, End, Registered, LoopSteps, threadVars, CallInv, CallOf
  <1>2. \A u \in Threads \ {t} : UNCHANGED WaitSeen(u)
    BY DEF TypeOK, Leave, End, WaitSeen, grantVars
  <1>3. Phase(t)' = "over" /\ Asked(t)' = req[t] /\ Result(t)' = LeaveResult(t) /\ ~Waiting(t)'
    <2>1. ~Waiting(t)' /\ req'[t] = req[t]
      BY <1>1 DEF Waiting, Registered, LoopSteps
    <2>2. Phase(t)' = "over"
      BY <1>1, <2>1 DEF Phase
    <2> QED
      BY <1>1, <2>1, <2>2 DEF Asked, Result
  <1>4. \A u \in Threads \ {t} : Line(u)' = Line(u) \ {t}
    BY <1>1, <1>2, <1>3, SameSeen DEF Line, TypeOK
  <1>5. Line(t)' = {}
    BY <1>3 DEF Line
  <1>6. Owed' = Owed
    BY <1>1 DEF Owed
  <1>7. CASE granted[t]
    <2>1. ~Waiting(t) /\ Phase(t) = "over" /\ Asked(t) = req[t]
      BY <1>1, <1>7, PhaseOf DEF Waiting
    <2>2. Result(t) = LeaveResult(t)
      BY <1>1, <1>7, <2>1 DEF Result, LeaveResult
    <2>3. \A u \in Threads : Line(u)' = Line(u)
      BY <1>4, <1>5, <2>1 DEF Line
    <2>4. Lines' = Lines
      BY <2>3 DEF Lines
    <2>5. \A u \in Threads : UNCHANGED <<Phase(u), Asked(u), Result(u)>>
      BY <1>2, <1>3, <2>1, <2>2, SameSeen
    <2> QED
      BY <1>1, <1>6, <2>4, <2>5, Unseen DEF objectVars, grantVars
  <1>8. CASE ~granted[t]
    <2>1. Waiting(t) /\ Phase(t) = "waiting" /\ Asked(t) = req[t] /\ LeaveResult(t) = outcome[t]
      BY <1>1, <1>8, PhaseOf DEF Waiting, LeaveResult
    <2>2. PICK why \in {"Alerted", "UserApc", "Timeout", "Terminating"} :
            /\ outcome[t] = why
            /\ \/ why = "Terminating" /\ terminated[t]
               \/ why \in {"Alerted", "UserApc"} /\ req[t].alertable
               \/ why = "Timeout" /\ req[t].timeout = "finite"
      BY <1>1, <1>8 DEF CallInv, CallOf, ReasonHolds
    <2>3. /\ Phases' = [Phases EXCEPT ![t] = "over"] /\ Asks' = Asks
          /\ Results' = [Results EXCEPT ![t] = why]
      <3>1. Asks' = [Asks EXCEPT ![t] = Asks[t]]
        BY <1>2, <1>3, <2>1, OneWaitMoves DEF Asks
      <3> QED
        BY <1>2, <1>3, <2>1, <2>2, <3>1, OneWaitMoves DEF Asks
    <2>4. Lines' = [u \in Threads |-> IF u = t THEN {} ELSE Lines[u] \ {t}]
      BY <1>4, <1>5 DEF Lines
    <2>5. Atomic!Free
      BY <1>1, FreeWhenUnlocked
    <2>6. UNCHANGED <<Atomic!objects, terminated, index, took>>
      BY <1>1 DEF objectVars, grantVars, Atomic!objects
    <2>7. Atomic!EndsWith(t, why)
      BY <2>3, <2>6 DEF Atomic!EndsWith, Atomic!Becomes, Phases, Results
    <2>8. Phases[t] = "waiting" /\ Asks[t] = req[t]
      BY <2>1 DEF Phases, Asks
    <2>9. Atomic!GiveUp(t, why)
      BY <1>6, <2>2, <2>3, <2>4, <2>5, <2>7, <2>8
         DEF Atomic!GiveUp, Atomic!LeavesLine, Phases, Asks, Lines
    <2> QED
      BY <2>9 DEF Atomic!Next, Atomic!WaitStep
  <1> QED
    BY <1>7, <1>8

\* A step of a thread whose wait is not in the line before or after it.
LEMMA OutOfLine ==
  ASSUME TypeOK, NEW t \in Threads, UNCHANGED ahead, ~Waiting(t), ~Waiting(t)',
         \A u \in Threads \ {t} : UNCHANGED WaitSeen(u)
  PROVE  Lines' = Lines
  <1>1. Waiting(t)' = Waiting(t)
    BY DEF Waiting
  <1> QED
    BY <1>1, SameSeen, SameLines

\* A thread that makes no wait before or after its step.
LEMMA IdleUnseen ==
  ASSUME TypeOK, TypeOK', NEW t \in Threads, Phase(t) = "idle", Phase(t)' = "idle",
         \A u \in Threads \ {t} : UNCHANGED WaitSeen(u), UNCHANGED ahead
  PROVE  /\ \A u \in Threads : UNCHANGED <<Phase(u), Asked(u), Result(u)>>
         /\ Lines' = Lines
  <1>1. ~Waiting(t) /\ ~Waiting(t)'
    BY DEF Phase, Waiting, Registered, LoopSteps
  <1>2. Asked(t)' = Asked(t) /\ Result(t)' = Result(t)
    BY DEF Asked, Result
  <1>3. \A u \in Threads : UNCHANGED <<Phase(u), Asked(u), Result(u)>>
    BY <1>2, SameSeen
  <1>4. Lines' = Lines
    BY <1>1, OutOfLine
  <1> QED
    BY <1>3, <1>4

LEMMA BeginWaitRefines ==
  ASSUME TypeOK, TypeOK', NEW t \in Threads, NEW r \in Requests[t], BeginWait(t, r)
  PROVE  Atomic!Next
  <1>1. /\ pc[t] = "idle" /\ req'[t] = r /\ r.objects # <<>>
        /\ UNCHANGED <<objectVars, terminated, grantVars, ahead, scan>>
        /\ \A u \in Threads \ {t} : UNCHANGED WaitSeen(u)
    BY RequestsAssumption DEF TypeOK, BeginWait, Idle, End, WaitSeen, threadVars, grantVars
  <1>2. Phases[t] = "idle" /\ Phase(t) = "idle" /\ Result(t) = "none" /\ Results[t] = "none"
    BY <1>1, PhaseOf DEF Phases, Results
  <1>3. Owed' = Owed /\ UNCHANGED <<Atomic!objects, terminated, index, took>>
    BY <1>1 DEF Owed, objectVars, grantVars, Atomic!objects
  <1>4. CASE terminated[t]
    <2>1. pc'[t] = "done" /\ outcome'[t] = "Terminating"
      BY <1>4 DEF TypeOK, BeginWait, End
    <2>2. Phase(t)' = "over" /\ ~Waiting(t)' /\ ~Waiting(t)
      BY <1>1, <2>1 DEF Phase, Waiting, Registered, LoopSteps
    <2>3. Asked(t)' = r /\ Result(t)' = "Terminating"
      BY <1>1, <2>1, <2>2 DEF Asked, Result
    <2>4. /\ Phases' = [Phases EXCEPT ![t] = "over"] /\ Asks' = [Asks EXCEPT ![t] = r]
          /\ Results' = [Results EXCEPT ![t] = "Terminating"] /\ Lines' = Lines
      BY <1>1, <2>2, <2>3, OneWaitMoves, OutOfLine
    <2>5. Atomic!EndsWith(t, "Terminating")
      BY <1>3, <2>4 DEF Atomic!EndsWith, Atomic!Becomes, Phases, Results
    <2>6. Atomic!CallTerminated(t, r)
      BY <1>2, <1>3, <1>4, <2>4, <2>5 DEF Atomic!CallTerminated, Phases, Asks, Lines
    <2> QED
      BY <2>6 DEF Atomic!Next, Atomic!WaitStep
  <1>5. CASE ~terminated[t]
    <2>1. pc'[t] = "enter"
      BY <1>5 DEF TypeOK, BeginWait
    <2>2. Phase(t)' = "called" /\ ~Waiting(t)' /\ ~Waiting(t)
      BY <1>1, <2>1 DEF Phase, Waiting, Registered, LoopSteps
    <2>3. Asked(t)' = r /\ Result(t)' = "none"
      BY <1>1, <2>1, <2>2 DEF Asked, Result
    <2>4. /\ Phases' = [Phases EXCEPT ![t] = "called"] /\ Asks' = [Asks EXCEPT ![t] = r]
          /\ Results' = [Results EXCEPT ![t] = Results[t]] /\ Lines' = Lines
      BY <1>1, <1>2, <2>2, <2>3, OneWaitMoves, OutOfLine
    <2>5. Results' = Results
      BY <2>4 DEF Results
    <2>6. Atomic!Call(t, r)
      BY <1>2, <1>3, <2>4, <2>5 DEF Atomic!Call, Atomic!Becomes, Phases, Asks, Lines, Results
    <2> QED
      BY <2>6 DEF Atomic!Next, Atomic!WaitStep
  <1> QED
    BY <1>4, <1>5

\* The signal half of a signal-and-wait, with the lock kept for the wait.
LEMMA EnterSignalRefines ==
  ASSUME TypeOK, TypeOK', NoMissedSignal, CallInv, NEW t \in Threads, EnterSignal(t) \/ EnterSignalFails(t)
  PROVE  Atomic!Next
  <1> USE ValueTypes
  <1>1. PICK o \in Counted \cup Mutants : req[t].signal = o /\ o # None
    BY DEF TypeOK, WaitRequest, EnterSignal, EnterSignalFails
  <1>2. /\ pc[t] = "enter" /\ LockFree /\ UNCHANGED <<terminated, grantVars, req, ahead>>
        /\ \A u \in Threads \ {t} : UNCHANGED WaitSeen(u)
    BY DEF TypeOK, EnterSignal, EnterSignalFails, End, WaitSeen, threadVars, grantVars
  <1>3. Phases[t] = "called" /\ Phase(t) = "called" /\ Asks[t] = req[t] /\ Asked(t) = req[t] /\ Result(t) = "none"
    BY <1>2, PhaseOf DEF Phases, Asks
  <1>4. Atomic!Free /\ Owed = None /\ ~Waiting(t)
    BY <1>2, FreeWhenUnlocked DEF Waiting, Registered, LoopSteps
  <1>5. CASE EnterSignal(t)
    <2>1. pc'[t] = "locked"
      BY <1>5 DEF TypeOK, EnterSignal
    <2>2. Phase(t)' = "called" /\ ~Waiting(t)'
      BY <2>1 DEF Phase, Waiting, Registered, LoopSteps
    <2>3. Asked(t)' = req[t] /\ Result(t)' = "none"
      BY <1>2, <2>2 DEF Asked, Result
    <2>4. \A u \in Threads : UNCHANGED <<Phase(u), Asked(u), Result(u)>>
      BY <1>2, <1>3, <2>2, <2>3, SameSeen
    <2>5. UNCHANGED Atomic!waits
      BY <1>2, <1>4, <2>2, <2>4, OutOfLine, SameAbstractWaits DEF grantVars
    <2>6. /\ Owed' = t
          /\ \/ /\ o \in Counted
                /\ \E v \in 1..LimitOf(o) : signal' = [signal EXCEPT ![o] = v]
                /\ UNCHANGED <<owner, recursion, abandoned>>
             \/ o \in Mutants /\ Atomic!Drop(t, o)
      <3>1. CASE o \in Events \cup Semaphores /\ (o \in Semaphores => signal[o] < Limit[o])
                 /\ SignalAs(o, IF o \in Events THEN 1 ELSE signal[o] + 1, "wait", t)
        <4>1. o \in Counted /\ Owed' = t
          BY <1>1, <3>1, OwedAfter DEF SignalAs
        <4>2. (IF o \in Events THEN 1 ELSE signal[o] + 1) \in 1..LimitOf(o)
          BY <3>1, LimitAssumption DEF TypeOK
        <4> QED
          BY <3>1, <4>1, <4>2 DEF SignalAs
      <3>2. CASE o \in Mutants /\ DropMutant(t, o, "wait")
        BY <3>2, DropRefines
      <3> QED
        BY <1>1, <1>5, <3>1, <3>2 DEF EnterSignal
    <2>7. Atomic!SignalFirst(t, o)
      BY <1>1, <1>2, <1>3, <1>4, <2>5, <2>6 DEF Atomic!SignalFirst, Phases, Asks
    <2> QED
      BY <2>7 DEF Atomic!Next, Atomic!WaitStep
  <1>6. CASE EnterSignalFails(t)
    <2>1. pc'[t] = "done" /\ outcome'[t] = "Failed" /\ UNCHANGED <<objectVars, scan>>
      BY <1>6 DEF TypeOK, EnterSignalFails, End
    <2>2. req[t].objects # <<>>
      BY <1>2 DEF CallInv, CallOf
    <2>3. Phase(t)' = "over" /\ ~Waiting(t)'
      BY <1>2, <2>1, <2>2 DEF Phase, Waiting, Registered, LoopSteps
    <2>4. Asked(t)' = req[t] /\ Result(t)' = "Failed"
      BY <1>2, <2>1, <2>3 DEF Asked, Result
    <2>5. /\ Phases' = [Phases EXCEPT ![t] = "over"] /\ Asks' = Asks
          /\ Results' = [Results EXCEPT ![t] = "Failed"] /\ Lines' = Lines
      <3>1. Asks' = [Asks EXCEPT ![t] = Asks[t]]
        BY <1>2, <1>3, <2>4, OneWaitMoves
      <3> QED
        BY <1>2, <1>4, <2>3, <2>4, <3>1, OneWaitMoves, OutOfLine DEF Asks
    <2>6. Owed' = Owed /\ UNCHANGED <<Atomic!objects, index, took>>
      BY <1>2, <2>1 DEF Owed, objectVars, grantVars, Atomic!objects
    <2>7. Atomic!EndsWith(t, "Failed")
      BY <1>2, <2>5, <2>6 DEF Atomic!EndsWith, Atomic!Becomes, Phases, Results
    <2>8. (o \in Counted /\ signal[o] = LimitOf(o)) \/ (o \in Mutants /\ owner[o] # t)
      <3>1. (o \in Semaphores /\ signal[o] >= Limit[o]) \/ (o \in Mutants /\ owner[o] # t)
        BY <1>1, <1>6 DEF EnterSignalFails
      <3>2. o \in Semaphores => signal[o] \in Nat /\ Limit[o] \in Nat /\ signal[o] <= Limit[o]
        BY LimitAssumption DEF TypeOK
      <3> QED
        BY <3>1, <3>2
    <2>9. Atomic!SignalRefused(t, o)
      BY <1>1, <1>3, <1>4, <2>5, <2>6, <2>7, <2>8 DEF Atomic!SignalRefused, Phases, Asks, Lines
    <2> QED
      BY <2>9 DEF Atomic!Next, Atomic!WaitStep
  <1> QED
    BY <1>5, <1>6

\* The immediate check and the registration.
LEMMA EnterWaitRefines ==
  ASSUME TypeOK, TypeOK', NoMissedSignal, GrantInv, CallInv, NEW t \in Threads, EnterWait(t)
  PROVE  Atomic!Next
  <1>1. /\ pc[t] \in {"enter", "locked"} /\ ~Registered(t) /\ req[t].objects # <<>>
        /\ UNCHANGED <<req, terminated>> /\ scan.obj = None
    BY DEF EnterWait, Registered, LoopSteps, CallInv, CallOf, threadVars, LockFree, NoScan, HeldBy
  <1>2. granted[t] = FALSE /\ ~Waiting(t)
    BY <1>1 DEF GrantInv, ResultOf, TypeOK, Waiting
  <1>3. /\ Phases[t] = "called" /\ Phase(t) = "called" /\ Asks[t] = req[t] /\ Asked(t) = req[t]
        /\ Result(t) = "none"
    BY <1>1, PhaseOf DEF Phases, Asks
  <1>4. Atomic!Starts(t)
    <2>1. Atomic!Settled
      BY <1>1, SettledWhenWalked DEF AwaitsVisit
    <2>2. Owed = IF req[t].signal = None THEN None ELSE t
      <3>1. Owed = scan.who
        BY <1>1 DEF Owed
      <3>2. CASE pc[t] = "enter" /\ req[t].signal = None /\ LockFree
        BY <3>1, <3>2 DEF LockFree, NoScan
      <3>3. CASE pc[t] = "locked" /\ scan = HeldBy(t)
        BY <3>1, <3>3 DEF HeldBy, CallInv, CallOf
      <3> QED
        BY <3>2, <3>3 DEF EnterWait
    <2>3. Owed' = None
      BY OwedAfter DEF EnterWait
    <2> QED
      BY <1>3, <2>1, <2>2, <2>3 DEF Atomic!Starts, Phases, Asks
  \* The wait is over at once.
  <1>5. ASSUME NEW result, End(t, result), UNCHANGED ahead,
               \A u \in Threads \ {t} : UNCHANGED <<granted[u], takeover[u]>>
        PROVE  /\ Phases' = [Phases EXCEPT ![t] = "over"] /\ Asks' = Asks
               /\ Results' = [Results EXCEPT ![t] = result] /\ Lines' = Lines
    <2>1. /\ pc'[t] = "done" /\ outcome'[t] = result
          /\ \A u \in Threads \ {t} : UNCHANGED WaitSeen(u)
      BY <1>1, <1>5 DEF TypeOK, End, WaitSeen
    <2>2. Phase(t)' = "over" /\ ~Waiting(t)'
      BY <1>1, <2>1 DEF Phase, Waiting, Registered, LoopSteps
    <2>3. Asked(t)' = req[t] /\ Result(t)' = result
      BY <1>1, <2>1, <2>2 DEF Asked, Result
    <2>4. Asks' = [Asks EXCEPT ![t] = Asks[t]]
      BY <1>3, <2>1, <2>3, OneWaitMoves
    <2> QED
      BY <1>2, <1>5, <2>1, <2>2, <2>3, <2>4, OneWaitMoves, OutOfLine DEF Asks
  <1>6. ASSUME NEW i \in DOMAIN req[t].objects, SatisfiedAt(t, i), Consume(t, Satisfying(t, i)),
               index' = [index EXCEPT ![t] = i], UNCHANGED <<granted, takeover, ahead>>,
               End(t, SuccessOf(TakesOver(Satisfying(t, i))))
        PROVE  Atomic!Next
    <2>1. PICK S : S = Satisfying(t, i)
      OBVIOUS
    <2>2. /\ Phases' = [Phases EXCEPT ![t] = "over"] /\ Asks' = Asks
          /\ Results' = [Results EXCEPT ![t] = SuccessOf(TakesOver(S))] /\ Lines' = Lines
      BY <1>5, <1>6, <2>1
    <2>3. Atomic!SatisfiedAt(t, i) /\ Atomic!Chosen(t, i) = S
      BY <1>3, <1>6, <2>1, AbstractWait
    <2>4. Atomic!TakeOf(t, S) /\ took' = [took EXCEPT ![t] = S]
      BY <1>6, <2>1 DEF Atomic!TakeOf, Consume, Consumed
    <2>5. Atomic!ResultOf(S) = SuccessOf(TakesOver(S))
      BY DEF Atomic!ResultOf, SuccessOf, TakesOver
    <2>6. Atomic!Takes(t)
      <3>1. i \in DOMAIN Asks[t].objects /\ index' = [index EXCEPT ![t] = i] /\ terminated' = terminated
        BY <1>1, <1>3, <1>6
      <3> QED
        BY <2>2, <2>3, <2>4, <2>5, <3>1 DEF Atomic!Takes, Atomic!Becomes, Phases, Asks, Results
    <2>7. Atomic!TakeAtOnce(t)
      BY <1>4, <2>2, <2>6 DEF Atomic!TakeAtOnce, Lines
    <2> QED
      BY <2>7 DEF Atomic!Next, Atomic!WaitStep
  <1>7. ASSUME ~Satisfiable(t), NEW why \in {"Alerted", "UserApc", "Timeout", "Terminating"}, End(t, why),
               \/ why \in {"Alerted", "UserApc"} /\ req[t].alertable
               \/ why = "Timeout" /\ req[t].timeout = "zero",
               UNCHANGED <<objectVars, grantVars, ahead>>
        PROVE  Atomic!Next
    <2>1. /\ Phases' = [Phases EXCEPT ![t] = "over"] /\ Asks' = Asks
          /\ Results' = [Results EXCEPT ![t] = why] /\ Lines' = Lines
      BY <1>5, <1>7 DEF grantVars
    <2>2. UNCHANGED <<Atomic!objects, index, took>>
      BY <1>7 DEF objectVars, grantVars, Atomic!objects
    <2>3. Atomic!EndsWith(t, why)
      BY <1>1, <2>1, <2>2 DEF Atomic!EndsWith, Atomic!Becomes, Phases, Results
    <2>4. ~Atomic!Satisfiable(t)
      BY <1>3, <1>7, AbstractWait
    <2>5. Atomic!Refused(t, why)
      BY <1>3, <1>4, <1>7, <2>1, <2>3, <2>4 DEF Atomic!Refused, Asks, Lines
    <2> QED
      BY <2>5 DEF Atomic!Next, Atomic!WaitStep
  <1>8. ASSUME ~Satisfiable(t), req[t].timeout # "zero",
               ahead' = [ahead EXCEPT ![t] = {u \in Threads : Registered(u)}],
               pc' = [pc EXCEPT ![t] = "observe"],
               UNCHANGED <<objectVars, grantVars, outcome>>
        PROVE  Atomic!Next
    <2>1. pc'[t] = "observe" /\ granted'[t] = FALSE /\ \A u \in Threads \ {t} : UNCHANGED WaitSeen(u)
      BY <1>1, <1>2, <1>8 DEF TypeOK, WaitSeen, grantVars
    <2>2. Phase(t)' = "waiting" /\ Waiting(t)'
      BY <2>1 DEF Phase, Waiting, Registered, LoopSteps
    <2>3. Asked(t)' = req[t] /\ Result(t)' = "none"
      BY <1>1, <2>2 DEF Asked, Result
    <2>4. Phases' = [Phases EXCEPT ![t] = "waiting"] /\ Asks' = Asks /\ Results' = Results
      <3>1. Asks' = [Asks EXCEPT ![t] = Asks[t]]
        BY <1>3, <2>1, <2>3, OneWaitMoves
      <3>2. Results' = [Results EXCEPT ![t] = Results[t]]
        BY <1>3, <2>1, <2>3, OneWaitMoves DEF Results
      <3> QED
        BY <2>1, <2>2, <3>1, <3>2, OneWaitMoves DEF Asks, Results
    <2>5. Line(t)' = {u \in Threads : Waiting(u)}
      <3>1. \A u \in Threads \ {t} : Waiting(u)' = Waiting(u)
        BY <2>1, SameSeen
      <3>2. ahead'[t] = {u \in Threads : Registered(u)}
        BY <1>8 DEF TypeOK
      <3>3. \A u \in Threads : Waiting(u) => Registered(u)
        BY DEF Waiting
      <3> QED
        BY <1>1, <1>2, <2>2, <3>1, <3>2, <3>3 DEF Line
    <2>6. \A u \in Threads \ {t} : Line(u)' = Line(u)
      <3> SUFFICES ASSUME NEW u \in Threads \ {t} PROVE Line(u)' = Line(u)
        OBVIOUS
      <3>1. ahead'[u] = ahead[u] /\ ahead[u] \subseteq Threads \ {t}
        BY <1>1, <1>8 DEF TypeOK, CallInv, LineInv
      <3>2. \A v \in Threads \ {t} : Waiting(v)' = Waiting(v)
        BY <2>1, SameSeen
      <3> QED
        BY <3>1, <3>2 DEF Line
    <2>7. Lines' = [Lines EXCEPT ![t] = Atomic!Waiting]
      BY <2>5, <2>6, AbstractWaiting DEF Lines
    <2>8. UNCHANGED <<Atomic!objects, index, took>>
      BY <1>8 DEF objectVars, grantVars, Atomic!objects
    <2>9. ~Atomic!Satisfiable(t)
      BY <1>3, <1>8, AbstractWait
    <2>10. Atomic!StandInLine(t)
      BY <1>1, <1>3, <1>4, <1>8, <2>4, <2>7, <2>8, <2>9
         DEF Atomic!StandInLine, Atomic!Becomes, Phases, Asks, Lines, Results
    <2> QED
      BY <2>10 DEF Atomic!Next, Atomic!WaitStep
  <1> QED
    BY <1>6, <1>7, <1>8 DEF EnterWait

\* The return of a wait, or of a delay, which no caller of a wait sees.
LEMMA ReturnRefines ==
  ASSUME TypeOK, TypeOK', GrantInv, CallInv, NEW t \in Threads, Return(t)
  PROVE  Atomic!Next \/ UNCHANGED Atomic!vars
  <1>1. /\ pc[t] = "done" /\ pc'[t] = "idle" /\ UNCHANGED <<objectVars, terminated, ahead, scan>>
        /\ index' = [index EXCEPT ![t] = 0] /\ took' = [took EXCEPT ![t] = {}]
        /\ \A u \in Threads \ {t} : UNCHANGED WaitSeen(u)
    BY DEF TypeOK, Return, WaitSeen
  <1>2. Phase(t)' = "idle" /\ ~Waiting(t) /\ ~Waiting(t)'
    BY <1>1 DEF Phase, Waiting, Registered, LoopSteps
  <1>3. Owed' = Owed /\ UNCHANGED <<Atomic!objects, terminated>>
    BY <1>1 DEF Owed, objectVars, Atomic!objects
  <1>4. CASE req[t].objects = <<>>
    <2>1. Phase(t) = "idle"
      BY <1>1, <1>4, PhaseOf
    <2>2. took[t] = {} /\ index[t] = 0
      BY <1>1, <1>4 DEF GrantInv, ResultOf, CallInv, CallOf
    <2>3. took' = took /\ index' = index
      BY <1>1, <2>2 DEF TypeOK
    <2> QED
      BY <1>1, <1>2, <1>3, <2>1, <2>3, IdleUnseen, Unseen DEF objectVars
  <1>5. CASE req[t].objects # <<>>
    <2>1. Phases[t] = "over"
      BY <1>1, <1>5, PhaseOf DEF Phases
    <2>2. Asked(t)' = None /\ Result(t)' = "none"
      BY <1>2 DEF Asked, Result
    <2>3. /\ Phases' = [Phases EXCEPT ![t] = "idle"] /\ Asks' = [Asks EXCEPT ![t] = None]
          /\ Results' = [Results EXCEPT ![t] = "none"] /\ Lines' = Lines
      BY <1>1, <1>2, <2>2, OneWaitMoves, OutOfLine
    <2>4. Atomic!Return(t)
      BY <1>1, <1>3, <2>1, <2>3 DEF Atomic!Return, Atomic!Becomes, Phases, Asks, Results, Lines
    <2> QED
      BY <2>4 DEF Atomic!Next, Atomic!WaitStep
  <1> QED
    BY <1>4, <1>5

LEMMA TerminateRefines ==
  ASSUME NEW t \in Threads, terminated' = [terminated EXCEPT ![t] = TRUE],
         UNCHANGED <<signal, owner, recursion, abandoned>>, UNCHANGED Atomic!waits, Owed' = Owed
  PROVE  Atomic!Next
  <1>1. Atomic!Terminate(t)
    BY DEF Atomic!Terminate, Atomic!objects
  <1> QED
    BY <1>1 DEF Atomic!Next, Atomic!ObjectStep

\* A delay, and the end of a thread's entry, are no waits.
LEMMA NoWaitRefines ==
  ASSUME TypeOK, TypeOK', GrantInv, NEW t \in Threads,
         \/ \E alertable, positive \in BOOLEAN : BeginDelay(t, alertable, positive)
         \/ DelayTest(t) \/ DelayEnd(t) \/ Exit(t) \/ Finish(t)
  PROVE  Atomic!Next \/ UNCHANGED Atomic!vars
  <1>1. /\ pc[t] \in {"idle", "delay", "delayed", "rundown"}
        /\ UNCHANGED <<objectVars, grantVars, ahead, scan>>
        /\ \A u \in Threads \ {t} : UNCHANGED WaitSeen(u)
    BY DEF TypeOK, BeginDelay, DelayTest, DelayEnd, Exit, Finish, Idle, End, Goto, WaitSeen, grantVars
  <1>2. Phase(t) = "idle"
    BY <1>1, PhaseOf
  <1>3. /\ pc'[t] \in {"done", "delay", "delayed", "rundown", "exited"}
        /\ pc'[t] = "done" => req'[t].objects = <<>>
    <2>1. CASE \E alertable, positive \in BOOLEAN : BeginDelay(t, alertable, positive)
      BY <2>1 DEF TypeOK, BeginDelay, DelayRequest, End, Goto
    <2>2. CASE DelayEnd(t)
      BY <2>2 DEF TypeOK, DelayEnd, End, GrantInv, ResultOf
    <2>3. CASE DelayTest(t) \/ Exit(t) \/ Finish(t)
      BY <2>3 DEF TypeOK, DelayTest, Exit, Finish, Goto
    <2> QED
      BY <2>1, <2>2, <2>3
  <1>4. Phase(t)' = "idle"
    BY <1>3 DEF Phase, Waiting, Registered, LoopSteps
  <1>5. /\ \A u \in Threads : UNCHANGED <<Phase(u), Asked(u), Result(u)>>
        /\ Lines' = Lines
    BY <1>1, <1>2, <1>4, IdleUnseen
  <1>6. Owed' = Owed
    BY <1>1 DEF Owed
  <1>7. CASE UNCHANGED terminated
    BY <1>1, <1>5, <1>6, <1>7, Unseen DEF objectVars, grantVars
  <1>8. CASE terminated' = [terminated EXCEPT ![t] = TRUE]
    BY <1>1, <1>5, <1>6, <1>8, SameAbstractWaits, TerminateRefines DEF objectVars, grantVars
  <1> QED
    BY <1>7, <1>8 DEF BeginDelay, DelayTest, DelayEnd, Exit, Finish, threadVars

\* Flags, wakeups and deadlines.
LEMMA FlagsRefine ==
  ASSUME TypeOK, UNCHANGED <<objectVars, scan, grantVars, pc, req, ahead, outcome>>,
         terminated' = terminated \/ \E x \in Threads : terminated' = [terminated EXCEPT ![x] = TRUE]
  PROVE  Atomic!Next \/ UNCHANGED Atomic!vars
  <1>1. \A t \in Threads : UNCHANGED WaitSeen(t)
    BY DEF WaitSeen, grantVars
  <1>2. Lines' = Lines /\ \A t \in Threads : UNCHANGED <<Phase(t), Asked(t), Result(t)>>
    BY <1>1, SameSeen, SameLines
  <1>3. Owed' = Owed
    BY DEF Owed
  <1>4. CASE terminated' = terminated
    BY <1>2, <1>3, <1>4, Unseen DEF objectVars, grantVars
  <1>5. CASE \E x \in Threads : terminated' = [terminated EXCEPT ![x] = TRUE]
    BY <1>2, <1>3, <1>5, SameAbstractWaits, TerminateRefines DEF objectVars, grantVars
  <1> QED
    BY <1>4, <1>5

LEMMA StepRefines ==
  ASSUME TypeOK, TypeOK', NoMissedSignal, GrantInv, CallInv, [Next]_vars
  PROVE  Atomic!Next \/ UNCHANGED Atomic!vars
  <1>1. ASSUME NEW t \in Threads, Observe(t) \/ PollTerminated(t) \/ TestAlerts(t) \/ Wake(t)
        PROVE  UNCHANGED Atomic!vars
    <2>1. Registered(t) /\ Registered(t)'
      BY <1>1 DEF TypeOK, Observe, PollTerminated, TestAlerts, Wake, Goto, Sleep, Registered, LoopSteps
    <2>2. /\ UNCHANGED <<signal, owner, recursion, abandoned, terminated, grantVars, req, ahead, scan>>
          /\ \A u \in Threads \ {t} : pc'[u] = pc[u] /\ outcome'[u] = outcome[u]
      BY <1>1 DEF TypeOK, Observe, PollTerminated, TestAlerts, Wake, Goto, Sleep, objectVars, threadVars
    <2> QED
      BY <2>1, <2>2, LoopUnseen
  <1>2. ASSUME NEW t \in Threads, WaitStep(t) PROVE Atomic!Next \/ UNCHANGED Atomic!vars
    BY <1>1, <1>2, EnterSignalRefines, EnterWaitRefines, RetryRefines, LeaveRefines, ReturnRefines, NoWaitRefines
       DEF WaitStep
  <1>3. ASSUME NEW t \in Threads, TestAlert(t) \/ Expire(t) PROVE Atomic!Next \/ UNCHANGED Atomic!vars
    BY <1>3, FlagsRefine DEF TestAlert, Expire, waitVars, threadVars
  <1>4. ASSUME NEW t \in Threads, GuestStep(t) \/ Rundown(t) \/ Expire(t)
        PROVE  Atomic!Next \/ UNCHANGED Atomic!vars
    BY <1>3, <1>4, BeginWaitRefines, MutantStepRefines, NoWaitRefines DEF GuestStep, Rundown
  <1>5. ASSUME ThreadStep \/ UNCHANGED vars PROVE Atomic!Next \/ UNCHANGED Atomic!vars
    <2>1. UNCHANGED <<objectVars, scan, grantVars, pc, req, ahead, outcome>>
      BY <1>5 DEF ThreadStep, Terminate, Alert, QueueUserApc, RemoveUserApc, NotifyAlways, waitVars, vars
    <2>2. terminated' = terminated \/ \E x \in Threads : terminated' = [terminated EXCEPT ![x] = TRUE]
      BY <1>5, RequestsAssumption
         DEF ThreadStep, Terminate, Alert, QueueUserApc, RemoveUserApc, NotifyAlways, threadVars, vars
    <2> QED
      BY <2>1, <2>2, FlagsRefine
  <1> QED
    BY <1>2, <1>4, <1>5, VisitRefines, EndScanRefines, SignalStepRefines DEF Next

\* The dispatcher's waits are atomic, for every set of threads, objects and
\* waits: each is over, with its objects taken and its result fixed, in one
\* step; signals reach the waits they satisfy oldest first and before the next
\* operation; no wait is given up that a signal satisfies; a signal-and-wait
\* and a pulse admit no operation in between (wait.cpp as a whole).
THEOREM DispatcherImplementsAtomicWait == Spec => ImplementsAtomicWait
  <1>1. Init => Atomic!Init
    <2> SUFFICES ASSUME Init PROVE Atomic!Init
      OBVIOUS
    <2>1. \A t \in Threads : Phase(t) = "idle" /\ Asked(t) = None /\ Line(t) = {} /\ Result(t) = "none"
      BY DEF Init, Phase, Waiting, Registered, LoopSteps, Asked, Line, Result
    <2>2. Owed = None
      BY DEF Init, NoScan, Owed
    <2> QED
      BY <2>1, <2>2 DEF Init, Atomic!Init
  <1>2. Init => GrantInv /\ CallInv /\ NoMissedSignal
    BY DEF Init, GrantInv, ResultOf, CallInv, CallOf, LineInv, PulseInv, NoScan, Registered, LoopSteps,
           NoMissedSignal, Waiting
  <1>3. ASSUME TypeOK, NoMissedSignal, GrantInv, CallInv, [Next]_vars
        PROVE  TypeOK' /\ NoMissedSignal' /\ GrantInv' /\ CallInv'
    BY <1>3, NextType, NextNoMissedSignal, NextGrantInv, NextCallInv
  <1>4. ASSUME TypeOK, TypeOK', NoMissedSignal, GrantInv, CallInv, [Next]_vars
        PROVE  [Atomic!Next]_(Atomic!vars)
    BY <1>4, StepRefines
  <1> QED
    BY <1>1, <1>2, <1>3, <1>4, InitType, PTL DEF Spec, ImplementsAtomicWait, Atomic!Spec

-----------------------------------------------------------------------------
(* Wakeups.  Each reason to return is tested at one place of the wait loop; *)
(* from that place on, a reason that comes up brings a wakeup with it.      *)

WakeOf(t) ==
  /\ pc[t] \in {"poll", "retry", "alerts", "sleep"} /\ granted[t] => WakeupDue(t)
  /\ pc[t] \in {"retry", "alerts", "sleep"} /\ terminated[t] => WakeupDue(t)
  /\ pc[t] = "sleep" /\ ~Undisturbed(t) => WakeupDue(t)
  /\ pc[t] \in {"alerts", "sleep"} /\ ~granted[t] /\ Satisfiable(t) => WakeupDue(t) \/ AwaitsVisit(t)

WakeInv == \A t \in Threads : WakeOf(t)

\* A wait becomes satisfiable only through one of its objects.
LEMMA SatisfiableBefore ==
  ASSUME NEW t \in Threads, req'[t] = req[t],
         \A o \in ObjectsOf(t) : CanSatisfy(o, t)' => CanSatisfy(o, t),
         Satisfiable(t)'
  PROVE  Satisfiable(t)
  <1>1. ObjectsOf(t)' = ObjectsOf(t)
    BY DEF ObjectsOf
  <1> QED
    BY <1>1 DEF Satisfiable

\* A wakeup that is due stays due.
LEMMA DueStays ==
  ASSUME NEW t \in Threads, UNCHANGED <<pc[t], req[t]>>, woken[t] => woken'[t],
         \A x \in notify : x \in notify' \/ (OnThreadList(t, x) => woken'[t]),
         WakeupDue(t)
  PROVE  WakeupDue(t)'
  <1>1. \A x : OnThreadList(t, x)' = OnThreadList(t, x)
    BY DEF OnThreadList, Registered, ObjectsOf
  <1> QED
    BY <1>1 DEF WakeupDue

\* The flag comes with the notification.
LEMMA DueOnNotify ==
  ASSUME NEW t \in Threads, NEW x \in notify', Registered(t)', x = t \/ x \in ObjectsOf(t)'
  PROVE  WakeupDue(t)'
  BY DEF WakeupDue, OnThreadList

\* A step in which the thread stays where it is and no reason comes up, or one
\* does that brings its wakeup.
LEMMA StaysPut ==
  ASSUME NEW t \in Threads, WakeOf(t), UNCHANGED <<pc[t], req[t], granted[t]>>,
         WakeupDue(t) => WakeupDue(t)',
         terminated'[t] => terminated[t] \/ WakeupDue(t)',
         Undisturbed(t) => Undisturbed(t)' \/ WakeupDue(t)',
         Registered(t) /\ ~granted[t] /\ Satisfiable(t)' =>
           \/ WakeupDue(t)' \/ AwaitsVisit(t)'
           \/ Satisfiable(t) /\ ~AwaitsVisit(t)
  PROVE  WakeOf(t)'
  BY DEF WakeOf, Registered, LoopSteps

\* A thread outside the part of the loop that the invariant is about.
LEMMA Elsewhere ==
  ASSUME NEW t \in Threads, pc'[t] \notin {"poll", "retry", "alerts", "sleep"}
  PROVE  WakeOf(t)'
  BY DEF WakeOf

\* The others, in a step that changes no flag and notifies nobody, and in which
\* no wait of theirs becomes satisfiable without a walk.
LEMMA OthersSleep ==
  ASSUME WakeInv, NEW t \in Threads, UNCHANGED <<pc[t], req[t], granted[t], woken[t]>>,
         UNCHANGED notify, UNCHANGED <<terminated[t], alerted[t], apc[t]>>,
         Registered(t) /\ ~granted[t] /\ Satisfiable(t)' =>
           AwaitsVisit(t)' \/ (Satisfiable(t) /\ ~AwaitsVisit(t))
  PROVE  WakeOf(t)'
  <1>1. WakeupDue(t) => WakeupDue(t)'
    BY DueStays
  <1>2. Undisturbed(t)' = Undisturbed(t)
    BY DEF Undisturbed
  <1> QED
    BY <1>1, <1>2, StaysPut DEF WakeInv

\* The same when no object becomes satisfiable for t, and no walk passes it.
LEMMA OthersQuiet ==
  ASSUME WakeInv, NEW t \in Threads, UNCHANGED <<pc[t], req[t], granted[t], woken[t]>>,
         UNCHANGED notify, UNCHANGED <<terminated, alerted[t], apc[t]>>,
         Registered(t) /\ ~granted[t] /\ AwaitsVisit(t) => AwaitsVisit(t)',
         \A o : o \notin Threads /\ CanSatisfy(o, t)' => CanSatisfy(o, t)
  PROVE  WakeOf(t)'
  <1>1. \A o \in ObjectsOf(t) : CanSatisfy(o, t)' => CanSatisfy(o, t)
    BY ObjectsAssumption DEF CanSatisfy
  <1>2. Satisfiable(t)' => Satisfiable(t)
    BY <1>1, SatisfiableBefore
  <1> QED
    BY <1>2, OthersSleep

\* A walk starts: the waits on the list of o await its visit.
LEMMA WalkWakes ==
  ASSUME WakeInv, UNCHANGED <<req, granted, woken, notify, terminated, alerted, apc>>,
         NEW t \in Threads, pc'[t] = pc[t],
         scan.obj = None, NEW o, o # None, scan'.obj = o, scan'.visited = {},
         \A x : x \notin Threads /\ x # o /\ CanSatisfy(x, t)' => CanSatisfy(x, t)
  PROVE  WakeOf(t)'
  <1>1. ~AwaitsVisit(t)
    BY DEF AwaitsVisit
  <1>2. CASE Registered(t) /\ o \in ObjectsOf(t)
    <2>1. AwaitsVisit(t)'
      BY <1>2 DEF AwaitsVisit, WaitersOn, Registered, ObjectsOf
    <2> QED
      BY <2>1, OthersSleep
  <1>3. CASE Registered(t) /\ o \notin ObjectsOf(t)
    <2>1. \A x \in ObjectsOf(t) : CanSatisfy(x, t)' => CanSatisfy(x, t)
      BY <1>3, ObjectsAssumption DEF CanSatisfy
    <2>2. Satisfiable(t)' => Satisfiable(t)
      BY <2>1, SatisfiableBefore
    <2> QED
      BY <1>1, <2>2, OthersSleep
  <1>4. CASE ~Registered(t)
    BY <1>4, OthersSleep
  <1> QED
    BY <1>2, <1>3, <1>4

\* No object changes for t's wait.
LEMMA ObjectsSame ==
  ASSUME UNCHANGED <<signal, owner, recursion>>, NEW t \in Threads
  PROVE  \A o : o \notin Threads /\ CanSatisfy(o, t)' => CanSatisfy(o, t)
  BY DEF CanSatisfy

\* The end of a thread satisfies waits that name it, and notifies them.
LEMMA EndNotifies ==
  ASSUME TypeOK, WakeInv, NEW x \in Threads, terminated' = [terminated EXCEPT ![x] = TRUE],
         notify \subseteq notify', ~terminated[x] => x \in notify',
         UNCHANGED <<signal, owner, recursion, alerted, apc, scan, req, granted, woken>>,
         NEW t \in Threads, pc'[t] = pc[t]
  PROVE  WakeOf(t)'
  <1>1. WakeupDue(t) => WakeupDue(t)'
    BY DueStays
  <1>2. Undisturbed(t)' = Undisturbed(t) /\ ObjectsOf(t)' = ObjectsOf(t) /\ AwaitsVisit(t)' = AwaitsVisit(t)
        /\ Registered(t)' = Registered(t)
    BY DEF Undisturbed, ObjectsOf, AwaitsVisit, WaitersOn, Registered
  <1>3. CASE ~Registered(t)
    BY <1>3, Elsewhere DEF Registered, LoopSteps
  <1>4. CASE Registered(t)
    <2>1. terminated'[t] => terminated[t] \/ WakeupDue(t)'
      BY <1>2, <1>4, DueOnNotify DEF TypeOK
    <2>2. Satisfiable(t)' => WakeupDue(t)' \/ Satisfiable(t)
      <3>1. CASE x \in ObjectsOf(t) /\ ~terminated[x]
        BY <1>2, <1>4, <3>1, DueOnNotify
      <3>2. CASE ~(x \in ObjectsOf(t) /\ ~terminated[x])
        <4>1. \A o \in ObjectsOf(t) : CanSatisfy(o, t)' => CanSatisfy(o, t)
          BY <3>2 DEF TypeOK, CanSatisfy
        <4> QED
          BY <4>1, SatisfiableBefore
      <3> QED
        BY <3>1, <3>2
    <2> QED
      BY <1>1, <1>2, <2>1, <2>2, StaysPut DEF WakeInv
  <1> QED
    BY <1>3, <1>4

LEMMA VisitWakes ==
  ASSUME TypeOK, WakeInv, NEW t \in Threads, Visit(t)
  PROVE  WakeInv'
  <1>1. /\ UNCHANGED <<pc, req, terminated, alerted, apc, notify>>
        /\ scan' = [scan EXCEPT !.visited = @ \cup {t}]
    BY DEF Visit, threadVars
  <1>2. \A u \in Threads \ {t} : AwaitsVisit(u) => AwaitsVisit(u)'
    BY <1>1 DEF TypeOK, AwaitsVisit, WaitersOn, Registered, ObjectsOf
  <1>3. CASE ~granted[t] /\ Satisfiable(t)
    <2>1. woken' = [woken EXCEPT ![t] = TRUE] /\ granted' = [granted EXCEPT ![t] = TRUE] /\ \E S : Consume(t, S)
      BY <1>3 DEF Visit, Grant, Wakeup
    <2>2. ASSUME NEW u \in Threads \ {t} PROVE WakeOf(u)'
      <3>1. \A o : o \notin Threads /\ CanSatisfy(o, u)' => CanSatisfy(o, u)
        BY <2>1, ConsumeSatisfiesNobody
      <3>2. UNCHANGED <<pc[u], req[u], granted[u], woken[u]>>
        BY <1>1, <2>1 DEF TypeOK
      <3> QED
        BY <1>1, <1>2, <3>1, <3>2, OthersQuiet
    <2>3. woken'[t]
      BY <2>1 DEF TypeOK
    <2>4. WakeOf(t)'
      BY <2>3 DEF WakeOf, WakeupDue
    <2> QED
      BY <2>2, <2>4 DEF WakeInv
  <1>4. CASE ~(~granted[t] /\ Satisfiable(t))
    <2>1. UNCHANGED <<signal, owner, recursion, granted, woken>>
      BY <1>4 DEF Visit, objectVars, grantVars
    <2>2. \A u \in Threads \ {t} : WakeOf(u)'
      BY <1>1, <1>2, <2>1, ObjectsSame, OthersQuiet
    <2>3. ~granted[t] => ~Satisfiable(t)'
      <3>1. \A o \in ObjectsOf(t) : CanSatisfy(o, t)' => CanSatisfy(o, t)
        BY <1>1, <2>1 DEF CanSatisfy
      <3> QED
        BY <1>1, <1>4, <3>1, SatisfiableBefore
    <2>4. WakeOf(t)'
      BY <1>1, <2>1, <2>3, OthersSleep
    <2> QED
      BY <2>2, <2>4 DEF WakeInv
  <1> QED
    BY <1>3, <1>4

LEMMA EnterWaitWakes ==
  ASSUME TypeOK, WakeInv, NEW t \in Threads, EnterWait(t)
  PROVE  WakeInv'
  <1>1. /\ scan.obj = None /\ UNCHANGED <<req, woken, notify, terminated, apc>>
        /\ pc'[t] \in {"done", "observe"}
        /\ \A u \in Threads \ {t} : UNCHANGED <<pc[u], granted[u], alerted[u]>>
    BY DEF TypeOK, EnterWait, End, LockFree, NoScan, HeldBy, threadVars, grantVars
  <1>2. WakeOf(t)'
    BY <1>1, Elsewhere
  <1>3. ASSUME NEW u \in Threads \ {t} PROVE WakeOf(u)'
    <2>1. (\E S : Consume(t, S)) \/ UNCHANGED <<signal, owner, recursion>>
      BY DEF EnterWait, objectVars
    <2>2. \A o : o \notin Threads /\ CanSatisfy(o, u)' => CanSatisfy(o, u)
      BY <2>1, ConsumeSatisfiesNobody, ObjectsSame
    <2>3. ~AwaitsVisit(u)
      BY <1>1 DEF AwaitsVisit
    <2> QED
      BY <1>1, <2>2, <2>3, OthersQuiet
  <1> QED
    BY <1>2, <1>3 DEF WakeInv

\* The retry under the lock: nothing satisfies the wait when it goes on.
LEMMA RetryWakes ==
  ASSUME TypeOK, WakeInv, NEW t \in Threads, Retry(t)
  PROVE  WakeInv'
  <1>1. /\ pc[t] = "retry" /\ scan.obj = None /\ UNCHANGED <<req, woken, notify, terminated, alerted, apc, scan>>
        /\ \A u \in Threads \ {t} : UNCHANGED <<pc[u], granted[u]>>
    BY DEF TypeOK, Retry, Grant, Goto, LockFree, NoScan, threadVars, grantVars
  <1>2. ASSUME NEW u \in Threads \ {t} PROVE WakeOf(u)'
    <2>1. (\E S : Consume(t, S)) \/ UNCHANGED <<signal, owner, recursion>>
      BY DEF Retry, Grant, objectVars
    <2>2. \A o : o \notin Threads /\ CanSatisfy(o, u)' => CanSatisfy(o, u)
      BY <2>1, ConsumeSatisfiesNobody, ObjectsSame
    <2>3. ~AwaitsVisit(u)
      BY <1>1 DEF AwaitsVisit
    <2> QED
      BY <1>1, <2>2, <2>3, OthersQuiet
  <1>3. CASE ~granted[t] /\ Satisfiable(t)
    <2>1. pc'[t] = "leave"
      BY <1>3 DEF TypeOK, Retry, Goto
    <2> QED
      BY <1>2, <2>1, Elsewhere DEF WakeInv
  <1>4. CASE ~(~granted[t] /\ Satisfiable(t))
    <2>1. pc'[t] = "alerts" /\ UNCHANGED <<signal, owner, recursion, granted>>
      BY <1>4 DEF TypeOK, Retry, Goto, objectVars, grantVars
    <2>2. ~granted[t] => ~Satisfiable(t)'
      <3>1. \A o \in ObjectsOf(t) : CanSatisfy(o, t)' => CanSatisfy(o, t)
        BY <1>1, <2>1 DEF CanSatisfy
      <3> QED
        BY <1>1, <1>4, <3>1, SatisfiableBefore
    <2>3. WakeupDue(t) => WakeupDue(t)'
      BY <1>1, <2>1 DEF WakeupDue, OnThreadList, Registered, LoopSteps, ObjectsOf
    <2>4. granted[t] \/ terminated[t] => WakeupDue(t)
      BY <1>1 DEF WakeInv, WakeOf
    <2>5. WakeOf(t)'
      BY <1>1, <2>1, <2>2, <2>3, <2>4 DEF WakeOf
    <2> QED
      BY <1>2, <2>5 DEF WakeInv
  <1> QED
    BY <1>3, <1>4

\* The tests of the loop outside the lock.
LEMMA LoopWakes ==
  ASSUME TypeOK, WakeInv, NEW t \in Threads, Observe(t) \/ PollTerminated(t) \/ TestAlerts(t) \/ Wake(t)
  PROVE  WakeInv'
  <1>1. /\ UNCHANGED <<signal, owner, recursion, scan, req, granted, notify, terminated, apc>>
        /\ \A u \in Threads \ {t} : UNCHANGED <<pc[u], woken[u], alerted[u]>>
        /\ Registered(t) /\ Registered(t)'
    BY DEF TypeOK, Observe, PollTerminated, TestAlerts, Wake, Goto, Sleep, objectVars, threadVars, grantVars,
           Registered, LoopSteps
  <1>2. \A u \in Threads : AwaitsVisit(u) => AwaitsVisit(u)'
    BY <1>1 DEF AwaitsVisit, WaitersOn, Registered, ObjectsOf
  <1>3. \A u \in Threads \ {t} : WakeOf(u)'
    BY <1>1, <1>2, ObjectsSame, OthersQuiet
  <1>4. woken'[t] = woken[t] /\ WakeupDue(t) => WakeupDue(t)'
    BY <1>1 DEF WakeupDue, OnThreadList, ObjectsOf
  <1>5. WakeOf(t)
    BY DEF WakeInv
  <1>6. CASE Observe(t)
    <2>1. pc'[t] = "leave" \/ (pc'[t] = "poll" /\ ~granted'[t])
      BY <1>1, <1>6 DEF TypeOK, Observe, Goto
    <2> QED
      BY <1>3, <2>1, Elsewhere DEF WakeInv, WakeOf
  <1>7. CASE PollTerminated(t)
    <2>1. /\ pc[t] = "poll" /\ woken'[t] = woken[t]
          /\ pc'[t] = "leave" \/ (pc'[t] = "retry" /\ ~terminated'[t])
      BY <1>1, <1>7 DEF TypeOK, PollTerminated, Goto
    <2>2. granted'[t] => WakeupDue(t)'
      BY <1>1, <1>4, <1>5, <2>1 DEF WakeOf
    <2>3. WakeOf(t)'
      BY <2>1, <2>2 DEF WakeOf
    <2> QED
      BY <1>3, <2>3 DEF WakeInv
  <1>8. CASE TestAlerts(t)
    <2>1. CASE pc'[t] = "leave"
      BY <1>3, <2>1, Elsewhere DEF WakeInv
    <2>2. CASE pc'[t] # "leave"
      <3>1. pc[t] = "alerts" /\ pc'[t] = "sleep" /\ woken'[t] = woken[t] /\ Undisturbed(t) /\ UNCHANGED alerted
        BY <1>8, <2>2 DEF TypeOK, TestAlerts, Goto, Sleep, threadVars
      <3>2. Undisturbed(t)' /\ (Satisfiable(t)' => Satisfiable(t))
        <4>1. \A o \in ObjectsOf(t) : CanSatisfy(o, t)' => CanSatisfy(o, t)
          BY <1>1 DEF CanSatisfy
        <4> QED
          BY <1>1, <3>1, <4>1, SatisfiableBefore DEF Undisturbed
      <3>3. WakeOf(t)'
        BY <1>1, <1>2, <1>4, <1>5, <3>1, <3>2 DEF WakeOf
      <3> QED
        BY <1>3, <3>3 DEF WakeInv
    <2> QED
      BY <2>1, <2>2
  <1>9. CASE Wake(t)
    <2>1. pc'[t] = "observe"
      BY <1>9 DEF TypeOK, Wake, Goto
    <2> QED
      BY <1>3, <2>1, Elsewhere DEF WakeInv
  <1> QED
    BY <1>6, <1>7, <1>8, <1>9

\* A walk of o's list starts, or o is cleared, or a mutant is dropped by one
\* level; t's own wait is elsewhere or untouched.
LEMMA DropWakes ==
  ASSUME TypeOK, WakeInv, LockFree, NEW t \in Threads, NEW m \in Mutants, NEW then, DropMutant(t, m, then),
         UNCHANGED <<req, granted, woken, notify, terminated, alerted, apc>>,
         NEW u \in Threads, pc'[u] = pc[u]
  PROVE  WakeOf(u)'
  <1>1. CASE recursion[m] = 1
    <2>1. scan.obj = None /\ m # None /\ scan'.obj = m /\ scan'.visited = {}
      BY <1>1, ObjectsAssumption DEF LockFree, NoScan, DropMutant, ScanOf, Objects
    <2>2. \A x : x \notin Threads /\ x # m /\ CanSatisfy(x, u)' => CanSatisfy(x, u)
      BY <1>1 DEF TypeOK, DropMutant, CanSatisfy
    <2> QED
      BY <2>1, <2>2, WalkWakes
  <1>2. CASE recursion[m] # 1
    <2>1. \A x : x \notin Threads /\ CanSatisfy(x, u)' => CanSatisfy(x, u)
      BY <1>2 DEF TypeOK, DropMutant, CanSatisfy
    <2>2. ~AwaitsVisit(u)
      BY DEF LockFree, NoScan, AwaitsVisit
    <2> QED
      BY <2>1, <2>2, OthersQuiet
  <1> QED
    BY <1>1, <1>2

LEMMA SignalWakes ==
  ASSUME TypeOK, WakeInv, LockFree, NEW o \in Counted, NEW v, NEW then, NEW who, SignalAs(o, v, then, who),
         UNCHANGED <<req, granted, woken, notify, terminated, alerted, apc>>,
         NEW t \in Threads, pc'[t] = pc[t]
  PROVE  WakeOf(t)'
  <1>1. scan.obj = None /\ o # None /\ scan'.obj = o /\ scan'.visited = {}
    BY ObjectsAssumption DEF LockFree, NoScan, SignalAs, ScanOf, Objects
  <1>2. \A x : x \notin Threads /\ x # o /\ CanSatisfy(x, t)' => CanSatisfy(x, t)
    BY DEF TypeOK, SignalAs, CanSatisfy
  <1> QED
    BY <1>1, <1>2, WalkWakes

LEMMA SignalStepWakes ==
  ASSUME TypeOK, WakeInv, SignalStep
  PROVE  WakeInv'
  <1> USE ValueTypes
  <1>1. UNCHANGED <<pc, req, granted, woken, notify, terminated, alerted, apc>>
    BY DEF SignalStep, SetEvent, PulseEvent, ResetEvent, ReleaseSemaphore, SetTimer,
           CancelTimer, FireTimer, GuestStore, Reconcile, grantVars, waitVars, threadVars
  <1>2. ASSUME NEW o \in Counted, NEW v, NEW then, SignalAs(o, v, then, None), LockFree PROVE WakeInv'
    BY <1>1, <1>2, SignalWakes DEF WakeInv
  <1>3. ASSUME UNCHANGED <<owner, recursion, scan>>,
               signal' = signal \/ \E o \in Counted : signal' = [signal EXCEPT ![o] = 0]
        PROVE  WakeInv'
    <2>1. \A t \in Threads : \A x : x \notin Threads /\ CanSatisfy(x, t)' => CanSatisfy(x, t)
      BY <1>3 DEF TypeOK, CanSatisfy
    <2>2. \A t \in Threads : AwaitsVisit(t) => AwaitsVisit(t)'
      BY <1>1, <1>3 DEF AwaitsVisit, WaitersOn, Registered, ObjectsOf
    <2> QED
      BY <1>1, <2>1, <2>2, OthersQuiet DEF WakeInv
  <1>4. ASSUME NEW e \in Events, SetEvent(e) \/ PulseEvent(e) \/ ResetEvent(e) PROVE WakeInv'
    BY <1>2, <1>3, <1>4 DEF SetEvent, PulseEvent, ResetEvent, StoreAs
  <1>5. ASSUME NEW s \in Semaphores, NEW n \in 1..Limit[s], ReleaseSemaphore(s, n) PROVE WakeInv'
    BY <1>2, <1>5 DEF ReleaseSemaphore
  <1>6. ASSUME NEW tm \in Timers, NEW b \in BOOLEAN, SetTimer(tm, b) \/ CancelTimer(tm) \/ FireTimer(tm, b)
        PROVE  WakeInv'
    BY <1>2, <1>3, <1>6 DEF SetTimer, CancelTimer, FireTimer, StoreAs
  <1>7. ASSUME NEW o \in Mirrored, Reconcile(o) PROVE WakeInv'
    BY <1>2, <1>3, <1>7 DEF Reconcile
  <1>8. ASSUME NEW o \in Mirrored, NEW v \in GuestValues, GuestStore(o, v) PROVE WakeInv'
    BY <1>3, <1>8 DEF GuestStore
  <1> QED
    BY <1>4, <1>5, <1>6, <1>7, <1>8 DEF SignalStep

\* What other threads do to a thread.
LEMMA ThreadStepWakes ==
  ASSUME TypeOK, WakeInv, ThreadStep
  PROVE  WakeInv'
  <1>1. /\ UNCHANGED <<signal, owner, recursion, scan, pc, req, granted>>
        /\ \A t \in Threads : /\ AwaitsVisit(t)' = AwaitsVisit(t) /\ Registered(t)' = Registered(t)
                              /\ ObjectsOf(t)' = ObjectsOf(t)
    BY DEF ThreadStep, Terminate, Alert, QueueUserApc, RemoveUserApc, NotifyAlways, objectVars, grantVars,
           waitVars, AwaitsVisit, WaitersOn, Registered, ObjectsOf
  <1>2. ASSUME UNCHANGED terminated, NEW t \in Threads PROVE Satisfiable(t)' => Satisfiable(t)
    <2>1. \A o \in ObjectsOf(t) : CanSatisfy(o, t)' => CanSatisfy(o, t)
      BY <1>1, <1>2 DEF CanSatisfy
    <2> QED
      BY <1>1, <2>1, SatisfiableBefore
  <1>3. ASSUME NEW x \in Terminates, Terminate(x) PROVE WakeInv'
    BY <1>3, RequestsAssumption, EndNotifies DEF Terminate, objectVars, grantVars, waitVars, WakeInv
  <1>4. ASSUME NEW x \in Threads, Alert(x) \/ QueueUserApc(x) PROVE WakeInv'
    <2>1. notify' = notify \cup {x} /\ UNCHANGED <<terminated, woken>>
      BY <1>4 DEF Alert, QueueUserApc, waitVars
    <2> SUFFICES ASSUME NEW t \in Threads PROVE WakeOf(t)'
      BY DEF WakeInv
    <2>2. WakeupDue(t) => WakeupDue(t)'
      BY <1>1, <2>1, DueStays
    <2>3. CASE ~Registered(t)
      BY <1>1, <2>3, Elsewhere DEF Registered, LoopSteps
    <2>4. CASE Registered(t)
      <3>1. Undisturbed(t) => Undisturbed(t)' \/ WakeupDue(t)'
        <4>1. CASE t = x
          BY <1>1, <2>1, <2>4, <4>1, DueOnNotify
        <4>2. CASE t # x
          BY <1>1, <1>4, <4>2 DEF TypeOK, Undisturbed, Alert, QueueUserApc
        <4> QED
          BY <4>1, <4>2
      <3> QED
        BY <1>1, <1>2, <2>1, <2>2, <3>1, StaysPut DEF WakeInv
    <2> QED
      BY <2>3, <2>4
  <1>5. ASSUME NEW x \in Threads, RemoveUserApc(x) PROVE WakeInv'
    <2>1. UNCHANGED <<terminated, woken, notify, alerted>>
      BY <1>5 DEF RemoveUserApc, waitVars
    <2> SUFFICES ASSUME NEW t \in Threads PROVE WakeOf(t)'
      BY DEF WakeInv
    <2>2. WakeupDue(t) => WakeupDue(t)'
      BY <1>1, <2>1, DueStays
    <2>3. Undisturbed(t) => Undisturbed(t)'
      BY <1>1, <1>5, <2>1 DEF TypeOK, Undisturbed, RemoveUserApc
    <2> QED
      BY <1>1, <1>2, <2>1, <2>2, <2>3, StaysPut DEF WakeInv
  <1>6. ASSUME NEW x \in Threads, NotifyAlways(x) PROVE WakeInv'
    <2>1. /\ UNCHANGED <<terminated, alerted, apc>> /\ notify' = notify \ {x}
          /\ woken' = [t \in Threads |-> woken[t] \/ OnThreadList(t, x)]
      BY <1>6 DEF NotifyAlways
    <2> SUFFICES ASSUME NEW t \in Threads PROVE WakeOf(t)'
      BY DEF WakeInv
    <2>2. woken'[t] = (woken[t] \/ OnThreadList(t, x))
      BY <2>1
    <2>3. WakeupDue(t) => WakeupDue(t)'
      BY <1>1, <2>1, <2>2, DueStays
    <2>4. Undisturbed(t)' = Undisturbed(t)
      BY <1>1, <2>1 DEF Undisturbed
    <2> QED
      BY <1>1, <1>2, <2>1, <2>3, <2>4, StaysPut DEF WakeInv
  <1> QED
    BY <1>3, <1>4, <1>5, <1>6, RequestsAssumption DEF ThreadStep

LEMMA NextWakeInv == TypeOK /\ WakeInv /\ [Next]_vars => WakeInv'
  <1> SUFFICES ASSUME TypeOK, WakeInv, [Next]_vars PROVE WakeInv'
    OBVIOUS
  <1> USE ValueTypes
  \* A step of a thread outside the loop that changes no object.
  <1>0. ASSUME NEW t \in Threads, pc'[t] \notin {"poll", "retry", "alerts", "sleep"},
               UNCHANGED <<signal, owner, recursion, scan, notify, terminated>>,
               \A u \in Threads \ {t} :
                 UNCHANGED <<pc[u], req[u], granted[u], woken[u], alerted[u], apc[u]>>
        PROVE  WakeInv'
    <2>1. WakeOf(t)'
      BY <1>0, Elsewhere
    <2>2. \A u \in Threads \ {t} : AwaitsVisit(u) => AwaitsVisit(u)'
      BY <1>0 DEF AwaitsVisit, WaitersOn, Registered, ObjectsOf
    <2>3. \A u \in Threads \ {t} : WakeOf(u)'
      BY <1>0, <2>2, ObjectsSame, OthersQuiet
    <2> QED
      BY <2>1, <2>3 DEF WakeInv
  <1>1. ASSUME EndScan PROVE WakeInv'
    <2>1. UNCHANGED <<pc, req, granted, woken, notify, terminated, alerted, apc>>
      BY <1>1 DEF EndScan, waitVars, grantVars, threadVars
    <2>2. \A t \in Threads : ~AwaitsVisit(t)
      BY <1>1 DEF EndScan, ScanComplete, AwaitsVisit
    <2>3. \A t \in Threads : \A o : o \notin Threads /\ CanSatisfy(o, t)' => CanSatisfy(o, t)
      BY <1>1 DEF TypeOK, EndScan, CanSatisfy
    <2> QED
      BY <2>1, <2>2, <2>3, OthersQuiet DEF WakeInv
  <1>2. ASSUME NEW t \in Threads, EnterSignal(t) PROVE WakeInv'
    <2>1. /\ pc'[t] = "locked" /\ LockFree /\ \A u \in Threads \ {t} : pc'[u] = pc[u]
          /\ UNCHANGED <<req, granted, woken, notify, terminated, alerted, apc>>
      BY <1>2 DEF TypeOK, EnterSignal, grantVars, threadVars
    <2>2. ASSUME NEW u \in Threads \ {t} PROVE WakeOf(u)'
      BY <1>2, <2>1, SignalWakes, DropWakes DEF EnterSignal
    <2> QED
      BY <2>1, <2>2, Elsewhere DEF WakeInv
  <1>3. ASSUME NEW t \in Threads, NEW m \in Mutants, ReleaseMutant(t, m) \/ AbandonMutant(t, m) PROVE WakeInv'
    <2>1. UNCHANGED <<pc, req, granted, woken, notify, terminated, alerted, apc>> /\ LockFree
      BY <1>3 DEF ReleaseMutant, AbandonMutant, waitVars, grantVars, threadVars
    <2>2. CASE ReleaseMutant(t, m)
      BY <2>1, <2>2, DropWakes DEF ReleaseMutant, WakeInv
    <2>3. CASE AbandonMutant(t, m)
      <3>1. scan.obj = None /\ m # None /\ scan'.obj = m /\ scan'.visited = {}
        BY <2>1, <2>3, ObjectsAssumption DEF LockFree, NoScan, AbandonMutant, ScanOf, Objects
      <3>2. \A u \in Threads : \A x : x \notin Threads /\ x # m /\ CanSatisfy(x, u)' => CanSatisfy(x, u)
        BY <2>3 DEF TypeOK, AbandonMutant, CanSatisfy
      <3> QED
        BY <2>1, <3>1, <3>2, WalkWakes DEF WakeInv
    <2> QED
      BY <1>3, <2>2, <2>3
  <1>4. ASSUME NEW t \in Threads, EnterSignalFails(t) \/ Leave(t) \/ DelayTest(t) \/ Exit(t) PROVE WakeInv'
    BY <1>0, <1>4 DEF TypeOK, EnterSignalFails, Leave, DelayTest, Exit, Goto, End, Idle, objectVars, threadVars,
                      grantVars
  <1>5. ASSUME NEW t \in Threads, Return(t) PROVE WakeInv'
    BY <1>0, <1>5 DEF TypeOK, Return, objectVars
  <1>6. ASSUME NEW t \in Threads, DelayEnd(t) PROVE WakeInv'
    <2>1. /\ pc'[t] \in {"done"}
          /\ \A u \in Threads \ {t} : UNCHANGED <<pc[u], req[u], woken[u], alerted[u]>>
      BY <1>6 DEF TypeOK, DelayEnd, End, TakeAlertFor
    <2>2. UNCHANGED <<signal, owner, recursion, scan, notify, terminated, granted, apc>>
      BY <1>6 DEF DelayEnd, objectVars, grantVars
    <2> QED
      BY <1>0, <2>1, <2>2
  <1>7. ASSUME NEW t \in Threads, NEW r \in Requests[t], BeginWait(t, r) PROVE WakeInv'
    <2>1. pc'[t] \in {"done", "enter"} /\ \A u \in Threads \ {t} : UNCHANGED <<pc[u], req[u]>>
      BY <1>7 DEF TypeOK, BeginWait, End
    <2>2. UNCHANGED <<signal, owner, recursion, scan, notify, terminated, granted, woken, alerted, apc>>
      BY <1>7 DEF BeginWait, objectVars, grantVars, threadVars
    <2> QED
      BY <1>0, <2>1, <2>2
  <1>8. ASSUME NEW t \in Threads, NEW alertable \in BOOLEAN, NEW positive \in BOOLEAN,
               BeginDelay(t, alertable, positive)
        PROVE  WakeInv'
    <2>1. /\ pc'[t] \in {"delay", "done"}
          /\ \A u \in Threads \ {t} : UNCHANGED <<pc[u], req[u], woken[u], alerted[u]>>
      BY <1>8 DEF TypeOK, BeginDelay, End, Goto, TakeAlertFor
    <2>2. UNCHANGED <<signal, owner, recursion, scan, notify, terminated, granted, apc>>
      BY <1>8 DEF BeginDelay, objectVars, grantVars
    <2> QED
      BY <1>0, <2>1, <2>2
  <1>9. ASSUME NEW t \in Threads, TestAlert(t) PROVE WakeInv'
    BY <1>0, <1>9 DEF TypeOK, TestAlert, Idle, objectVars, grantVars, waitVars
  <1>10. ASSUME NEW t \in Threads, Finish(t) PROVE WakeInv'
    <2>1. /\ pc'[t] = "exited" /\ \A u \in Threads \ {t} : pc'[u] = pc[u]
          /\ terminated' = [terminated EXCEPT ![t] = TRUE]
          /\ notify \subseteq notify' /\ (~terminated[t] => t \in notify')
          /\ UNCHANGED <<signal, owner, recursion, alerted, apc, scan, req, granted, woken>>
      BY <1>10 DEF TypeOK, Finish, Goto, objectVars, grantVars
    <2>2. \A u \in Threads \ {t} : WakeOf(u)'
      BY <2>1, EndNotifies
    <2> QED
      BY <2>1, <2>2, Elsewhere DEF WakeInv
  <1>11. ASSUME UNCHANGED <<signal, owner, recursion, scan, pc, req, granted, woken, notify, terminated, alerted, apc>>
         PROVE  WakeInv'
    <2>1. \A u \in Threads : AwaitsVisit(u) => AwaitsVisit(u)'
      BY <1>11 DEF AwaitsVisit, WaitersOn, Registered, ObjectsOf
    <2> QED
      BY <1>11, <2>1, ObjectsSame, OthersQuiet DEF WakeInv
  <1>12. ASSUME NEW t \in Threads, Expire(t) PROVE WakeInv'
    BY <1>11, <1>12 DEF Expire, objectVars, grantVars, threadVars
  <1>13. ASSUME UNCHANGED vars PROVE WakeInv'
    BY <1>11, <1>13 DEF vars, objectVars, grantVars, threadVars, waitVars
  <1>14. ASSUME NEW t \in Threads, WaitStep(t) PROVE WakeInv'
    BY <1>2, <1>4, <1>5, <1>6, <1>14, EnterWaitWakes, RetryWakes, LoopWakes DEF WaitStep
  <1>15. ASSUME NEW t \in Threads, GuestStep(t) \/ Rundown(t) PROVE WakeInv'
    BY <1>3, <1>4, <1>7, <1>8, <1>9, <1>10, <1>15 DEF GuestStep, Rundown
  <1> QED
    BY <1>1, <1>12, <1>13, <1>14, <1>15, VisitWakes, SignalStepWakes, ThreadStepWakes DEF Next

\* No wakeup is lost in the wait loop, for any number of threads and waits: a
\* sleeping thread with a reason to return is woken, or is about to be, by the
\* notification that its reason brings.  It is the safety half of the liveness
\* of waits (wait_for_objects_after, notify_always).
THEOREM NoWakeupIsLost == Spec => []NoLostWakeup
  <1>1. Init => WakeInv
    BY DEF Init, WakeInv, WakeOf
  <1>2. TypeOK /\ WakeInv /\ [Next]_vars => (TypeOK /\ WakeInv)'
    BY NextType, NextWakeInv
  <1>3. WakeInv => NoLostWakeup
    BY DEF WakeInv, WakeOf, NoLostWakeup
  <1> QED
    BY <1>1, <1>2, <1>3, InitType, PTL DEF Spec
=============================================================================
