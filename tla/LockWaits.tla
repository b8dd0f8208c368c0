------------------------------ MODULE LockWaits ------------------------------
(***************************************************************************)
(* The waits inside the guest's locks.  A critical section and a           *)
(* read/write lock hand over through an event or a semaphore that lives in *)
(* the lock's own words: a caller that finds the lock taken registers in a *)
(* counter, lets go of critical_section_mutex() and waits, infinitely and  *)
(* not alertably, for the signal of whoever leaves.                        *)
(*                                                                         *)
(* Dispatcher is the model of the waits themselves.  Here they are what    *)
(* its runs show of them: a signal goes to the oldest waiter or stays on   *)
(* the object, a wait that was granted returns so, and only termination    *)
(* ends one otherwise.                                                     *)
(***************************************************************************)
EXTENDS Integers, Sequences, FiniteSets, SequencesExt

CONSTANTS
    Threads,
    Events,      \* synchronization events: signalled or not
    Semaphores,  \* semaphores without a limit of interest
    None,
    Terminates,  \* the threads that may be terminated
    RunsOn,      \* those whose code goes on after it, to the next safepoint
    MaxFailures  \* how often the wait object cannot be resolved

ASSUME LockAssumption ==
    /\ IsFiniteSet(Threads) /\ Terminates \subseteq Threads /\ RunsOn \subseteq Terminates
    /\ Events \cap Semaphores = {} /\ None \notin Threads \cup Events \cup Semaphores
    /\ MaxFailures \in Nat

VARIABLES
    tokens,     \* the signal state of each object
    queue,      \* its registered waits, the oldest first
    handed,     \* the waits granted by a signaller
    terminated, \* is_terminated() of each thread
    pc,         \* where each thread is in its call
    target,     \* the object it waits for or signals
    amount,     \* how many waits its signal is for
    failures    \* resolutions that failed so far

Objects == Events \cup Semaphores

waitVars == <<tokens, queue, handed, terminated, pc, target, amount, failures>>
objectVars == <<tokens, queue, handed>>

WaitInit ==
    /\ tokens = [o \in Objects |-> 0]
    /\ queue = [o \in Objects |-> <<>>]
    /\ handed = {} /\ terminated = {}
    /\ pc = [t \in Threads |-> "out"]
    /\ target = [t \in Threads |-> None]
    /\ amount = [t \in Threads |-> 0]
    /\ failures = 0

-----------------------------------------------------------------------------
\* A thread in guest code that makes its next call.
Calls(t) == pc[t] = "out" /\ (t \in terminated => t \in RunsOn)

\* The call is over and the guest goes on.
Returns(t) ==
    /\ pc' = [pc EXCEPT ![t] = "out"]
    /\ target' = [target EXCEPT ![t] = None]
    /\ amount' = [amount EXCEPT ![t] = 0]

\* The call goes on at a label, with an object and a number of waits.
GoesOn(t, label, o, n) ==
    /\ pc' = [pc EXCEPT ![t] = label]
    /\ target' = [target EXCEPT ![t] = o]
    /\ amount' = [amount EXCEPT ![t] = n]

Label(t, label) == pc' = [pc EXCEPT ![t] = label] /\ UNCHANGED <<target, amount>>

\* Mutant: the wait registers without a look at the signal state.
WaitUnseeing(t) ==
    /\ pc[t] = "start"
    /\ \/ /\ t \in terminated
          /\ Label(t, "refused") /\ UNCHANGED objectVars
       \/ /\ t \notin terminated
          /\ queue' = [queue EXCEPT ![target[t]] = Append(@, t)]
          /\ Label(t, "waiting") /\ UNCHANGED <<tokens, handed>>
    /\ UNCHANGED <<terminated, failures>>
\* wait_for_single_object up to its registration.
Wait(t) ==
    /\ pc[t] = "start"
    /\ \/ /\ t \in terminated
          /\ Label(t, "refused") /\ UNCHANGED objectVars
       \/ /\ t \notin terminated /\ tokens[target[t]] > 0
          /\ tokens' = [tokens EXCEPT ![target[t]] = @ - 1]
          /\ Label(t, "granted") /\ UNCHANGED <<queue, handed>>
       \/ /\ t \notin terminated /\ tokens[target[t]] = 0
          /\ queue' = [queue EXCEPT ![target[t]] = Append(@, t)]
          /\ Label(t, "waiting") /\ UNCHANGED <<tokens, handed>>
    /\ UNCHANGED <<terminated, failures>>

\* The granted wait returns, also of a thread that was terminated since.
Wake(t) ==
    /\ pc[t] = "waiting" /\ t \in handed
    /\ handed' = handed \ {t}
    /\ Label(t, "granted")
    /\ UNCHANGED <<tokens, queue, terminated, failures>>

\* terminate() ends a wait that nobody granted.
GiveUp(t) ==
    /\ pc[t] = "waiting" /\ t \notin handed /\ t \in terminated
    /\ \E i \in 1..Len(queue[target[t]]) :
          /\ queue[target[t]][i] = t
          /\ queue' = [queue EXCEPT ![target[t]] = RemoveAt(@, i)]
    /\ Label(t, "refused")
    /\ UNCHANGED <<tokens, handed, terminated, failures>>

\* The header of the lock does not resolve to an object: no wait, no signal.
Unresolved(t) ==
    /\ failures < MaxFailures
    /\ failures' = failures + 1
    /\ \/ pc[t] = "start" /\ Label(t, "failed")
       \/ pc[t] = "signal" /\ Returns(t)
    /\ UNCHANGED <<objectVars, terminated>>

\* event->set() and KeReleaseSemaphore: the oldest waits, then the object.
Signal(t) ==
    LET o == target[t]
        n == IF amount[t] < Len(queue[o]) THEN amount[t] ELSE Len(queue[o])
        left == tokens[o] + amount[t] - n
    IN  /\ pc[t] = "signal"
        /\ handed' = handed \cup ToSet(SubSeq(queue[o], 1, n))
        /\ queue' = [queue EXCEPT ![o] = SubSeq(@, n + 1, Len(@))]
        /\ tokens' = [tokens EXCEPT ![o] = IF o \in Events /\ left > 1 THEN 1 ELSE left]
        /\ Returns(t)
        /\ UNCHANGED <<terminated, failures>>

\* KernelThread::terminate, by the session or by the thread itself.
Terminate(t) ==
    /\ t \in Terminates \ terminated
    /\ terminated' = terminated \cup {t}
    /\ UNCHANGED <<objectVars, pc, target, amount, failures>>

WaitStep(t) == Wait(t) \/ Wake(t) \/ GiveUp(t) \/ Unresolved(t) \/ Signal(t) \/ Terminate(t)

\* The threads registered for one of the objects, until they have gone on.
Registered(objects) ==
    {t \in Threads : target[t] \in objects /\ pc[t] \in {"start", "waiting", "granted"}}

\* Signals on their way to a waiter of object o: to be sent, on the object, or
\* granted to a wait that has not returned or whose caller has not gone on.
Senders(o) == {t \in Threads : pc[t] = "signal" /\ target[t] = o}
Unsent(o) == UNION {{t} \X (1..amount[t]) : t \in Senders(o)}

Receivers(o) ==
    {t \in Threads : target[t] = o /\ (t \in handed \/ pc[t] = "granted")}

InTransit(o) ==
    tokens[o] + Cardinality(Receivers(o)) + Cardinality(Unsent(o))

=============================================================================
