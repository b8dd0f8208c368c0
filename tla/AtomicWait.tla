------------------------------ MODULE AtomicWait ------------------------------
(***************************************************************************)
(* What the kernel's waits promise to the threads that make them, with no  *)
(* word of the dispatcher lock, wait blocks, walks, wakeups or polling.    *)
(*                                                                         *)
(* A wait takes what satisfies it in one step, and in that step it is over *)
(* and its result is known.  A signal is followed by the takes of all the  *)
(* waits it satisfies, oldest first, before anything else is done to an    *)
(* object; a wait that gives up does so when no signal satisfies it.  What *)
(* an operation still owes (the wait of a signal-and-wait, the clearing of *)
(* a pulse) follows before any other operation.                            *)
(*                                                                         *)
(* A thread's end is no such signal: a wait may take it at any moment, and *)
(* may be given up although a thread it names has ended.                   *)
(***************************************************************************)
EXTENDS Integers

CONSTANTS
  Threads,
  Counted,    \* objects with a state from 0 to their limit
  Limits,     \* Counted: that limit
  Latched,    \* those from which a wait takes nothing
  Mutants,
  Requests,   \* Threads: the waits that the thread makes
  None

VARIABLES
  signal, owner, recursion, abandoned, terminated,   \* the objects' states
  phase,    \* Threads: "idle", "called", "waiting" or "over"
  ask,      \* Threads: the wait it makes, or None
  line,     \* Threads: the waits before its own
  index,    \* Threads: the index that the wait reports
  took,     \* Threads: the objects taken for the wait
  result,   \* Threads: its result
  owed      \* the thread whose wait, or the event whose clearing, comes next

objects == <<signal, owner, recursion, abandoned>>
waits   == <<phase, ask, line, index, took, result>>
vars    == <<objects, terminated, waits, owed>>

ObjectsOf(t) == {ask[t].objects[i] : i \in DOMAIN ask[t].objects}

CanSatisfy(o, t) ==
  \/ o \in Counted /\ signal[o] > 0
  \/ o \in Mutants /\ (recursion[o] = 0 \/ owner[o] = t)
  \/ o \in Threads /\ terminated[o]

Satisfiable(t) ==
  IF ask[t].all THEN \A o \in ObjectsOf(t) : CanSatisfy(o, t)
                ELSE \E o \in ObjectsOf(t) : CanSatisfy(o, t)

\* Satisfiable, and not by the end of a thread.
BySignal(t) ==
  IF ask[t].all
    THEN ObjectsOf(t) \cap Threads = {} /\ \A o \in ObjectsOf(t) : CanSatisfy(o, t)
    ELSE \E o \in ObjectsOf(t) \ Threads : CanSatisfy(o, t)

Waiting == {t \in Threads : phase[t] = "waiting"}

\* Every signal has reached the waits that it satisfies.
Settled == \A t \in Waiting : ~BySignal(t)
Free    == Settled /\ owed = None

Init ==
  /\ signal = [o \in Counted |-> 0]
  /\ owner = [m \in Mutants |-> None]
  /\ recursion = [m \in Mutants |-> 0]
  /\ abandoned = [m \in Mutants |-> FALSE]
  /\ terminated = [t \in Threads |-> FALSE]
  /\ phase = [t \in Threads |-> "idle"]
  /\ ask = [t \in Threads |-> None]
  /\ line = [t \in Threads |-> {}]
  /\ index = [t \in Threads |-> 0]
  /\ took = [t \in Threads |-> {}]
  /\ result = [t \in Threads |-> "none"]
  /\ owed = None

-----------------------------------------------------------------------------
(* The objects.                                                            *)

\* A state is set, reset or adopted; an event that is pulsed is cleared next.
Signal(o, v, next) ==
  /\ Free
  /\ v \in 0..Limits[o] /\ next \in {None, o}
  /\ signal' = [signal EXCEPT ![o] = v]
  /\ owed' = next
  /\ UNCHANGED <<owner, recursion, abandoned, terminated, waits>>

Clear(o) ==
  /\ owed = o /\ Settled
  /\ signal' = [signal EXCEPT ![o] = 0]
  /\ owed' = None
  /\ UNCHANGED <<owner, recursion, abandoned, terminated, waits>>

\* One level of ownership, or all of it when the owner is gone.
Drop(t, m) ==
  /\ owner[m] = t /\ recursion[m] > 0
  /\ recursion' = [recursion EXCEPT ![m] = @ - 1]
  /\ owner' = [owner EXCEPT ![m] = IF recursion[m] = 1 THEN None ELSE @]
  /\ UNCHANGED <<signal, abandoned>>

Release(t, m) ==
  /\ Free /\ phase[t] = "idle"
  /\ Drop(t, m)
  /\ UNCHANGED <<terminated, waits, owed>>

Abandon(t, m) ==
  /\ Free /\ phase[t] = "idle"
  /\ owner[m] = t
  /\ owner' = [owner EXCEPT ![m] = None]
  /\ recursion' = [recursion EXCEPT ![m] = 0]
  /\ abandoned' = [abandoned EXCEPT ![m] = TRUE]
  /\ UNCHANGED <<signal, terminated, waits, owed>>

Terminate(t) ==
  /\ terminated' = [terminated EXCEPT ![t] = TRUE]
  /\ UNCHANGED <<objects, waits, owed>>

-----------------------------------------------------------------------------
(* A wait: called, in the line or not, over, and back.                     *)

Becomes(t, place) == phase' = [phase EXCEPT ![t] = place]

\* It ends without having taken anything.
EndsWith(t, why) ==
  /\ Becomes(t, "over")
  /\ result' = [result EXCEPT ![t] = why]
  /\ UNCHANGED <<objects, terminated, index, took>>

LeavesLine(t) == line' = [u \in Threads |-> IF u = t THEN {} ELSE line[u] \ {t}]

\* The lowest index that satisfies a wait for any, the first for all.
SatisfiedAt(t, i) ==
  /\ Satisfiable(t)
  /\ i \in DOMAIN ask[t].objects
  /\ IF ask[t].all
       THEN i = 1
       ELSE /\ CanSatisfy(ask[t].objects[i], t)
            /\ \A j \in 1..(i - 1) : ~CanSatisfy(ask[t].objects[j], t)

Chosen(t, i) == IF ask[t].all THEN ObjectsOf(t) ELSE {ask[t].objects[i]}

TakeOf(t, S) ==
  /\ signal' = [o \in Counted |-> IF o \in S \ Latched THEN signal[o] - 1 ELSE signal[o]]
  /\ owner' = [m \in Mutants |-> IF m \in S /\ recursion[m] = 0 THEN t ELSE owner[m]]
  /\ recursion' = [m \in Mutants |-> IF m \in S THEN recursion[m] + 1 ELSE recursion[m]]
  /\ abandoned' = [m \in Mutants |-> abandoned[m] /\ ~(m \in S /\ recursion[m] = 0)]

ResultOf(S) ==
  IF \E m \in S \cap Mutants : recursion[m] = 0 /\ abandoned[m] THEN "Abandoned" ELSE "Success"

\* The objects are taken and the wait is over.
Takes(t) ==
  /\ \E i \in DOMAIN ask[t].objects :
       /\ SatisfiedAt(t, i)
       /\ TakeOf(t, Chosen(t, i))
       /\ index' = [index EXCEPT ![t] = i]
       /\ took' = [took EXCEPT ![t] = Chosen(t, i)]
       /\ result' = [result EXCEPT ![t] = ResultOf(Chosen(t, i))]
  /\ Becomes(t, "over")
  /\ UNCHANGED <<terminated, ask>>

Call(t, r) ==
  /\ phase[t] = "idle"
  /\ Becomes(t, "called")
  /\ ask' = [ask EXCEPT ![t] = r]
  /\ UNCHANGED <<objects, terminated, line, index, took, result, owed>>

CallTerminated(t, r) ==
  /\ phase[t] = "idle" /\ terminated[t]
  /\ ask' = [ask EXCEPT ![t] = r]
  /\ EndsWith(t, "Terminating")
  /\ UNCHANGED <<line, owed>>

\* The signal of a signal-and-wait; the wait is owed.
SignalFirst(t, o) ==
  /\ phase[t] = "called" /\ ask[t].signal = o
  /\ Free
  /\ \/ /\ o \in Counted
        /\ \E v \in 1..Limits[o] : signal' = [signal EXCEPT ![o] = v]
        /\ UNCHANGED <<owner, recursion, abandoned>>
     \/ o \in Mutants /\ Drop(t, o)
  /\ owed' = t
  /\ UNCHANGED <<terminated, waits>>

\* It may not: the count is at its limit, or the mutant is not the thread's.
SignalRefused(t, o) ==
  /\ phase[t] = "called" /\ ask[t].signal = o
  /\ Free
  /\ \/ o \in Counted /\ signal[o] = Limits[o]
     \/ o \in Mutants /\ owner[o] # t
  /\ EndsWith(t, "Failed")
  /\ UNCHANGED <<ask, line, owed>>

\* A wait starts in the step that follows its signal, if it has one.
Starts(t) ==
  /\ phase[t] = "called" /\ Settled
  /\ owed = IF ask[t].signal = None THEN None ELSE t
  /\ owed' = None

TakeAtOnce(t) == Starts(t) /\ Takes(t) /\ UNCHANGED line

Refused(t, why) ==
  /\ Starts(t) /\ ~Satisfiable(t)
  /\ \/ why \in {"Alerted", "UserApc"} /\ ask[t].alertable
     \/ why = "Timeout" /\ ask[t].timeout = "zero"
  /\ EndsWith(t, why)
  /\ UNCHANGED <<ask, line>>

StandInLine(t) ==
  /\ Starts(t) /\ ~Satisfiable(t)
  /\ ask[t].timeout # "zero"
  /\ Becomes(t, "waiting")
  /\ line' = [line EXCEPT ![t] = Waiting]
  /\ UNCHANGED <<objects, terminated, ask, index, took, result>>

\* No older wait is passed over.
Take(t) ==
  /\ phase[t] = "waiting"
  /\ \A u \in line[t] : ~BySignal(u)
  /\ Takes(t) /\ LeavesLine(t)
  /\ UNCHANGED owed

GiveUp(t, why) ==
  /\ phase[t] = "waiting" /\ Free
  /\ \/ why = "Terminating" /\ terminated[t]
     \/ why \in {"Alerted", "UserApc"} /\ ask[t].alertable
     \/ why = "Timeout" /\ ask[t].timeout = "finite"
  /\ EndsWith(t, why) /\ LeavesLine(t)
  /\ UNCHANGED <<ask, owed>>

Return(t) ==
  /\ phase[t] = "over"
  /\ Becomes(t, "idle")
  /\ ask' = [ask EXCEPT ![t] = None]
  /\ index' = [index EXCEPT ![t] = 0]
  /\ took' = [took EXCEPT ![t] = {}]
  /\ result' = [result EXCEPT ![t] = "none"]
  /\ UNCHANGED <<objects, terminated, line, owed>>

ObjectStep ==
  \/ \E o \in Counted : Clear(o) \/ \E v \in 0..Limits[o] : \E next \in {None, o} : Signal(o, v, next)
  \/ \E t \in Threads : \E m \in Mutants : Release(t, m) \/ Abandon(t, m)
  \/ \E t \in Threads : Terminate(t)

WaitStep(t) ==
  \/ \E r \in Requests[t] : Call(t, r) \/ CallTerminated(t, r)
  \/ \E o \in Counted \cup Mutants : SignalFirst(t, o) \/ SignalRefused(t, o)
  \/ TakeAtOnce(t) \/ StandInLine(t) \/ Take(t) \/ Return(t)
  \/ \E why \in {"Alerted", "UserApc", "Timeout", "Terminating"} : Refused(t, why) \/ GiveUp(t, why)

Next == ObjectStep \/ \E t \in Threads : WaitStep(t)

Spec == Init /\ [][Next]_vars
=============================================================================
