---------------------------- MODULE MCGuestLocks ----------------------------
(***************************************************************************)
(* Instances of CriticalSection and ReadWriteLock for TLC.  A behaviour is *)
(* about one of the two locks: they share the mutex that makes each of     *)
(* their steps one step, and nothing else.                                 *)
(***************************************************************************)
EXTENDS CriticalSection, ReadWriteLock

CONSTANTS a, b, c, header, writer, reader

VARIABLE lock   \* the lock of this behaviour

vars == <<waitVars, sectionVars, rwVars, lock>>

Init == WaitInit /\ SectionInit /\ RwInit /\ lock \in {"section", "rwlock"}

OfSection == lock = "section" /\ UNCHANGED <<rwVars, lock>>
OfRwLock == lock = "rwlock" /\ UNCHANGED <<sectionVars, lock>>

Next == (SectionNext /\ OfSection) \/ (RwNext /\ OfRwLock)

Spec == Init /\ [][Next]_vars

\* A thread in a call goes on.
GoOn(t) ==
    \/ SectionCall(t) /\ OfSection
    \/ Acquired(t) /\ OfRwLock
    \/ (Wait(t) \/ Wake(t) \/ GiveUp(t) \/ Signal(t)) /\ UNCHANGED <<sectionVars, rwVars, lock>>

\* The title lets go of what it holds, for good at some time.
LetGo(t) ==
    \/ Leave(t) /\ OfSection
    \/ Release(t) /\ OfRwLock
LetGoLast(t) == depth[t] = 1 /\ Leave(t) /\ OfSection

FairSpec ==
    /\ Spec
    /\ \A t \in Threads : WF_vars(GoOn(t)) /\ WF_vars(LetGo(t)) /\ SF_vars(LetGoLast(t))

\* Whoever waits for a lock gets it (the two modules say when).
WaitersEnter == SectionWaitersEnter /\ RwWaitersEnter
=============================================================================
