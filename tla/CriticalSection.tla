--------------------------- MODULE CriticalSection ---------------------------
(***************************************************************************)
(* Rtl*CriticalSection: an X_RTL_CRITICAL_SECTION in guest memory, its     *)
(* LockCount, RecursionCount and OwningThread guarded by one mutex of the  *)
(* process, and its dispatch header used as the event that a leaving owner *)
(* hands the section over with.                                            *)
(***************************************************************************)
EXTENDS LockWaits

CONSTANTS
    Header,    \* the section's event
    MaxDepth   \* how often a thread enters before it leaves

ASSUME SectionAssumption == Header \in Events /\ MaxDepth \in Nat \ {0}

VARIABLES
    lockCount, recursion, owner,
    depth   \* entries that each thread has not left, as its code sees it

sectionVars == <<lockCount, recursion, owner, depth>>

\* rtl_initialize_critical_section
SectionInit ==
    /\ lockCount = -1 /\ recursion = 0 /\ owner = None
    /\ depth = [t \in Threads |-> 0]

Entered(t) == depth' = [depth EXCEPT ![t] = @ + 1]

Own(t) == owner' = t /\ recursion' = 1 /\ Entered(t)

\* Mutant: whoever finds the section owned takes itself for the owner.
ReenterAnyOwned(t) ==
    /\ owner # None
    /\ lockCount' = lockCount + 1
    /\ recursion' = recursion + 1
    /\ Entered(t)
    /\ UNCHANGED <<owner, waitVars>>
\* An owner enters again.
Reenter(t) ==
    /\ owner = t
    /\ lockCount' = lockCount + 1
    /\ recursion' = recursion + 1
    /\ Entered(t)
    /\ UNCHANGED <<owner, waitVars>>

\* RtlEnterCriticalSection, the part under the mutex.
Enter(t) ==
    /\ Calls(t) /\ depth[t] < MaxDepth
    /\ \/ Reenter(t)
       \/ /\ owner # t /\ lockCount = -1
          /\ lockCount' = 0 /\ Own(t)
          /\ UNCHANGED waitVars
       \/ /\ owner # t /\ lockCount # -1
          /\ lockCount' = lockCount + 1
          /\ GoesOn(t, "start", Header, 1)
          /\ UNCHANGED <<recursion, owner, depth, objectVars, terminated, failures>>

\* Mutant: the woken waiter resets LockCount, as an earlier version did.
TakeOverAlone(t) ==
    /\ pc[t] = "granted"
    /\ Own(t) /\ lockCount' = 0
    /\ Returns(t)
    /\ UNCHANGED <<objectVars, terminated, failures>>

\* The wait was granted: the waiter inherits the section and leaves LockCount,
\* which counts it already.
TakeOver(t) ==
    /\ pc[t] = "granted"
    /\ Own(t)
    /\ Returns(t)
    /\ UNCHANGED <<lockCount, objectVars, terminated, failures>>

\* The thread was terminated in its wait: it owns nothing, stays counted, and
\* its code goes on as if it had entered if no safepoint comes first.
Refused(t) ==
    /\ pc[t] = "refused"
    /\ IF t \in RunsOn THEN Entered(t) ELSE UNCHANGED depth
    /\ Returns(t)
    /\ UNCHANGED <<lockCount, recursion, owner, objectVars, terminated, failures>>

\* No event to wait for: the section is taken at once, whoever owns it.
EnterUnsynchronized(t) ==
    /\ pc[t] = "failed"
    /\ lockCount' = lockCount - 1
    /\ Own(t)
    /\ Returns(t)
    /\ UNCHANGED <<objectVars, terminated, failures>>

\* RtlTryEnterCriticalSection; where it returns 0 it changes nothing.
TryEnter(t) ==
    /\ Calls(t) /\ depth[t] < MaxDepth
    /\ \/ Reenter(t)
       \/ /\ owner = None /\ lockCount = -1
          /\ lockCount' = 0 /\ Own(t)
          /\ UNCHANGED waitVars

\* RtlLeaveCriticalSection by a thread that has entered.  It looks at the
\* recursion count and not at the owner.
Leave(t) ==
    /\ Calls(t) /\ depth[t] > 0
    /\ depth' = [depth EXCEPT ![t] = @ - 1]
    /\ \/ recursion = 0 /\ UNCHANGED <<lockCount, recursion, owner, waitVars>>
       \/ /\ recursion > 1
          /\ recursion' = recursion - 1 /\ lockCount' = lockCount - 1
          /\ UNCHANGED <<owner, waitVars>>
       \/ /\ recursion = 1
          /\ recursion' = 0 /\ owner' = None /\ lockCount' = lockCount - 1
          /\ IF lockCount' # -1 THEN GoesOn(t, "signal", Header, 1)
                                ELSE UNCHANGED <<pc, target, amount>>
          /\ UNCHANGED <<objectVars, terminated, failures>>

SectionCall(t) == TakeOver(t) \/ Refused(t) \/ EnterUnsynchronized(t)

SectionNext ==
    \E t \in Threads :
        \/ Enter(t) \/ TryEnter(t) \/ Leave(t) \/ SectionCall(t)
        \/ WaitStep(t) /\ UNCHANGED sectionVars

SectionSpec == WaitInit /\ SectionInit /\ [][SectionNext]_<<waitVars, sectionVars>>

-----------------------------------------------------------------------------
\* The section is exclusive, whatever waits are handed over, given up or left
\* behind: a thread inside is the owner, as often as it has entered.  It is a
\* promise until a wait object cannot be resolved ("an immediate
\* (unsynchronized) acquire").
SectionExclusive ==
    failures = 0 => \A t \in Threads : depth[t] > 0 => owner = t /\ recursion = depth[t]

\* "A thread terminated while it waits to enter takes no ownership", and the
\* section still hands off correctly (rtl_critical_section_export_tests.cpp): a
\* thread inside that is not terminated itself remains the owner.
LivingOwnersRemain ==
    failures = 0 =>
        \A t \in Threads \ terminated : depth[t] > 0 => owner = t

\* A section that is wanted and not owned is on its way to exactly one thread,
\* and no other hand-over is ever under way; LockCount counts the owner's
\* entries and the registered waiters, of which only the terminated leave.
SectionHandOver ==
    failures = 0 =>
        /\ InTransit(Header) = IF owner = None /\ lockCount >= 0 THEN 1 ELSE 0
        /\ terminated = {} =>
             lockCount + 1 = recursion + Cardinality(Registered({Header}))

\* A thread that waits to enter does enter, also when others were terminated
\* in their waits, as long as no owner is terminated inside.
SectionWaitersEnter ==
    \A t \in Threads :
        (pc[t] = "start" /\ target[t] = Header)
            ~> \/ pc[t] = "out"
               \/ failures > 0
               \/ \E x \in terminated : depth[x] > 0

=============================================================================
