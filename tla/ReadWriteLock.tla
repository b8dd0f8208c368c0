---------------------------- MODULE ReadWriteLock ----------------------------
(***************************************************************************)
(* The executive read/write lock: an X_ERWLOCK in guest memory with a      *)
(* count of holders and waiters, a synchronization event for the writers   *)
(* and a semaphore for the readers.  Whoever releases hands the lock over. *)
(***************************************************************************)
EXTENDS LockWaits

CONSTANTS
    WriterEvent, ReaderSemaphore,
    Word    \* how many values a 32-bit field has

ASSUME RwAssumption ==
    /\ WriterEvent \in Events /\ ReaderSemaphore \in Semaphores
    /\ Word \in Nat \ {0} /\ Cardinality(Threads) <= Word

VARIABLES
    rwCount, writersWaiting, readersWaiting, readersEntry,
    holds   \* how each thread holds the lock, as its code sees it

rwVars == <<rwCount, writersWaiting, readersWaiting, readersEntry, holds>>

\* ex_initialize_read_write_lock
RwInit ==
    /\ rwCount = -1
    /\ writersWaiting = 0 /\ readersWaiting = 0 /\ readersEntry = 0
    /\ holds = [t \in Threads |-> "none"]

Holds(t, how) == holds' = [holds EXCEPT ![t] = how]
Less(n) == (n + Word - 1) % Word

\* Readers share the lock while no writer waits for it.
Shareable == readersEntry # 0 /\ writersWaiting = 0

\* ExAcquireReadWriteLockExclusive, the part under the mutex.
AcquireExclusive(t) ==
    /\ Calls(t) /\ holds[t] = "none"
    /\ rwCount' = rwCount + 1
    /\ \/ /\ rwCount' = 0
          /\ Holds(t, "write")
          /\ UNCHANGED <<writersWaiting, waitVars>>
       \/ /\ rwCount' # 0
          /\ writersWaiting' = writersWaiting + 1
          /\ GoesOn(t, "start", WriterEvent, 1)
          /\ UNCHANGED <<holds, objectVars, terminated, failures>>
    /\ UNCHANGED <<readersWaiting, readersEntry>>

\* ExAcquireReadWriteLockShared, the part under the mutex.
AcquireShared(t) ==
    /\ Calls(t) /\ holds[t] = "none"
    /\ rwCount' = rwCount + 1
    /\ \/ /\ rwCount' = 0 \/ Shareable
          /\ readersEntry' = readersEntry + 1
          /\ Holds(t, "read")
          /\ UNCHANGED <<readersWaiting, waitVars>>
       \/ /\ rwCount' # 0 /\ ~Shareable
          /\ readersWaiting' = readersWaiting + 1
          /\ GoesOn(t, "start", ReaderSemaphore, 1)
          /\ UNCHANGED <<readersEntry, holds, objectVars, terminated, failures>>
    /\ UNCHANGED writersWaiting

\* The wait is over: its result is not looked at, so a thread that was
\* terminated in it, or found no object to wait for, goes on as a holder.
Acquired(t) ==
    /\ pc[t] \in {"granted", "refused", "failed"}
    /\ IF pc[t] = "refused" /\ t \notin RunsOn
         THEN UNCHANGED holds
         ELSE Holds(t, IF target[t] = WriterEvent THEN "write" ELSE "read")
    /\ Returns(t)
    /\ UNCHANGED <<rwCount, writersWaiting, readersWaiting, readersEntry,
                   objectVars, terminated, failures>>

\* ExTryToAcquireReadWriteLockExclusive, where it succeeds.
TryExclusive(t) ==
    /\ Calls(t) /\ holds[t] = "none"
    /\ rwCount < 0
    /\ rwCount' = 0
    /\ Holds(t, "write")
    /\ UNCHANGED <<writersWaiting, readersWaiting, readersEntry, waitVars>>

\* ExTryToAcquireReadWriteLockShared, where it succeeds.
TryShared(t) ==
    /\ Calls(t) /\ holds[t] = "none"
    /\ rwCount < 0 \/ Shareable
    /\ rwCount' = rwCount + 1
    /\ readersEntry' = readersEntry + 1
    /\ Holds(t, "read")
    /\ UNCHANGED <<writersWaiting, readersWaiting, waitVars>>

\* The lock goes to the next waiting writer.
WakeWriter(t) ==
    /\ writersWaiting' = Less(writersWaiting)
    /\ GoesOn(t, "signal", WriterEvent, 1)
    /\ UNCHANGED readersWaiting

\* The lock goes to all waiting readers at once.
WakeReaders(t) ==
    /\ readersWaiting' = 0 /\ readersEntry' = readersWaiting
    /\ GoesOn(t, "signal", ReaderSemaphore, readersWaiting)
    /\ UNCHANGED writersWaiting

\* Mutant: a release with no reader inside always takes a reader away, as the
\* reference implementations do when only writers wait.
ReleaseOfReaders(t) ==
    \/ readersEntry = 0 /\ readersWaiting # 0 /\ WakeReaders(t)
    \/ /\ readersEntry = 0 /\ readersWaiting = 0
       /\ readersEntry' = Less(readersEntry)
       /\ UNCHANGED <<writersWaiting, readersWaiting, pc, target, amount>>
    \/ /\ readersEntry > 0
       /\ readersEntry' = readersEntry - 1
       /\ IF readersEntry' = 0 THEN WakeWriter(t)
          ELSE UNCHANGED <<writersWaiting, readersWaiting, pc, target, amount>>

\* A release of a lock that others want: a writer hands it to the readers that
\* wait or else to a writer, the last reader to a writer.
HandOver(t) ==
    \/ readersEntry = 0 /\ readersWaiting # 0 /\ WakeReaders(t)
    \/ /\ readersEntry = 0 /\ readersWaiting = 0
       /\ WakeWriter(t) /\ UNCHANGED readersEntry
    \/ /\ readersEntry > 0
       /\ readersEntry' = readersEntry - 1
       /\ IF readersEntry' = 0 THEN WakeWriter(t)
          ELSE UNCHANGED <<writersWaiting, readersWaiting, pc, target, amount>>

\* ExReleaseReadWriteLock by a thread that has acquired the lock.
Release(t) ==
    /\ Calls(t) /\ holds[t] # "none"
    /\ rwCount' = rwCount - 1
    /\ IF rwCount' < 0
         THEN /\ readersEntry' = 0
              /\ UNCHANGED <<writersWaiting, readersWaiting, pc, target, amount>>
         ELSE HandOver(t)
    /\ Holds(t, "none")
    /\ UNCHANGED <<objectVars, terminated, failures>>

RwNext ==
    \E t \in Threads :
        \/ AcquireExclusive(t) \/ AcquireShared(t) \/ Acquired(t)
        \/ TryExclusive(t) \/ TryShared(t) \/ Release(t)
        \/ WaitStep(t) /\ UNCHANGED rwVars

RwSpec == WaitInit /\ RwInit /\ [][RwNext]_<<waitVars, rwVars>>

-----------------------------------------------------------------------------
Readers == {t \in Threads : holds[t] = "read"}
Writers == {t \in Threads : holds[t] = "write"}

\* A writer holds the lock alone, across every hand-over, also of waiters that
\* were terminated and whose signals stayed behind or went to somebody else:
\* readers_entry counts the readers inside and on their way in, a writer is
\* inside or on its way in exactly while there are none and the lock is wanted,
\* and lock_count counts holders and waiters.
RwHandOver ==
    failures = 0 =>
        /\ Writers # {} => Cardinality(Writers) = 1 /\ Readers = {}
        /\ readersEntry = Cardinality(Readers) + InTransit(ReaderSemaphore)
        /\ Cardinality(Writers) + InTransit(WriterEvent)
             = IF rwCount >= 0 /\ readersEntry = 0 THEN 1 ELSE 0
        /\ terminated = {} =>
             rwCount + 1 = Cardinality(Readers \cup Writers)
                             + Cardinality(Registered({WriterEvent, ReaderSemaphore}))

\* A reader or writer that waits comes to hold the lock, whatever the mix of
\* readers and writers that keep coming, as long as nobody is terminated.
RwWaitersEnter ==
    \A t \in Threads :
        (pc[t] = "start" /\ target[t] \in {WriterEvent, ReaderSemaphore})
            ~> (pc[t] = "out" \/ failures > 0 \/ terminated # {})

=============================================================================
