# Verification of the Xenon Recomp runtime

TLA+ models of the concurrent core of Xenon Recomp's runtime (the guest kernel's
waits, timers, threads, locks and files, and guest memory with its reservations,
page table and GPU mirror), the TLC runs that check them and the TLAPS proofs about them.

## 1. The system

Xenon Recomp translates the PowerPC code of an Xbox 360 title ahead of time to
C++ and runs the result on a shared runtime. Every guest thread is a host
thread; guest code calls kernel exports, which work on objects shared by all of
them, and loads and stores guest memory without a lock. What makes the runtime
hard is there: a title's threads, the timer dispatch thread, I/O workers, the GPU
thread and the audio callbacks meet in the kernel's objects and in memory, and a
signal lost, a page reused too early or a store overwritten is a hang or a
corruption that no unit test reproduces.

### Inventory

| Component | State | Operations | Interacts with | Hard behaviour | What makes it correct |
|---|---|---|---|---|---|
| Dispatcher (`kernel/synchronization/wait.cpp`) | one dispatcher mutex; per object a list of `MultiWaitBlock`s; per wait `granted`, `index`, `abandoned`, `wakeups` | wait for any/all, signal-and-wait, delay, `satisfy_waiters_locked`, `notify_always` | every waitable object, threads, exports | grant racing timeout/alert/APC/termination; wakeup between test and sleep | no missed signal, oldest first, result = what was consumed, no lost wakeup |
| Events, semaphores (`event.cpp`, `semaphore.cpp`) | `signaled_` / `count_`, and a `SignalState` word in guest memory | set, pulse, reset, release, reconcile | dispatcher; guest code stores to the word directly | the guest's stores race the kernel's | count in range, word current |
| Mutants (`mutant.cpp`) | owner, recursion, abandoned, per-thread list of held mutants | acquire (by waiting), release, abandon at exit | dispatcher, thread rundown | exit while held with waiters queued | owned exactly while held, never by a thread that is gone |
| Timers, `TimerManager` | `active_`, `signaled_`, due time, period; `pending_` | set, cancel, fire; schedule, unschedule, dispatch loop | dispatcher; APCs of the setting thread | re-arm and cancel racing the dispatch thread | fires once per arming, not before its due time, and does fire |
| Threads (`threading/thread.cpp`) | state, suspend count, termination, alert and APC flags, exit code, completion future; `threads_`; shared ownership | start, suspend, resume, terminate, alert, queue APC, join, destroy, reap | dispatcher, session, handles | terminate/suspend/exit races; the last reference dropped while the thread runs | exit code final; requests honoured at the next safepoint; the object outlives its thread |
| Guest locks (`xbox/exports`: `Rtl*CriticalSection`, `Ex*ReadWriteLock`) | in guest memory: `LockCount`, `RecursionCount`, `OwningThread`; `lock_count`, `writers_waiting`, `readers_waiting`, `readers_entry`; an event or semaphore in the lock's words | initialize, enter, try, leave; acquire, try, release | dispatcher waits; one mutex of the process, never held across a wait | the leaver hands over after it let go of the mutex; a waiter is terminated; the wait object cannot be resolved | exclusive; one hand-over at a time, never none; waiters get in |
| Completion ports (`completion_port.cpp`) | packet queue, a `ready_` event | post, remove; `NtSetIoCompletion`, `NtRemoveIoCompletion` with a timeout | file objects, dispatcher waits | several removers for one event | a remover does not sleep beside a packet |
| Handle table, objects (`handle_table.cpp`, `object.cpp`) | entries, `handle_count_` | insert, duplicate, lookup, close | every export | the entry and the count change in two steps; close racing use | an object is closed by its last handle, and only then |
| File I/O (`handles/io_manager`, `file_object.cpp`, `io_request.cpp`) | share records and delete marks per path, leases, `closed_`, requests under way, `open_mutex_` | open, transfer, begin, complete and cancel a request, set the disposition, rename, last close | handle table, completion ports, host device | open, rename and last close of one path; the last close against a call that has the object | opens compatible; deletions carried out once everybody has closed; requests settled |
| Kernel heap and pool | free lists over guest memory | allocate, free, resize | guest memory | boundaries, coalescing | blocks disjoint, nothing lost |
| Reservations (`memory_port.hpp`, `memory/guest/reservations`, `physical_writes.cpp`) | slots of live reservations, sticky granule bitmap, a ticket gate, a window gate, two counters of operations under way, the write epoch | `lwarx`, `stwcx.`, cancel, plain store, physical write window | CPU code, GPU readback | every party waits for the others' counters and gates, nothing is locked | a conditional store succeeds only if nobody wrote since the load; counters balance; every call returns |
| Guest pages (`memory/guest/virtual`, `physical`, `page_table`, `backing`) | page table, physical pages in use, reverse mappings, leases, hot entries, host aperture, retired pages | reserve, commit, decommit, release, protect, allocate and map physical pages, reclaim | every access, kernel memory exports | accesses read hot entries and the aperture without the lock; a commit fails half way; XEX pages alias | a freed page is not touched through an old translation; the tables agree |
| Coherency and GPU mirror (`coherency.hpp`, `gpu_coherency.hpp`, `guest_memory_mirror.cpp`) | write epoch, page epochs, journal ring, dirty-page bits; dirty and valid ranges | publish a store, ingest, upload, GPU write, readback | stores, GPU thread, physical write window | stores race each step of an upload or readback, which may fail | neither side keeps stale bytes that it calls current |
| Session (`core/session`) | lifecycle state, `execution_active_`, `stop_requested_`, pumps, the title's module | load, start, stop, shutdown; the dispatch loop | everything above | stopping and unloading against threads that run, exit, are reaped or created | stop and shutdown return; code is unloaded when nobody runs it |
| CPU, recompilation, graphics, audio, input, filesystem, network, XAM, XEX, logging, launcher and tools | see `PROJECT.json` | | | sequential transformations, host APIs and I/O | outside the models |

## 2. Modules

| Module | Models |
|---|---|
| `Dispatcher` | waits, signals, mutants, alerts, APCs, termination: the dispatcher protocol |
| `AtomicWait` | the abstract specification of waiting, which `Dispatcher` implements |
| `MCDispatcher` | the finite instances of `Dispatcher`, one set of wait requests per question |
| `DispatcherProofs` | the TLAPS proofs about `Dispatcher` |
| `TimerDispatch` | armed timers: `NtSetTimerEx` and `NtCancelTimer` against `TimerManager`'s dispatch thread |
| `MCTimerDispatch` | its finite instances |
| `TimerProofs` | the TLAPS proofs about `TimerDispatch` |
| `ThreadLifecycle`, `MCThreadLifecycle` | `KernelThread`, `ThreadManager`, the dispatch loop's safepoints, `stop()` and `shutdown()` |
| `LinkedCells` | the abstract specification of load-reserve and store-conditional |
| `Reservations`, `MCReservations` | the reservation monitor and the physical write window, which implement `LinkedCells` |
| `GuestPages`, `MCGuestPages` | the page table, physical pages, hot translations and deferred reclaim |
| `GpuMirror`, `MCGpuMirror` | write publication, the ownership tracker and the GPU mirror |
| `LockWaits` | the waits and signals inside the guest's locks |
| `CriticalSection`, `ReadWriteLock` | the two kinds of lock, on top of `LockWaits` |
| `MCGuestLocks` | the instance of both |
| `ShareState` | the paths that are open, how, and marked for deletion; the host device below |
| `FileObjects`, `MCFileObjects` | handles, file objects, requests and the completion port, on top of `ShareState` |
| `ReservationProofs`, `LockProofs`, `FileProofs`, `ThreadProofs`, `PageProofs`, `MirrorProofs` | the TLAPS proofs about `Reservations`, the locks, `FileObjects`, `ThreadLifecycle`, `GuestPages` and `GpuMirror` |

`Dispatcher` and `TimerDispatch` meet at the timer: `Dispatcher` has what setting, cancelling and
firing a timer does to the waits on it (`signaled_`, `active_`, the walk of the
list); `TimerDispatch` has when it fires (`due_time_`, `period_`, `pending_`)
and leaves the waits out. `ThreadLifecycle` has the threads' ends that
`Dispatcher` sees as flags. `LockWaits` takes from `Dispatcher` what its runs and
proofs show of a wait for one object: a signal goes to the oldest wait or stays
(`NoMissedSignal`, `ImplementsAtomicWait`), a granted wait returns and says so
(`SatisfiedWaitReturns`, `ResultMatchesTakes`), a terminated one gives up
(`GivenUpWaitReturns`). In memory, `Reservations` has the window that a
readback of `GpuMirror` opens in one step, and `GuestPages` the translations that
both take for granted.

### `Dispatcher` and the code

Variables are the fields of the classes (named in the comments beside them).
`signal` stands for `signaled_` of events and timers and `count_` of semaphores;
`granted`, `index`, `takeover` are a wait block's fields; `woken` is
`block.wakeups != observed`; `ahead` represents the wait lists: since a wait
registers on all its objects in one critical section, every list is ordered by
registration, and the list of an object is the waits that name it in that order.

Atomicity. The dispatcher mutex makes a critical section one step, except that
`satisfy_waiters_locked()` is spread over several (the change, one `Visit` per
block, `EndScan`) with the lock held in between (`scan`), so that what is *not*
under the lock (the flags of a thread, `notify_always`'s callers, the guest's
stores to `SignalState`) interleaves with the walk. Flags are set in one step
and their `notify_always()` is a later one (`notify`).

| Action | Code |
|---|---|
| `BeginWait`, `EnterSignal`, `EnterSignalFails`, `EnterWait` | `wait_for_objects_after()` to the registration, with the signal half of a signal-and-wait in the same critical section |
| `Observe`, `PollTerminated`, `Retry`, `TestAlerts`, `Wake`, `Leave`, `Return` | the wait loop, the unregistration and the return to the export |
| `BeginDelay`, `DelayTest`, `DelayEnd` | `delay_current_thread()` |
| `SetEvent`, `PulseEvent`, `ResetEvent`, `ReleaseSemaphore`, `ReleaseMutant`, `SetTimer`, `CancelTimer`, `FireTimer` | the objects' operations |
| `Visit`, `EndScan` | `satisfy_waiters_locked()`, the clear of a pulse, the store of the mirror |
| `GuestStore`, `Reconcile` | a store of the guest to `SignalState`, `reconcile_with_guest_state()` |
| `Terminate`, `Alert`, `QueueUserApc`, `RemoveUserApc`, `TestAlert`, `NotifyAlways` | `KernelThread`'s flags and their notification |
| `Exit`, `AbandonMutant`, `Finish` | the rundown of `thread_main()` |

Abstractions: time is `Expire`, which may pass a deadline at any moment; the two
flag reads of `alert_or_apc()` are one step; an APC is its pending flag; waits by
host threads that have no `KernelThread`, which differ only in that nothing
interrupts them, are not instantiated; a wait for a single thread object goes
through `join()` and belongs to the thread lifecycle.

### `AtomicWait`

What a title's threads may rely on, without lock, blocks, walks, wakeups or
polling: a wait takes what satisfies it in one step, in which it is over and its
result known (`TakeAtOnce`, `Take`); a signal is followed by the takes of all the
waits it satisfies, oldest first, before anything else happens to an object
(`Settled`); a wait is refused or given up only when no signal satisfies it
(`Refused`, `GiveUp`); the second half of a pulse and of a signal-and-wait comes
before any other operation (`owed`). `ImplementsAtomicWait` maps

| `AtomicWait` | `Dispatcher` |
|---|---|
| `phase` | `Phase`: "called" up to the registration, "waiting" while registered and not granted, "over" from the grant (or the decision to report something else at the unregistration) to the return, else "idle" |
| `line` | `Line`: the waits ahead that are not granted |
| `result` | `Result`: from the grant on, what the block will make the wait report; otherwise the outcome |
| `owed` | `Owed`: the event being pulsed, or the thread between the signal and the wait of its signal-and-wait |

and the objects' states, `ask`, `index` and `took` to themselves. A grant, a
successful `Retry` and a `Leave` without a grant are the steps in which a wait ends;
observing, testing, sleeping, waking and the end of a walk stutter. So a thread
that has decided to time out and is granted before it unregisters has, in the
abstraction, simply taken its object. The end of a thread is weaker than a signal,
as in the code, where it is read and not signalled: a wait may take it at any
moment, and a wait that names an ended thread may still be given up or be passed
by a younger one (section 5).

### `TimerDispatch` and the code

| Action | Code |
|---|---|
| `SetTimer`, `Schedule`, `Notify` | `NtSetTimerEx`: `KernelTimer::set()` under the dispatcher lock, `schedule()` under `TimerManager::mutex_`, then `notify_all()` |
| `CancelTimer`, `Unschedule`, `Notify` | `NtCancelTimer`, the same way |
| `Loop`, `WakeEmpty`, `ScanOne`, `EndOfScan`, `WakeEarly`, `WakeDue`, `Check`, `Fire`, `Callback`, `Erase`, `EndOfCheck` | `dispatch_loop()` and `fire()`, one step per critical section of the dispatcher lock |
| `Shutdown` | `~TimerManager()`; the join is the second half of `DispatchServes` |
| `Tick` | the steady clock |

The dispatch thread holds `mutex_` whenever it is awake (`MutexFree`); the
dispatcher lock is free between its steps, so an export changes a timer while
the loop looks at it. `wait_until()` may return early for no reason, and reports
a timeout exactly when the clock has reached the deadline. `pending_` is a set:
its order decides only which of two due timers fires first. A due time that the
export converts to 0 milliseconds is the delay 0. `owed`, `fires`, `arming` and
`quiet` are history. The callback's effect, an APC, is `QueueUserApc` of
`Dispatcher`.

### `ThreadLifecycle` and the code

A `KernelThread` lives as long as somebody holds a reference: `threads_`
(`tracked`), a guest handle (`handles`), its host thread's `current_thread_`
(`self`), a call in flight (`call[a].who`, `call[a].bag`). `HeldElsewhere` is the
reference count; who drops the last one runs the destructor in place.

| Action | Code |
|---|---|
| `Pass`, `Sleep` | `wait_while_suspended()`, at the entry, a block boundary or a compiled loop's safepoint |
| `Enter`, `Lookup`, `Complete`, `Signal`, `Exit` | `thread_main()`, the head of its entry, and the end of the host thread |
| `BlockEnd`, `Recheck`, `NextBlock`, `Return`, `Fault`, `Poll`, `Polled`, `Leave` | `dispatch_guest_thread()`, `enter_safepoint()` and what follows the loop |
| `Wedge` | the title's code gets into a loop without a safepoint |
| `CreateCall`, `Make`, `Insert`, `Start` | `ExCreateThread`, with the failures of the handle and of the host thread |
| `Close`, `Suspend`, `Resume`, `TerminateSelf`, `JoinCall`, `Join` | the exports on threads |
| `Reap`, `Drop`, `Destroy`, `Dropped` | `reap_finished_threads()`, a reference given up, `~KernelThread()` |
| `StopIdle`, `StopJoined`, `StopActive`, `Shutdown`, `Swept`, `Take`, `JoinCopied`, `DropCopied`, `Unload` | `stop()`, `shutdown()` to the unloading, `ThreadManager::shutdown()` |

A thread whose lookup in `threads_` fails (it was terminated and reaped between
`thread_main()`'s test and the lookup) runs with a null `KernelThread`
(`self = "missing"`): no safepoint stops it. Time enters only in the bounded
joins, which expire on a thread that is `Stuck`: looping without a safepoint,
without a `KernelThread`, or itself inside a join. `terminate()` of a list of
threads is one step, as none of them looks at another. `late` and `copied` are
history.

### `Reservations`, `LinkedCells` and the code

Each atomic access of the protocol is a step: `Reserve*` is `reserve32/64` and
`lwarx`, `Commit*` `store_conditional32/64` and `stwcx.`, `Write*`
`enter_write()` to `finish_write()`, `Window*` `physical_write_window()` to its
release, `Drain*` the two spin loops. The ticket gate is the queue of its ticket
holders; the write epoch is whether it has moved since a thread read it;
generations are as many as can be live at once. The paths under the lock
(`AddressSpace::reserve32` ...) repeat the same protocol and are mapped to the
same actions.

`LinkedCells` is what the instructions promise: a thread is linked to a granule,
an exclusive store (a successful conditional store, a window write) unlinks
everybody, and a conditional store succeeds only when linked. `ImplementsCells`
maps a link to a slot that is active, or being committed, in the thread's name.
A plain store may, in the abstraction, fail to unlink the reservations that are
being set up: that is the finding `lost_store`, kept out of the promise so that
the rest of it can be shown to hold.

Memory is sequentially consistent in all three memory models. The code's orders
are acquire and release; where a party writes one variable and then reads another
(the reclaim flag against the reader count, a gate against a counter) the write is a
read-modify-write, which on x86 is a full fence. There is one exception, which the
models therefore do not cover: the publication of hot entries before a remapping
(section 5).

### `GuestPages` and the code

`mutex_` serialises the management operations, so there is one manager, whose
steps are what a lock-free access can see: `PublishEntry` (one hot entry),
`Remap` (the host mapping of one aperture page), `PublishView`, `Drain`,
`GiveUp`, `TakeRetired` (the grace period of `reclaim_retired_physical_pages()`),
between the table changes of `Reserve`, `Commit*`, `Rollback`, `Decommit`,
`Release`, `Protect`, `AllocatePhysical`, `FreePhysical`, `ProtectPhysical`,
`MapVirtual`. `AccessBegin`, `AccessTest`, `AccessLoad`, `AccessTouch`,
`AccessSlow` are `resolve_fast()` and the access through what it returned.
Protections are access or none; the physical views A, C and E are one.
Native-access contexts have no reader guard by design (`address_space.hpp`
129-142) and are left out, as are contents, MMIO, guard pages and `reset()` of a
live space.

### `GpuMirror` and the code

`Store*` and `Conditional*` are a strict store from `enter_write()` to its
journal entry. `Native*` is a store through the native view: the bytes, then the bit
of its page (`NativeMark`), then, only by the thread that made the word nonzero, the
summary bit of the word (`NativeSummary`). `Collect`, `Boundary*`, `Ingest*`,
`Journal*`, `Apply` are `ingest_cpu_writes_unlocked()` with `current_epoch()`'s retry
and the journal's double reading; the collection sees the pages of the words in
the summary (`Marked`). `PlanUpload` ... `Uploaded` is `synchronize_range()`, `GpuWrite`
`mark_gpu_write()`, `PlanReadback` ... `Downloaded` `make_cpu_visible()`, each
with the failures it handles. Bytes are kept by age: `fresh[c]` is the set of
places that hold the newest value of `c`. `newest[c]` is the epoch of the last
store to `c`, or `None` while only its page's dirty bit tells of it; with `raced`
(stores during the operation under way) and `exposed` these are history variables,
which only the properties read.

The code leaves seven gaps, through which a store or GPU output is missed or
overwritten. The section Gaps of the module defines each as the set of cells that a
step reaches through it, and the step adds them to `exposed`:

| Gap | Step | What the code does not order |
|---|---|---|
| `LatePage` | `StorePage` | a page's epoch goes back below a limit that a newer store to the page is above |
| `LappedSlot` | `StoreRange` | two stores publish into one journal slot |
| `LappedRead` | `JournalRange` | an entry is read while a store that laps it has put its range there |
| `Uncounted` | `BoundaryCheck` | a conditional store of `MemoryAccessContext` is below the boundary and not published |
| `Neighbours` | `IngestPages` | a whole page is taken from the GPU for a store to another part of it |
| `Overwritten` | `WindowWrite` | a native store comes after the collection, and no window stops it |
| `Unannounced` | `Collect` | a marked page is in a word whose summary bit is still to be set |

A cell stays exposed, and the properties say nothing more of it. The collection's
epoch and its page epochs are one step; a strict store that falls between them in
the code does what a late page epoch does.

### `CriticalSection`, `ReadWriteLock` and the code

What an export does under `critical_section_mutex()` is one step; the wait or
signal after it is a step of `LockWaits` (`pc`, `target`, `amount` say which).

| Action | Code |
|---|---|
| `Enter`, `Reenter`, `TakeOver`, `Refused`, `EnterUnsynchronized` | `RtlEnterCriticalSection`: the part under the mutex, and what follows a wait that was granted, ended by termination, or had no object |
| `TryEnter`, `Leave` | `RtlTryEnterCriticalSection`, `RtlLeaveCriticalSection` |
| `AcquireExclusive`, `AcquireShared`, `Acquired` | `ExAcquireReadWriteLock*`; the result of the wait is not looked at |
| `TryExclusive`, `TryShared`, `Release` (`HandOver`, `WakeReaders`, `WakeWriter`) | `ExTryToAcquireReadWriteLock*`, `ExReleaseReadWriteLock` |
| `Wait`, `Wake`, `GiveUp`, `Signal`, `Unresolved`, `Terminate` | the wait and the signal, the failure to resolve the lock's words to an object, `terminate()` |

`depth` and `holds` are what the title's code believes it has entered; it leaves
only that. A terminated thread makes no more calls (the next safepoint ends it),
except the threads of `RunsOn`, whose straight-line code reaches one more export
first. A behaviour is about one lock: the two share nothing but the mutex. `Word`
stands for 2^32, where the counters wrap.

### `ShareState`, `FileObjects` and the code

An operator of `ShareState` is one critical section of `OpenShareState::mutex`, or
one call of the device; `FileObjects` has the calls of guest threads, a step for
each critical section or atomic access on their way (`call[t].at` says where).

| Action | Code |
|---|---|
| `Open`, `OpenReserve`, `OpenDevice`, `OpenInsert` | `KernelIoManager::open()` under `open_mutex_`: what `stat()` saw, the lease, the device, the handle and the mark of a delete-on-close |
| `Duplicate`, `Close`, `ReleaseHandle` | `HandleTable::duplicate()`, `close()`, `release_handle()` |
| `TakeRequests`, `CancelTaken`, `ResetFile`, `Unlease`, `RemoveFile` | `on_last_handle_closed()`, the release of the lease and the removal after it |
| `Dispose`, `Mark`, `Rename`, `Move`, `Associate` | `NtSetInformationFile` |
| `Transfer`, `BeginRequest`, `Finish`, `Post`, `Report`, `Store` | a read, write, resize or flush: its request, `finish_synchronous()`, the packet, the event, the stores to guest memory |
| `BeginAsync`, `WaitRequest`, `Decide`, `CompleteRequest`, `CancelRequest`, `Revoke` | `begin_request()` and those who settle what it returned |
| `SetIoCompletion`, `RemoveIoCompletion`, `TryRemove`, `WakeRemover`, `TimeOut` | the exports of a completion port |

`host` is the registry of the device, whose entries keep the name a file was
opened with; `doomed` is history. A handle is not known to others before
`open()` returns, so its mark is set in the step that inserts it. `open_mutex_`
is held to the end of a failed open, the removal by its lease included. The wait
of `NtRemoveIoCompletion` is the dispatcher's, for the manual-reset event
`ready_`. There is one port, which is not closed; devices are writable; the table
is not full. `Rename` leaves out two cases, neither of which moves a lease: a rename
onto the object's own path, and one that fails after the destination was removed
(`host_path_device.cpp` 507-510; section 5).

## 3. Runs

| Run | Asks | Instance | Distinct states |
|---|---|---|---|
| `signals` | no wait left satisfiable; counts in range; `SignalState` current | 2 threads, an event and a semaphore that live in guest memory; waits for one, both or either; guest stores in and out of range | 2.6 M |
| `interrupts` | what a wait reports is what was consumed for it; mutant ownership exact | a waiter that may time out, be alerted, get an APC, be terminated or exit, and a competitor, for a mutant and a timer | 3.4 M |
| `wakeups` | no lost wakeup (liveness); refinement of `AtomicWait` | a waiter against grants, alerts, termination, another thread's end and its deadline, and a signal-and-wait on the same event by the other thread | 88 k |
| `timers` | armed timers are pending; no sleep past a due time; no callback after a cancellation; armed timers fire; shutdown ends | 2 timers, a thread for each, one-shot or periodic; a timer may be set again | 311 k |
| `threads` | stop requests within a block; objects outlive their threads; exit codes final; terminated threads end, resumed ones run; `shutdown()` returns unless the main thread is held for ever | a main thread and one it creates, each of which may wait for the other and loop without a safepoint; suspend count to 1 | 315 k |
| `reservations` | no lost store; counters balance; commits exclusive; refinement of `LinkedCells` | 2 threads, 2 words of one granule, 2 slots | 470 k |
| `reservation_progress` | the window is exclusive and opens; conditional stores return unless stores that pass the gate starve them | 2 threads and a device, 2 granules of which one is never reserved, 1 slot | 404 k |
| `mirror` | boundaries complete; RAM and mirror current; requests deliver; all but for exposed cells | 2 writers, both strict, both native or one of each, both kinds of conditional store, 2 cells on one page, one written by the GPU, a journal of 1 slot | 3.8 M |
| `pages` | ownership consistent; no access to a recycled page; translations published; direct pages exact | 2 virtual pages (one in the aperture), 2 aliased XEX pages, 2 physical pages, one accessing thread | 2.3 M |
| `locks` | sections exclusive, one hand-over at a time; writers alone, counters exact; whoever waits gets the lock | 3 threads, one of which may be terminated anywhere, one resolution that fails, sections entered twice | 37 k |
| `files` | handles name open files; opens compatible; deletions not forgotten; closes settle requests; removers wake | 2 objects, 2 paths; a reader, a writer and a directory deleted on close; two threads at the names, or three at a file's requests, or three at a port | 261 k |
| `lost_store` | the finding of section 5 | the smallest instance that shows it | |

Bounds. Two threads suffice for an older waiter and a later one, a reservation
and the store that breaks it, a reference holder and the thread it is about; one
object of each kind a run is about, and a second one where waits for all of
several matter. In `Dispatcher`, `Requests` names the waits of a run,
`MaxRecursion` how deep a mutant is acquired, and `Terminates`, `Alerts`, `Apcs`,
`Delays`, `Exits` the threads these happen to. In `TimerDispatch`, `MaxTime` ends
the clock and `Armings` bounds how often each timer is set: in `timers` twice in
all, so that one timer is re-armed between the check, `fire()` and the erasure, or
both are armed. In `ThreadLifecycle`, `MaxSuspend` bounds the count, `Does` names the
calls of each thread and `Wedges` those that may loop without a safepoint: both
threads, and both may wait for a thread. In `Reservations`, `Reserves` and `Stores`
name the words each thread reserves and stores to: in `reservation_progress` both
reserve, and one also stores, to the reserved granule and to one that nobody
reserves. The slots are as many as reservations can be live (the code has 6; a seventh holder's load-reserve fails to claim one and its
conditional store fails, which one slot for two threads shows). In `GpuMirror`, no
store and no GPU write begins once `MaxEpoch` epochs are taken. It is
1: all of them may have begun before the first epoch, and a collection and a
readback add epochs of their own, so behaviours reach four; the one journal slot is
lapped by each of them. All seven gaps occur in the instance:
with any one of them left out of `exposed` the run fails. In `GuestPages`, `Ranges`
and `Runs` name the arguments of callers, and `Asks` the protections. In the locks, `MaxDepth` bounds the entries,
`MaxFailures` the failed resolutions, and three threads are a holder, a waiter
and one that comes between; `Word` = 16 only has to be more than the counters
reach. In `FileObjects`, `Opens` are the arguments of opens, `Scenarios` the calls
of each thread (a behaviour is about names, requests or packets), `MaxHandles`
and `MaxPackets` bound the handles of an object and the queue; a second object is
what sharing, renaming and the stickiness of a mark need. Nothing else is cut:
no run has a state constraint.
Deadlock is checked except where the system comes to its end: the timer runs
(clock and dispatch thread are done), the thread runs (the session has ended)
`locks` (a thread terminated inside a lock leaves the others blocked in it) and
`files` (waits that nobody ends). Threads that are alike are symmetric in the safety runs; the liveness
runs use no symmetry.

Fairness. `wakeups`: weak fairness of the steps a host thread takes by itself,
because the host schedules every runnable thread; strong fairness of the steps
that begin by taking the dispatcher mutex, because others may take it again and
again and all that is assumed is that the host's mutex lets every contender in
eventually; deadlines pass. `timers`: weak fairness of the dispatch thread while
awake, and of its waking when it has been notified or its deadline has passed;
the clock advances; strong fairness of `schedule()` and `unschedule()` getting
`mutex_`. `threads`: weak fairness of each host thread outside guest code, of
its calls, of a set flag being polled (compiled loops poll at every back-edge),
and of the session's calls; guest blocks need not end, and a loop without a
safepoint (`Wedge`) may be left or not. `ShutdownReturns` therefore excepts a main
thread that is held for ever (`MainHeld`), and that is the only exception. `reservation_progress`:
weak fairness of each thread inside a call and of the device, and strong
fairness of closing the window, which is a scope of the code and is closed
whatever happens. Plain stores to granules that were never reserved do not wait for
a commit, so an endless stream of them can starve its drain. The run has such a
granule, and `CommitReturns` says that this is the only reason for which a
conditional store with a ticket does not return; without the exception TLC refutes
it there. `locks`: weak
fairness of a thread inside a call; and, the one assumption about titles, weak
fairness of letting go and strong fairness of the last leave, which say that a
thread that holds a lock does not keep it forever and does not re-enter a section
forever. `files`: weak fairness of a thread inside a call. There is no other
fairness of guest code: nothing is signalled, set,
waited for, stored or ended because the model says so.

## 4. Proofs

`DispatcherProofs` proves for all sets of threads, objects and requests, from
the assumptions of `Dispatcher` only (object kinds are disjoint, semaphore
limits positive, every wait names an object):

* `TypeCorrect`: `TypeOK`; in particular no count leaves `0..maximum_count_`.
* `DispatcherInvariant`: `NoMissedSignal`, inductive together with `TypeOK`. Its
  content is why the walk may stop at each block once: consuming an object never
  makes another wait satisfiable (`ConsumeSatisfiesNobody`), a change starts a
  walk of exactly the list of the changed object (`SignalStarts`, `DropStarts`),
  a visit grants a wait or leaves it unsatisfiable (`VisitKeeps`), and a wait
  registers only when it is not satisfiable (`EnterWaitKeeps`). `AwaitsVisit` is
  what makes the invariant hold in the middle of a walk.
* `SignalsGoToTheOldest`: the action property `NoOvertaking`, from
  `NoMissedSignal` for the immediate check of a new wait, and from the order of
  visits for the walk. No run names it: the refinement below contains it.
* `MutantsHaveLiveOwners`: `MutantOwnership`, inductive with `TypeOK`.
* `WordsAreCurrent`: `MirrorCurrent`. The word is stored at the end of a walk and by
  the waits that consume, so `MirrorInv` says what holds inside a critical section:
  the word may differ only for the object whose walk is under way and will end in
  the store.
* `WaitsReportWhatTheyTook`: `ResultMatchesTakes`, from `GrantInv`: by where a
  thread is in the wait loop, whether its block is granted, what was taken for it
  and at which index. A block is granted at most once, nothing is taken for a wait
  that is not granted, and the decision to give up (`outcome`) is replaced at the
  unregistration exactly when the block was granted meanwhile.
* `DispatcherImplementsAtomicWait`: the refinement `ImplementsAtomicWait`, with one
  lemma per kind of step (what it is in `AtomicWait`, or that it stutters). It needs
  `TypeOK`, `NoMissedSignal` (a wait enters or is given up only when every signal
  has reached its waits), `GrantInv`, and `CallInv`: a wait gives up for a reason
  that its request admits (alertable, a finite timeout, terminated), the line of a
  wait has only registered waits (`LineInv`), and only counted objects are pulsed
  (`PulseInv`).
* `NoWakeupIsLost`: `NoLostWakeup`, a thread asleep whose wait is granted, was
  terminated, alerted or given an APC, or is satisfiable, has a wakeup pending or a
  `notify_always()` to come. It is the safety half of `SatisfiedWaitReturns` and
  `GivenUpWaitReturns`: what is left to fairness is that pending steps are taken.
  Asleep is only the last place where a wakeup can be lost, so `WakeInv` says the
  same of each test between `Observe` and the sleep: what a test has already passed
  can have come true only with a wakeup since `observed` was read.

`TimerProofs` proves for all sets of timers, callers, delays and periods, from
`TimerAssumption` (periods are positive):

* `NoSleepPastDue`: `NeverSleepsPastDue`. It is not inductive by itself: what the
  thread knows when it goes to sleep is what the scan has seen (`ScanCovers`),
  and a timer set behind the scan's back is `BeingScheduled` until its export
  gets `mutex_`, which it cannot before the thread sleeps.
* `CancelIsFinal`: `NoCallbackAfterCancel`, from `CancelsAreOld`: cancellations
  over or under way are of earlier armings than an active timer's.
* `ArmedTimersArePending`: `ArmedIsPending` under `SingleUser`, from
  `UnscheduledIsInactive` and `ErasedIsNotOwed`. Without `SingleUser` it is
  false: `timer_cancel_race.cfg`.

`ReservationProofs`, from the assumptions of `Reservations` (at least one slot;
finitely many threads and devices, which are different; every word has a granule;
there is a generation to spare, which the code has by counting):

* `CountersAreBalanced`, `WindowIsAlone`, `CommitIsAlone`: `CountersBalanced`,
  `WindowIsExclusive`, `CommitIsExclusive`. The two gates and the two counters
  exclude each other only together, so the inductive invariant is all of
  `Exclusion`: who holds the head of the ticket queue, who counts, what a drain
  has seen at each of its two counters, and that an actor which counts after a gate
  was taken finds it taken when it looks again.
* `NoStoreIsLost`: `NoLostStore`, from `Monitor`: a slot that is active, or being
  committed, in a thread's name carries the thread's generation, nobody else has
  that generation, and no store other than an overlapping one has come to the
  granule since the load.
* `MonitorImplementsCells`: the refinement `ImplementsCells`, step by step; most
  steps stutter, an invalidation unlinks everybody at once although the code clears
  slot after slot, because the links of slots not yet cleared are already dead.

`LockProofs`, for `SectionSpec` and `RwSpec`, which are the behaviours of
`MCGuestLocks` with one lock or the other, and any finite set of threads, at most
`Word` of them:

* `SectionIsExclusive`, `SectionIsHandedOver`, `LockIsHandedOver`:
  `SectionExclusive`, `SectionHandOver`, `RwHandOver`. The invariants say what each
  `pc` means for `queue`, `handed` and `amount`: the hand-overs under way are the
  signals not yet sent, those sent and kept by the object, and the granted waits not
  yet back, and their sum is what the counters of the lock promise. All three
  assume `RunsOn = {}` as a hypothesis of the theorem, not of the module: with a
  terminated thread that runs on they are false (`terminated_waiter.cfg`).

`FileProofs`, from `FileAssumption` (finitely many threads, paths and objects
distinct from `None`):

* `HandlesAreOfOpenFiles`: `HandlesNameOpenFiles`. Entry and count change in two
  steps, so the invariant is that `handle_count_` is the entries plus the closes
  between the two, and that the close which finds it 0 is alone with the object.
* `OpensGoTogether`, `DeletesAreNotForgotten`: `OpensAreCompatible`,
  `DeletesAreCarriedOut`, inductive with `ShareType` and with who holds a lease when.

`ThreadProofs`, from `NoneAssumption` only:

* `ExecutingHasObject`: `ExecutingIsAlive`. It needs `ReferencesInv`: which of
  `threads_`, handles, `current_thread_` and calls hold a reference at each `pc`,
  and that a destructor runs only for the one who dropped the last.
* `SuspendTakesABlock`: `SuspendIsPrompt`, from `PromptInv`: where a thread may be
  with one block begun late.
* `UnloadsAfterJoins`: `JoinedBeforeUnload`, from `ShutdownInv` and `SessionInv`:
  what has been joined at each step of `shutdown()`.
* `TerminationStays`: the action property `TerminationIsFinal`.

`PageProofs`, from `PagesAreNumbers` (pages are numbers, the XEX views are each
other's alias, callers name intervals of pages inside one heap):

* `OwnershipStaysConsistent`, `TranslationStaysPublished`, `AccessesStayExact`:
  `OwnershipConsistent`, `TranslationIsPublished`, `AccessesAreExact`, from
  `PageInv`. The first two speak of the moments when `mutex_` is free, so `PageInv`
  says what holds in the middle of an operation: the tables agree at every step
  (`TablesInv`); a hot entry is out of date only for the pages still to be
  published (`Stale`), and the fresh pages of a commit have no entry yet
  (`EntriesInv`), which is why a failed commit may roll back without publishing;
  no entry names a free page (`BackedInv`), a page is freed only while no access has
  loaded an entry (`ReclaimInv`), and the aperture of a page is changed only when no
  entry and no access uses it (`RemapInv`).

`MirrorProofs`, from the assumptions of `GpuMirror` (finitely many writers, a page
for every cell, a journal of at least one slot), for any number of cells, pages and
writers:

* `BoundaryCompleteHolds`: `BoundaryIsComplete`, of the stores that are counted,
  beside any number that are not. From `BoundaryInv`: what each writer and the GPU
  thread is by where it is, `active_writers_` is the number of counted stores, the
  window has no strict store inside, and a store in flight is above the boundary or
  is uncounted and exposed.
* `RamCurrentHolds`, `MirrorCurrentHolds`, `RequestDeliversHolds`: `RamIsCurrent`,
  `MirrorIsCurrent`, `RequestDelivers`. They assume nothing of the behaviour: native
  stores go to the GPU's pages, page epochs come late, the journal is lapped,
  conditional stores publish uncounted. What they say is that the seven gaps of
  section 2 are all there are: of a cell that none of them has reached, no store and
  no GPU output is lost.
  The invariant is `BoundaryInv` with `PublishInv`: the newest epoch of an unexposed
  cell is in its journal slot, or was and another store has taken the slot over, or
  is with its writer; while it is above what the tracker has taken in so is its page's
  epoch; so a lookup that ends exactly has found the cell and one that does not falls
  back on pages that show it. And with `FreshInv`: who holds the newest bytes of each
  unexposed cell at each step of an upload and of a readback, where a store that
  arrives in between is pending and above the boundary.

Each inductive invariant was checked with TLC on the run's instance before it was
proved. What the runs show for two or three threads is therefore known for any
number of threads, objects, pages and requests.

Model-checked only: liveness under fairness, which needs `ENABLED` and is out of
the prover's reach (`SatisfiedWaitReturns`, `GivenUpWaitReturns`, `DispatchServes`,
`GatesOpen`, `ToldThreadsGoOn`, `ShutdownReturns`, `WaitersEnter`,
`CloseSettlesRequests`, `RemoversWake`), and the findings. Every other property of a
passing run is a theorem.

## 5. Findings

A run violates what the repository's documentation says:

* `lost_store`: a load-reserve looks for racing stores by reading the write epoch
  and then the count of active writers. A store that was past its invalidation
  when the slot was claimed can store after the load, publish its epoch after the
  first reading and leave before the second. The reservation survives and the
  conditional store overwrites the store. Reading the count first closes the gap.

More disagreements were met; the configurations named here reproduce them (each
ends in a violation):

* `unloaded_code.cfg` (`MCThreadLifecycle`): `reap_finished_threads()` takes threads
  out of `threads_` as soon as they are marked terminated, also while they still
  run guest code. What `shutdown()` then joins and reports does not include them,
  and the title's code is unloaded under such a thread (`shutdown.cpp` 104: "Every
  guest thread must be gone before the code it runs is unloaded.").
* `removed_open.cfg` (`MCFileObjects`): the last close of a path lets go of the
  share state's mutex before it removes the file, and does not take `open_mutex_`.
  An open in between succeeds and has its file removed; an open whose `stat()`
  came before the removal of a directory returns a handle to nothing. If the new
  open does not share deletion, the removal fails instead, its error is dropped
  and the file stays (`kernel_io_tests.cpp` 205 tests one thread:
  `test_delete_pending_waits_for_last_open_object`).
* `early_completion.cfg` (`MCFileObjects`): the packet of a transfer is posted, and
  its event set, before the bridge stores the data and the status block to guest
  memory, so a thread they wake can read the old ones (`xbox_io.cpp` 238: "The
  IOSB still contains the completed operation status").
* `lost_alert.cfg` (`MCDispatcher`): the wait loop clears an alert outside the
  dispatcher lock; a grant before the wait unregisters makes it return success,
  and the alert is reported by no wait.
* `early_thread_signal.cfg` (`MCDispatcher`): `terminate()` makes the thread
  object signalled before the thread's mutants are abandoned at its rundown.
* `timer_early.cfg` (`MCTimerDispatch`): the due time is checked and the timer
  fired in two critical sections; a timer set to a later time in between fires at
  once, and not then (`timer.hpp` 50: "at the timer's actual due time").
* `timer_one_shot.cfg` (`MCTimerDispatch`): a pending timer set to fire at once
  stays active and pending, and fires again at its old deadline.
* `timer_cancel_race.cfg` (`MCTimerDispatch`): `NtCancelTimer` on one thread
  unschedules what another thread's `NtSetTimerEx` armed between its two halves;
  the timer never fires.
* `stop_hangs.cfg` (`MCThreadLifecycle`): `stop()` before the main thread has set
  `execution_active_` joins it without terminating it; when its entry function
  then loops, or suspends a thread and waits, `stop()` does not come back
  (`execution_control.cpp` 98: "it is safe to join synchronously here").
* `neighbour_lost.cfg` (`MCGpuMirror`): a native store marks its page only, and
  ingestion then takes every GPU-written byte of the page for overwritten
  (`MEMORY_V2.md` 519: "a one-byte CPU write cannot destroy neighboring
  memexport/GPU data"): the gap `Neighbours`.
* `uncounted_conditional.cfg` (`MCGpuMirror`): the conditional store of
  `MemoryAccessContext` publishes its epoch without being counted among the active
  writers, so `current_epoch()` returns a boundary whose page epochs and journal
  entry are not written yet (`coherency.hpp` 56: "every writer at or below the
  returned epoch has finished publishing its page epochs"): the gap `Uncounted`.
* `page_epoch_late.cfg` (`MCGpuMirror`): a page's epoch is stored plainly, not as a
  maximum (`coherency.hpp` 166). A store that takes its epoch between the two looks
  of `current_epoch()` at the count of writers, and publishes it after a newer store
  to the same page, puts the page's epoch back to the boundary. The next ingestion
  by pages then misses the newer store, and the mirror keeps the old bytes as valid
  (`coherency.hpp` 57: "Writers that begin after this snapshot receive a newer epoch
  and are observed by the next consume."): the gap `LatePage`, which the proof of
  `MirrorIsCurrent` found.
* `summary_gap.cfg` (`MCGpuMirror`): a native store that finds its word of page bits
  nonzero returns although the store that made it so has not set the word's summary
  bit yet, and `collect_cpu_dirty_pages()` returns at once while no summary bit is set.
  A draw then misses a store that had returned before it (`coherency.hpp` 59: "Pages
  dirtied by native-access stores are collected into page epochs first, so they are
  part of the boundary."): the gap `Unannounced`. The next collection finds it.
* `journal_lapped.cfg` (`MCGpuMirror`): a journal slot is written range first and
  epoch last, so a reader, or two stores in one slot, can pair an epoch with another
  store's range, and the mirror keeps old bytes as valid: the gaps `LappedRead` and
  `LappedSlot`. The code needs `kWriteJournalCapacity` stores within one lookup or
  one publication for it.
* `terminated_waiter.cfg` (`MCGuestLocks`): a thread terminated while it waits in
  `RtlEnterCriticalSection` comes back as if it had entered; when its code reaches
  `RtlLeaveCriticalSection` before a safepoint, it releases the section of another
  thread, because the export looks at the recursion count and not at the owner
  (`tests/xbox/rtl_critical_section_export_tests.cpp` 394: "takes no ownership").
  Threads are terminated by others only when the session stops. `locks` therefore
  has no thread in `RunsOn`.
* `failed_commit.cfg` (`MCGuestPages`): a commit of reserved pages with another
  protection that runs out of memory half way leaves the new protection in the
  page table and the old one published.

And some have no configuration:

* A read/write lock ignores the result of its wait, so a writer or reader that was
  terminated in it goes on as a holder. With `RunsOn = {}` it holds nothing; but
  the lock handed to it is then released by nobody.
* A thread that has lost its `KernelThread` (section 2, `self = "missing"`) and
  whose handle is closed is destroyed when the destructor's five seconds are
  over, while `thread_main()` still runs on it (`thread.hpp` 302: "a thread that
  is currently executing is, by construction, still alive"). `ExecutingIsAlive`
  leaves such threads out.
* A wait on a single thread is a `join()`, which nothing interrupts
  (`wait.cpp` says so), and `shutdown()` joins the main thread without a bound: it
  hangs if the main thread waits for a suspended thread that it created after
  `terminate_guest_threads()` had gone over `threads_`, or for one that loops
  without a safepoint. `ShutdownReturns` names both (`MainHeld`), and `threads` has both.
* The physical write window does not stop native stores, which the readback's
  write may then overwrite: the gap `Overwritten`.
* `publish_hot_page()` and `publish_hot_range()` store the entries without
  `kDirectAperture` by plain release stores (`hot_page_table.cpp` 110, 169) and then
  load `active_fast_readers_` (111, 175).
  x86 may let the load pass the stores, and no fence is between them: a reader that
  enters meanwhile is not seen and may still load the old, direct entry of a page that
  is about to be remapped ("forming the grace-period boundary", 168).
  `AccessesAreExact` holds for sequentially consistent memory only.
* A rename onto the object's own path with replacement passes `rename_to()`
  (`share_state.cpp` 106) and `HostPathDevice::rename()` removes the destination,
  which is the file itself, before it renames it: the call fails and the file is
  gone. In general a rename that fails after the removal leaves no destination.
* A transfer whose request the last close has taken and not yet cancelled returns
  `InvalidParameter` (`finish_synchronous()`), neither its result nor "cancelled".
* After a rename the device's registry still has the file under its old name: an
  open of a new file of that name can be refused although the share state admits
  it.
* `NtRemoveIoCompletion` reports the request id as the status of a packet that a
  transfer posted: the field that carries a guest's status
  (`xboxkrnl_sync_exports.cpp` 138) is never 0 for those.
* A wait for all of an event and a thread becomes satisfiable when the thread
  terminates, which walks no list, so until it retries a later waiter may take
  the event (`multi_wait_list.hpp` says it never can; `NoOvertaking` leaves such
  waits out).
* A periodic timer whose due time is 0 fires inside `set()` and is not handed to
  `TimerManager`, so it never fires again (`timer_manager.hpp`: "re-arms periodic
  ones automatically").

## 6. Not modelled

The repository has some 128,000 lines of implementation. Most of them are out of
a model checker's reach or have nothing for it to find: the decoder, IR,
optimizer, code generators and recompilation pipeline, the Xenos shader and
command translation and XEX loading are sequential transformations of large
data; the Vulkan and D3D12 back ends, audio, input, network, logging, launcher
and tools are calls of host APIs, I/O and user interface; filesystem, XAM and
process services are mostly look-ups. The models keep to the shared state that
threads meet in, which is a small part of the lines and where the hazards are.
`PROJECT.json` gives the reason for each component.

Inside what is modelled: value-compare reservations of native-access contexts;
the wrap of the 32-bit reservation generation; weaker memory orders than x86's;
priorities, affinity and TLS of threads; the session's pump threads and the
release of subsystems after the unloading; `KeSuspendThread` and
`KeResumeThread`, which use a thread pointer they hold no reference for; the
guest's spin locks and IRQL, which are a compare-and-swap loop each and share no
state with the locks above; the D3D12 mirror, which uses the same tracker.

## 7. Plan

In order:

1. The heap and pool allocators as pure algorithms against a reference
   definition.
2. `SessionShutdown`: the order in which pumps, threads and the process stop.
3. `LockWaits` on top of `AtomicWait`: the waits inside the guest's locks taken from
   the specification that `Dispatcher` is proved to implement.
