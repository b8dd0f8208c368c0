--------------------------- MODULE ThreadLifecycle ---------------------------
(***************************************************************************)
(* The life of guest threads: KernelThread and ThreadManager               *)
(* (src/kernel/threading/thread.cpp), the dispatch loop that runs guest    *)
(* code on them and the session that creates, stops and unloads them       *)
(* (src/core/session/threading, execution/guest_dispatch.cpp, lifecycle).  *)
(*                                                                         *)
(* A KernelThread is a shared object: threads_ of the manager, a guest     *)
(* handle, the host thread's own current_thread_ and the calls in flight   *)
(* each hold a reference, and who drops the last one runs the destructor   *)
(* there and then.  Kernel waits are the Dispatcher module's; here guest   *)
(* code is blocks that end or loop, with kernel calls between.             *)
(*                                                                         *)
(* A bounded join (five seconds) expires only on a thread that will not    *)
(* come to its end by itself: Stuck.  The stop and shutdown calls of the   *)
(* session are made once, by one host thread; its pump threads, which it   *)
(* joins by name, are left out, and so is what follows the unloading.      *)
(***************************************************************************)
EXTENDS Naturals, FiniteSets

CONSTANTS
    Threads,     \* the KernelThread objects of a run
    Main,        \* main_thread_, created and started by start()
    Session,     \* the host thread that stops and shuts down the session
    Does,        \* the kernel calls that each thread's guest code makes
    Wedges,      \* threads whose guest code may loop without a safepoint
    MaxSuspend,  \* bound on suspend_count_
    None

ASSUME MainAssumption == Main \in Threads /\ Session \notin Threads
ASSUME WedgeAssumption == Wedges \subseteq Threads
ASSUME NoneAssumption == None \notin Threads \cup {"found", "missing"}
ASSUME BoundAssumption == MaxSuspend \in Nat \ {0}

Calls == {"create", "close", "suspend", "resume", "terminate", "join"}
ASSUME CallAssumption == Does \in [Threads -> SUBSET Calls]

VARIABLES
    object,   \* the KernelThread: none yet, live, or freed
    state,    \* state_ (terminated_ is set with it)
    exit,     \* exit_code_, by who gave it
    count,    \* suspend_count_
    flag,     \* safepoint_requested_
    host,     \* host_thread_: none, running (joinable), joined or detached
    pc,       \* where the host thread is in thread_main and the dispatch loop
    asleep,   \* threads blocked on suspend_condition_
    self,     \* current_thread_ and the dispatch argument: found, missing or none
    tracked,  \* threads_ of the ThreadManager
    handles,  \* threads with an open guest handle
    call,     \* the kernel call, reap or destructor each actor is in
    active,   \* execution_active_
    stop,     \* stop_requested_
    session,  \* how far the session's stop() and shutdown() are
    todo,     \* threads_copy entries shutdown() has yet to join
    still,    \* still_running
    copied,   \* history: threads_copy
    unloaded, \* unload_native_extension() has run
    late      \* history: blocks begun since a stop was asked of the thread

record == <<object, state, exit, count, flag, host>>
refs   == <<self, tracked, handles>>
world  == <<active, stop, session, todo, still, copied, unloaded>>
vars   == <<record, pc, asleep, refs, call, world, late>>

Actors == Threads \cup {Session}
NoCall == [op |-> "none", at |-> "none", who |-> None, bag |-> {}]

\* The host thread has returned from thread_main and run its thread-local
\* destructors; completion_future_ is ready from "over" on.
Ended(t) == pc[t] = "gone"
Done(t)  == pc[t] \in {"over", "gone"}
Idle(t)  == call[t] = NoCall
Found(t) == self[t] = "found"

\* A reference to u is held outside u's own host thread and besides those
\* that a is dropping.
HeldElsewhere(u, a) ==
    \/ u = Main \/ u \in tracked \cup handles \cup todo
    \/ \E x \in Actors : call[x].who = u \/ (x # a /\ u \in call[x].bag)

-----------------------------------------------------------------------------
(* KernelThread.  These describe the fields that one locked section sets.  *)

Terminated(t) == state[t] = "Terminated"

\* Mutant: terminate() without notifying suspend_condition_.
TerminatesUnnoticed(S, code) ==
    LET new == {t \in S : ~Terminated(t)} IN
    /\ exit'  = [t \in Threads |-> IF t \in new THEN code ELSE exit[t]]
    /\ state' = [t \in Threads |-> IF t \in new THEN "Terminated" ELSE state[t]]
    /\ flag'  = [t \in Threads |-> t \in new \/ flag[t]]
    /\ UNCHANGED asleep

\* terminate() of every thread of S: nothing is done for one that has ended,
\* so the first exit code stays; a parked one is woken.
Terminates(S, code) ==
    LET new == {t \in S : ~Terminated(t)} IN
    /\ exit'  = [t \in Threads |-> IF t \in new THEN code ELSE exit[t]]
    /\ state' = [t \in Threads |-> IF t \in new THEN "Terminated" ELSE state[t]]
    /\ flag'  = [t \in Threads |-> t \in new \/ flag[t]]
    /\ asleep' = asleep \ new

\* suspend(): the first one changes the state, each one asks for a safepoint.
SuspendBody(u) ==
    IF Terminated(u)
    THEN UNCHANGED <<state, count, flag>>
    ELSE /\ count' = [count EXCEPT ![u] = @ + 1]
         /\ state' = IF count[u] = 0 THEN [state EXCEPT ![u] = "Suspended"] ELSE state
         /\ flag'  = [flag EXCEPT ![u] = TRUE]

\* resume(): only the last one clears the request and wakes the thread.
ResumeBody(u) ==
    IF Terminated(u) \/ count[u] = 0
    THEN UNCHANGED <<state, count, flag, asleep>>
    ELSE /\ count' = [count EXCEPT ![u] = @ - 1]
         /\ IF count[u] = 1
            THEN /\ state'  = [state EXCEPT ![u] = "Ready"]
                 /\ flag'   = [flag EXCEPT ![u] = FALSE]
                 /\ asleep' = asleep \ {u}
            ELSE UNCHANGED <<state, flag, asleep>>

\* A stop has been asked of t that it has yet to honour.
Asked(t) == count[t] > 0 \/ Terminated(t)

-----------------------------------------------------------------------------
(* The host thread: thread_main around the dispatch loop.                  *)

Goto(t, l) == pc' = [pc EXCEPT ![t] = l]

\* Where wait_while_suspended() is called, and what follows it.
After == [entry |-> "enter", boundary |-> "recheck", safepoint |-> "polled"]

\* Mutant: a safepoint that does not wait for the resume.
PassSuspended(t) ==
    /\ pc[t] \in DOMAIN After /\ t \notin asleep
    /\ Goto(t, After[pc[t]])
    /\ UNCHANGED <<record, asleep, refs, call, world, late>>

\* wait_while_suspended(): passes when not suspended or terminated, and
\* otherwise sleeps on the condition, which resume() and terminate() notify.
Pass(t) ==
    /\ pc[t] \in DOMAIN After /\ t \notin asleep
    /\ count[t] = 0 \/ Terminated(t)
    /\ Goto(t, After[pc[t]])
    /\ UNCHANGED <<record, asleep, refs, call, world, late>>

Sleep(t) ==
    /\ pc[t] \in DOMAIN After /\ t \notin asleep
    /\ count[t] > 0 /\ ~Terminated(t)
    /\ asleep' = asleep \cup {t}
    /\ UNCHANGED <<record, pc, refs, call, world, late>>

\* thread_main: entry_() runs unless the thread has been terminated by now.
Enter(t) ==
    /\ pc[t] = "enter"
    /\ IF Terminated(t)
       THEN Goto(t, "complete") /\ UNCHANGED state
       ELSE Goto(t, "lookup") /\ state' = [state EXCEPT ![t] = "Running"]
    /\ UNCHANGED <<object, exit, count, flag, host, asleep, refs, call, world, late>>

\* The head of entry_(): main_thread_ is at hand, a created thread finds
\* itself in threads_ or goes on without a KernelThread.  The entry function
\* is then called with no safepoint before it.
Lookup(t) ==
    /\ pc[t] = "lookup"
    /\ self' = [self EXCEPT ![t] = IF t = Main \/ t \in tracked THEN "found" ELSE "missing"]
    /\ active' = (active \/ t = Main)
    /\ late' = [late EXCEPT ![t] = IF Asked(t) THEN 1 ELSE 0]
    /\ Goto(t, "guest")
    /\ UNCHANGED <<record, asleep, tracked, handles, call, stop, session, todo, still,
                   copied, unloaded>>

\* A loop back-edge: poll_safepoint() finds the flag set.
Poll(t) ==
    /\ pc[t] = "guest" /\ Idle(t)
    /\ Found(t) /\ flag[t]
    /\ Goto(t, "safepoint")
    /\ UNCHANGED <<record, asleep, refs, call, world, late>>

\* Guest code gets into a loop without a safepoint, which it may or may not
\* leave again.
Wedge(t) ==
    /\ pc[t] = "guest" /\ Idle(t) /\ t \in Wedges
    /\ Goto(t, "wedged")
    /\ UNCHANGED <<record, asleep, refs, call, world, late>>

\* enter_safepoint() after its wait: leave the loop by an exception, or go on.
Polled(t) ==
    /\ pc[t] = "polled"
    /\ Goto(t, IF Terminated(t) THEN "leave" ELSE "guest")
    /\ UNCHANGED <<record, asleep, refs, call, world, late>>

\* A compiled function comes back to the loop, whose condition is tested.
BlockEnd(t) ==
    /\ pc[t] \in {"guest", "wedged"} /\ Idle(t)
    /\ Goto(t, IF stop \/ (Found(t) /\ Terminated(t)) THEN "leave"
               ELSE IF Found(t) THEN "boundary" ELSE "next")
    /\ UNCHANGED <<record, asleep, refs, call, world, late>>

\* A fault, caught outside the loop.
Fault(t) ==
    /\ pc[t] \in {"guest", "wedged"} /\ Idle(t)
    /\ Goto(t, "leave")
    /\ UNCHANGED <<record, asleep, refs, call, world, late>>

\* The loop's second test, after the wait at the boundary.
Recheck(t) ==
    /\ pc[t] = "recheck"
    /\ Goto(t, IF Terminated(t) THEN "leave" ELSE "next")
    /\ UNCHANGED <<record, asleep, refs, call, world, late>>

\* The switch: the next block, or the end of the thread's function.
NextBlock(t) ==
    /\ pc[t] = "next"
    /\ Goto(t, "guest")
    /\ late' = [late EXCEPT ![t] = IF Asked(t) /\ @ < 2 THEN @ + 1 ELSE @]
    /\ UNCHANGED <<record, asleep, refs, call, world>>

Return(t) ==
    /\ pc[t] = "next"
    /\ Goto(t, "leave")
    /\ UNCHANGED <<record, asleep, refs, call, world, late>>

\* The end of run_execution and run_created_guest_thread, up to the reap.
Leave(t) ==
    /\ pc[t] = "leave" /\ Idle(t)
    /\ active' = (active /\ t # Main)
    /\ call' = [call EXCEPT ![t] = [NoCall EXCEPT !.op = "exit", !.at = "reap"]]
    /\ UNCHANGED <<record, pc, asleep, refs, stop, session, todo, still, copied,
                   unloaded, late>>

\* Mutant: the entry's result overwrites what terminate() gave.
CompleteOverwrites(t) ==
    /\ pc[t] = "complete"
    /\ state' = [state EXCEPT ![t] = "Terminated"]
    /\ exit'  = [exit EXCEPT ![t] = "returned"]
    /\ Goto(t, "signal")
    /\ UNCHANGED <<object, count, flag, host, asleep, refs, call, world, late>>

\* thread_main's last locked section: an exit code given by terminate() stays.
Complete(t) ==
    /\ pc[t] = "complete"
    /\ IF Terminated(t)
       THEN UNCHANGED <<state, exit>>
       ELSE /\ state' = [state EXCEPT ![t] = "Terminated"]
            /\ exit'  = [exit EXCEPT ![t] = "returned"]
    /\ Goto(t, "signal")
    /\ UNCHANGED <<object, count, flag, host, asleep, refs, call, world, late>>

\* completion_promise_.set_value(), the last use of the object.
Signal(t) ==
    /\ pc[t] = "signal"
    /\ Goto(t, "over")
    /\ UNCHANGED <<record, asleep, refs, call, world, late>>

\* The host thread ends; its current_thread_ is dropped, and when that is the
\* last reference the destructor detaches the thread it runs on.
Exit(t) ==
    /\ pc[t] = "over"
    /\ Goto(t, "gone")
    /\ self' = [self EXCEPT ![t] = None]
    /\ IF Found(t) /\ ~HeldElsewhere(t, t)
       THEN /\ object' = [object EXCEPT ![t] = "freed"]
            /\ host'   = [host EXCEPT ![t] = "detached"]
       ELSE UNCHANGED <<object, host>>
    /\ UNCHANGED <<state, exit, count, flag, asleep, tracked, handles, call, world, late>>

HostStep(t) ==
    \/ Pass(t) \/ Sleep(t) \/ Enter(t) \/ Lookup(t) \/ Polled(t) \/ Recheck(t)
    \/ NextBlock(t) \/ Return(t) \/ Leave(t) \/ Complete(t) \/ Signal(t) \/ Exit(t)

-----------------------------------------------------------------------------
(* References given up, and the destructor of the last one.  An actor with *)
(* op "create" goes on to make its thread, with "exit" to thread_main's    *)
(* end, with any other back to its caller.                                 *)

\* The call goes back to guest code; a reference it held is dropped first.
Returning(a) ==
    [NoCall EXCEPT !.op = "return", !.at = "drop", !.bag = {call[a].who}]

\* reap_finished_threads(): takes out every terminated thread but the caller.
Reap(a) ==
    LET finished == {u \in tracked : Terminated(u) /\ ~(u = a /\ host[u] = "running")} IN
    /\ call[a].at = "reap"
    /\ tracked' = tracked \ finished
    /\ call' = [call EXCEPT ![a].at = "drop", ![a].bag = finished]
    /\ UNCHANGED <<record, pc, asleep, self, handles, world, late>>

\* A reference goes.  ~KernelThread() of the last one ends a thread that was
\* never started at once, and otherwise terminates it and joins it.
Drop(a) ==
    \E u \in call[a].bag :
    /\ call[a].at = "drop"
    /\ IF Found(u) \/ HeldElsewhere(u, a) \/ host[u] = "none"
       THEN /\ call' = [call EXCEPT ![a].bag = @ \ {u}]
            /\ object' = IF Found(u) \/ HeldElsewhere(u, a) THEN object
                         ELSE [object EXCEPT ![u] = "freed"]
            /\ UNCHANGED <<state, exit, flag, asleep>>
       ELSE /\ Terminates({u}, "destroyed")
            /\ call' = [call EXCEPT ![a].at = "destroy", ![a].who = u,
                                    ![a].bag = @ \ {u}]
            /\ UNCHANGED object
    /\ UNCHANGED <<count, host, pc, refs, world, late>>

\* A thread that does not come to its end by itself.
Stuck(u) ==
    \/ call[u].at \in {"join", "destroy"}
    \/ pc[u] = "wedged" \/ (pc[u] = "guest" /\ self[u] = "missing")

\* Mutant: the destructor detaches without waiting.
DestroyAtOnce(a) ==
    LET u == call[a].who IN
    /\ call[a].at = "destroy"
    /\ object' = [object EXCEPT ![u] = "freed"]
    /\ host' = [host EXCEPT ![u] = IF @ = "running" THEN "detached" ELSE @]
    /\ call' = [call EXCEPT ![a].at = "drop", ![a].who = None]
    /\ UNCHANGED <<state, exit, count, flag, pc, asleep, refs, world, late>>

\* The destructor's bounded join: on its own thread it detaches at once, it
\* joins a thread that has ended, and detaches one that outlasts the bound.
Destroy(a) ==
    LET u == call[a].who IN
    /\ call[a].at = "destroy"
    /\ u = a \/ Ended(u) \/ (~Done(u) /\ Stuck(u))
    /\ object' = [object EXCEPT ![u] = "freed"]
    /\ host' = [host EXCEPT ![u] = IF u # a /\ Ended(u) /\ @ = "running" THEN "joined"
                                   ELSE IF @ = "running" THEN "detached" ELSE @]
    /\ call' = [call EXCEPT ![a].at = "drop", ![a].who = None]
    /\ UNCHANGED <<state, exit, count, flag, pc, asleep, refs, world, late>>

\* All dropped: the reap of an exiting thread is followed by thread_main's end.
Dropped(t) ==
    /\ call[t].at = "drop" /\ call[t].bag = {}
    /\ IF call[t].op = "create"
       THEN call' = [call EXCEPT ![t].at = "make"] /\ UNCHANGED pc
       ELSE /\ call' = [call EXCEPT ![t] = NoCall]
            /\ IF call[t].op = "exit" THEN Goto(t, "complete") ELSE UNCHANGED pc
    /\ UNCHANGED <<record, asleep, refs, world, late>>

-----------------------------------------------------------------------------
(* The kernel calls of guest code.                                         *)

MayCall(t, c) == pc[t] = "guest" /\ Idle(t) /\ c \in Does[t]

\* ExCreateThread, from create_thread()'s reap on.
CreateCall(t) ==
    /\ MayCall(t, "create")
    /\ \E u \in Threads : object[u] = "none"
    /\ call' = [call EXCEPT ![t] = [NoCall EXCEPT !.op = "create", !.at = "reap"]]
    /\ UNCHANGED <<record, pc, asleep, refs, world, late>>

\* The new object enters threads_, suspended or not.
Make(t) ==
    \E u \in Threads, suspended \in BOOLEAN :
    /\ call[t].at = "make" /\ object[u] = "none"
    /\ object' = [object EXCEPT ![u] = "live"]
    /\ count'  = [count EXCEPT ![u] = IF suspended THEN 1 ELSE 0]
    /\ tracked' = tracked \cup {u}
    /\ call' = [call EXCEPT ![t].at = "insert", ![t].who = u]
    /\ UNCHANGED <<state, exit, flag, host, pc, asleep, self, handles, world, late>>

\* The handle; without one the thread is terminated before it starts.
Insert(t) ==
    /\ call[t].at = "insert"
    /\ \/ /\ handles' = handles \cup {call[t].who}
          /\ call' = [call EXCEPT ![t].at = "start"]
          /\ UNCHANGED <<state, exit, flag, asleep>>
       \/ /\ Terminates({call[t].who}, "host")
          /\ call' = [call EXCEPT ![t] = Returning(t)]
          /\ UNCHANGED handles
    /\ UNCHANGED <<object, count, host, pc, self, tracked, world, late>>

\* start(): refused for a thread that is no longer Initialized (it has been
\* terminated since); the host thread may fail to start.
Start(t) ==
    LET u == call[t].who IN
    /\ call[t].at = "start"
    /\ \/ /\ state[u] = "Initialized"
          /\ host'  = [host EXCEPT ![u] = "running"]
          /\ state' = [state EXCEPT ![u] = IF count[u] > 0 THEN "Suspended" ELSE "Ready"]
          /\ Goto(u, "entry")
          /\ UNCHANGED <<exit, flag, asleep>>
       \/ /\ Terminates({u}, "host")
          /\ UNCHANGED <<pc, host>>
    /\ call' = [call EXCEPT ![t] = Returning(t)]
    /\ UNCHANGED <<object, count, refs, world, late>>

\* NtClose of a thread's handle, which the guest has once the call returned.
Close(t) ==
    \E u \in handles :
    /\ MayCall(t, "close") /\ host[u] # "none"
    /\ handles' = handles \ {u}
    /\ call' = [call EXCEPT ![t] = [NoCall EXCEPT !.op = "return", !.at = "drop",
                                                  !.bag = {u}]]
    /\ UNCHANGED <<record, pc, asleep, self, tracked, world, late>>

\* NtSuspendThread.
Suspend(t) ==
    \E u \in handles :
    /\ MayCall(t, "suspend") /\ host[u] # "none" /\ count[u] < MaxSuspend
    /\ SuspendBody(u)
    /\ UNCHANGED <<object, exit, host, pc, asleep, refs, call, world, late>>

\* NtResumeThread.
Resume(t) ==
    \E u \in handles :
    /\ MayCall(t, "resume") /\ host[u] # "none"
    /\ ResumeBody(u)
    /\ late' = [late EXCEPT ![u] = IF count[u] = 1 /\ ~Terminated(u) THEN 0 ELSE @]
    /\ UNCHANGED <<object, exit, host, pc, refs, call, world>>

\* ExTerminateThread: ends the caller, which goes on until its next safepoint;
\* nothing happens for a thread without a current_thread_.
TerminateSelf(t) ==
    /\ MayCall(t, "terminate")
    /\ IF Found(t) THEN Terminates({t}, "guest")
       ELSE UNCHANGED <<state, exit, flag, asleep>>
    /\ UNCHANGED <<object, count, host, pc, refs, call, world, late>>

\* A wait on a thread: over at once for a terminated one, a join otherwise.
JoinCall(t) ==
    \E u \in handles :
    /\ MayCall(t, "join") /\ host[u] # "none" /\ ~Terminated(u)
    /\ call' = [call EXCEPT ![t] = [NoCall EXCEPT !.op = "return", !.at = "join",
                                                  !.who = u]]
    /\ UNCHANGED <<record, pc, asleep, refs, world, late>>

\* join() without a bound; a thread that joins itself detaches instead.
Join(t) ==
    LET u == call[t].who IN
    /\ call[t].at = "join" /\ (u = t \/ Ended(u))
    /\ host' = [host EXCEPT ![u] = IF @ # "running" THEN @
                                   ELSE IF u = t THEN "detached" ELSE "joined"]
    /\ call' = [call EXCEPT ![t] = Returning(t)]
    /\ UNCHANGED <<object, state, exit, count, flag, pc, asleep, refs, world, late>>

GuestCall(t) ==
    \/ CreateCall(t) \/ Close(t) \/ Suspend(t) \/ Resume(t) \/ TerminateSelf(t)
    \/ JoinCall(t)

CallStep(t) ==
    \/ Reap(t) \/ Drop(t) \/ Destroy(t) \/ Dropped(t)
    \/ Make(t) \/ Insert(t) \/ Start(t) \/ Join(t)

-----------------------------------------------------------------------------
(* The session.                                                            *)

\* Mutant: the guest threads are asked to stop by stop_requested_ alone.
SweepNobody ==
    /\ UNCHANGED <<state, exit, flag, asleep>>
    /\ call' = [call EXCEPT ![Session] = [NoCall EXCEPT !.op = "return", !.at = "drop",
                                                        !.bag = tracked]]

\* terminate_guest_threads(): the threads of threads_ at this moment.
Sweep ==
    /\ Terminates(tracked, "host")
    /\ call' = [call EXCEPT ![Session] = [NoCall EXCEPT !.op = "return", !.at = "drop",
                                                        !.bag = tracked]]

\* stop() while the main thread is not in its dispatch loop: a plain join.
StopIdle ==
    /\ session = "running" /\ ~active
    /\ stop' = TRUE
    /\ session' = "stopping"
    /\ UNCHANGED <<record, pc, asleep, refs, call, active, todo, still, copied,
                   unloaded, late>>

StopJoined ==
    /\ session = "stopping" /\ Ended(Main)
    /\ host' = [host EXCEPT ![Main] = IF @ = "running" THEN "joined" ELSE @]
    /\ session' = "stopped"
    /\ UNCHANGED <<object, state, exit, count, flag, pc, asleep, refs, call, active, stop,
                   todo, still, copied, unloaded, late>>

\* stop() of a running title.
StopActive ==
    /\ session = "running" /\ active
    /\ stop' = TRUE
    /\ Sweep
    /\ session' = "stopped"
    /\ UNCHANGED <<object, count, host, pc, refs, active, todo, still, copied, unloaded, late>>

\* shutdown(), up to the join of the main thread.
Shutdown ==
    /\ session \in {"running", "stopped"} /\ Idle(Session)
    /\ stop' = TRUE
    /\ Sweep
    /\ session' = "joining"
    /\ UNCHANGED <<object, count, host, pc, refs, active, todo, still, copied, unloaded, late>>

\* The references of terminate_guest_threads()'s list are gone again.
Swept ==
    /\ call[Session].at = "drop" /\ call[Session].bag = {} /\ session # "dropping"
    /\ call' = [call EXCEPT ![Session] = NoCall]
    /\ UNCHANGED <<record, pc, asleep, refs, world, late>>

\* join() of the main thread, then ThreadManager::shutdown(): threads_ is
\* copied and cleared, and every thread of the copy terminated.
Take ==
    /\ session = "joining" /\ Idle(Session) /\ Ended(Main)
    /\ todo' = tracked /\ copied' = tracked
    /\ tracked' = {}
    /\ Terminates(tracked, "host")
    /\ host' = [host EXCEPT ![Main] = IF @ = "running" THEN "joined" ELSE @]
    /\ session' = "taking"
    /\ UNCHANGED <<object, count, pc, self, handles, call, active, stop, still,
                   unloaded, late>>

\* Mutant: a join that runs out is not reported.
JoinUnreported ==
    \E u \in todo :
    /\ session = "taking"
    /\ \/ host[u] = "none" \/ Ended(u)
       \/ ~Done(u) /\ Stuck(u)
    /\ host' = [host EXCEPT ![u] = IF Ended(u) /\ @ = "running" THEN "joined" ELSE @]
    /\ todo' = todo \ {u}
    /\ call' = [call EXCEPT ![Session].op = "return", ![Session].bag = @ \cup {u}]
    /\ UNCHANGED <<object, state, exit, count, flag, pc, asleep, refs, session, active,
                   stop, still, copied, unloaded, late>>

\* The bounded joins, in any order; a thread that outlasts its bound is
\* reported.  The copy's references are kept to the end of the function.
JoinCopied ==
    \E u \in todo :
    /\ session = "taking"
    /\ \/ host[u] = "none" \/ Ended(u)
       \/ ~Done(u) /\ Stuck(u)
    /\ still' = IF host[u] # "none" /\ ~Ended(u) THEN still \cup {u} ELSE still
    /\ host' = [host EXCEPT ![u] = IF Ended(u) /\ @ = "running" THEN "joined" ELSE @]
    /\ todo' = todo \ {u}
    /\ call' = [call EXCEPT ![Session].op = "return", ![Session].bag = @ \cup {u}]
    /\ UNCHANGED <<object, state, exit, count, flag, pc, asleep, refs, session, active,
                   stop, copied, unloaded, late>>

DropCopied ==
    /\ session = "taking" /\ todo = {}
    /\ call' = [call EXCEPT ![Session].at = "drop"]
    /\ session' = "dropping"
    /\ UNCHANGED <<record, pc, asleep, refs, active, stop, todo, still, copied, unloaded, late>>

\* The module's code is unloaded when no thread was reported.
Unload ==
    /\ session = "dropping" /\ call[Session].at = "drop" /\ call[Session].bag = {}
    /\ unloaded' = (still = {})
    /\ call' = [call EXCEPT ![Session] = NoCall]
    /\ session' = "ended"
    /\ UNCHANGED <<record, pc, asleep, refs, active, stop, todo, still, copied, late>>

SessionCall == StopIdle \/ StopActive \/ Shutdown
SessionStep ==
    \/ StopJoined \/ Swept \/ Take \/ JoinCopied \/ DropCopied \/ Unload
    \/ Drop(Session) \/ Destroy(Session)

-----------------------------------------------------------------------------

\* start() has made main_thread_ and its host thread.
Init ==
    /\ object = [t \in Threads |-> IF t = Main THEN "live" ELSE "none"]
    /\ state  = [t \in Threads |-> IF t = Main THEN "Ready" ELSE "Initialized"]
    /\ exit   = [t \in Threads |-> None]
    /\ count  = [t \in Threads |-> 0]
    /\ flag   = [t \in Threads |-> FALSE]
    /\ host   = [t \in Threads |-> IF t = Main THEN "running" ELSE "none"]
    /\ pc     = [t \in Threads |-> IF t = Main THEN "entry" ELSE "unborn"]
    /\ asleep = {} /\ handles = {}
    /\ self   = [t \in Threads |-> None]
    /\ tracked = {Main}
    /\ call   = [a \in Actors |-> NoCall]
    /\ active = FALSE /\ stop = FALSE /\ unloaded = FALSE
    /\ session = "running"
    /\ todo = {} /\ still = {} /\ copied = {}
    /\ late   = [t \in Threads |-> 0]

Next ==
    \/ \E t \in Threads :
          \/ HostStep(t) \/ Poll(t) \/ Wedge(t) \/ BlockEnd(t) \/ Fault(t)
          \/ GuestCall(t) \/ CallStep(t)
    \/ SessionCall \/ SessionStep

\* Host threads run and calls go on; a polled loop comes to its back-edge.
\* Guest code need not end a block, fault or call, the title need not stop.
Fairness ==
    /\ \A t \in Threads :
          WF_vars(HostStep(t)) /\ WF_vars(Poll(t)) /\ WF_vars(CallStep(t))
    /\ WF_vars(SessionStep)

Spec == Init /\ [][Next]_vars /\ Fairness

-----------------------------------------------------------------------------
(* Properties.                                                             *)

\* A thread that has been terminated stays so, with the exit code it was
\* given first: its own end, a suspend, a resume or a second terminate() that
\* comes later changes neither (thread_main's last section, thread.cpp 403).
TerminationIsFinal ==
    [][\A t \in Threads : Terminated(t) => Terminated(t)' /\ exit'[t] = exit[t]]_vars

\* A thread that can be asked to stop begins at most one block between the
\* request and its safepoint ("honored within roughly one block's latency",
\* thread.hpp 108).
SuspendIsPrompt == \A t \in Threads : Found(t) => late[t] <= 1

\* While thread_main runs on a KernelThread the object is not destroyed,
\* whoever drops its references and whenever the handle is closed - but for
\* a thread that did not find itself in threads_, which nobody can stop.
ExecutingIsAlive ==
    \A t \in Threads :
       object[t] = "freed" => pc[t] \in {"unborn", "gone"} \/ self[t] = "missing"

\* The title's code is unloaded only when every thread that the manager's
\* shutdown() took out of threads_ has ended.
JoinedBeforeUnload ==
    unloaded => \A t \in copied : pc[t] \in {"unborn", "gone"}

\* The title's code is unloaded only when no thread runs it ("Every guest
\* thread must be gone before the code it runs is unloaded", shutdown.cpp 104).
NoThreadRunsUnloadedCode ==
    unloaded => \A t \in Threads : pc[t] \notin {"guest", "wedged", "safepoint", "polled"}

\* A terminated thread ends, parked or running a loop that never ends its
\* block (but polls), unless it joins another thread, loops without a
\* safepoint or has not found itself.
TerminatedThreadEnds ==
    \A t \in Threads :
       (Terminated(t) /\ host[t] = "running")
          ~> (Ended(t) \/ call[t].at = "join" \/ pc[t] = "wedged" \/ self[t] = "missing")

\* A thread waiting to be resumed goes on when the last resume() comes.
ResumedThreadRuns ==
    \A t \in Threads :
       (pc[t] \in DOMAIN After /\ count[t] = 0)
          ~> (pc[t] \notin DOMAIN After \/ count[t] > 0)

\* A parked thread that is told to go on does: no resume() or terminate() is
\* lost between its test and its sleep.
ToldThreadsGoOn == TerminatedThreadEnds /\ ResumedThreadRuns

\* The main thread does not come to its end: it loops without a safepoint, or
\* it is inside a wait on a thread that is stuck itself or, created after
\* shutdown() told the others to end, was never told.
MainHeld ==
    \/ pc[Main] = "wedged"
    \/ /\ call[Main].at = "join"
       /\ Stuck(call[Main].who) \/ ~Terminated(call[Main].who)

\* shutdown() comes to its end or hangs for one reason only: its join of the
\* main thread has no bound ("blocking here indefinitely", shutdown.cpp 22) and
\* the main thread is held for ever, by a loop of its own or by its wait on
\* another thread.  Nothing else keeps it: not a parked or polling main thread,
\* not one in a destructor's join, nor any other thread, whose join is bounded.
ShutdownReturns == session = "joining" ~> (session = "ended" \/ []MainHeld)

\* stop() comes back ("it is safe to join synchronously here",
\* execution_control.cpp 98).
StopReturns == session = "stopping" ~> session = "stopped"
==============================================================================
