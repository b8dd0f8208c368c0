----------------------------- MODULE FileObjects -----------------------------
(***************************************************************************)
(* File objects from open to close: the handle table's entries and counts, *)
(* the open protocol under open_mutex_, requests that complete, are        *)
(* cancelled or are swept up by the last close, and the completion port    *)
(* that finished transfers are posted to.                                  *)
(*                                                                         *)
(* A handle is the object it names: handles[o] is how many entries name o. *)
(* A transfer (read, write, resize, flush, directory query) is its request *)
(* and its effects on other threads; the bytes are left out.               *)
(***************************************************************************)
EXTENDS ShareState, Sequences, SequencesExt

CONSTANTS
    Threads,
    Requests,    \* as many as can be under way or queued
    Opens,       \* the arguments of NtCreateFile
    Scenarios,   \* for each, the calls that each thread makes
    TimesOut,    \* the threads that remove packets with a timeout
    MaxHandles,  \* how many handles name one object
    MaxPackets,  \* how many packets are queued
    Guest        \* a packet of NtSetIoCompletion

ASSUME FileAssumption ==
    /\ IsFiniteSet(Threads) /\ None \notin Objects \cup Paths \cup Requests \cup Threads
    /\ Guest \notin Requests
    /\ TimesOut \subseteq Threads
    /\ MaxHandles \in Nat \ {0} /\ MaxPackets \in Nat \ {0}
    /\ \A q \in Opens :
          /\ q.path \in Paths /\ q.access \subseteq Rights /\ q.share \subseteq Rights
          /\ q.kind \in {"any", "file", "directory"}
          /\ q.disposition \in {"open"} \cup Truncating \cup Creating
          /\ q.deleteOnClose => "delete" \in q.access

VARIABLES
    handles,   \* entries of the handle table that name each object
    count,     \* handle_count_
    closed,    \* the objects with closed_ set
    openMutex, \* who holds open_mutex_
    request,   \* IoRequest: its state, its file, and whether requests_ lists it
    assoc,     \* the objects with a completion port
    queue, ready,  \* the port's packets and its ready_ event
    call,      \* the call of each thread: where it is, and what it holds
    does       \* the scenario of this behaviour

objectVars == <<handles, count, closed, assoc>>
portVars == <<queue, ready>>
vars == <<shareVars, objectVars, openMutex, request, portVars, call, does>>

Idle == [at |-> "out", obj |-> None, arg |-> None, req |-> None]
NoRequest == [state |-> "none", file |-> None, listed |-> FALSE]

Init ==
    /\ ShareInit
    /\ handles = [o \in Objects |-> 0] /\ count = [o \in Objects |-> 0]
    /\ closed = {} /\ assoc = {}
    /\ openMutex = None
    /\ request = [r \in Requests |-> NoRequest]
    /\ queue = <<>> /\ ready = FALSE
    /\ call = [t \in Threads |-> Idle]
    /\ does \in Scenarios

-----------------------------------------------------------------------------
Calls(t, what) == call[t].at = "out" /\ what \in does[t]
Goes(t, at) == call' = [call EXCEPT ![t].at = at]
Returns(t) == call' = [call EXCEPT ![t] = Idle]

\* lookup_file(): the call holds the object from here on, whatever is closed.
Lookup(t, o, at, arg) ==
    /\ handles[o] > 0 /\ o \notin closed
    /\ call' = [call EXCEPT ![t] = [Idle EXCEPT !.at = at, !.obj = o, !.arg = arg]]
    /\ UNCHANGED <<shareVars, objectVars, openMutex, request, portVars>>

Unused(o) == handles[o] = 0 /\ \A t \in Threads : call[t].obj # o
Listed(o) == {r \in Requests : request[r].listed /\ request[r].file = o}

Unlock(t) == openMutex' = IF openMutex = t THEN None ELSE openMutex

-----------------------------------------------------------------------------
(* KernelIoManager::open() *)

Open(t, q) ==
    /\ Calls(t, "open") /\ openMutex = None
    /\ q.kind = "file" => node[q.path] # "dir"
    /\ q.kind = "directory" => node[q.path] # "file"
    /\ \E o \in Objects : Unused(o)
    /\ LET o == CHOOSE x \in Objects : Unused(x)
       IN  /\ call' = [call EXCEPT ![t] =
                 [Idle EXCEPT !.at = "reserve", !.obj = o,
                              !.arg = [q |-> q, seen |-> node[q.path]]]]
           /\ closed' = closed \ {o} /\ assoc' = assoc \ {o}
    /\ openMutex' = t
    /\ UNCHANGED <<shareVars, handles, count, request, portVars>>

OpenReserve(t) ==
    LET q == call[t].arg.q
    IN  /\ call[t].at = "reserve"
        /\ \/ Reservable(q) /\ Reserve(call[t].obj, q) /\ Goes(t, "device")
              /\ UNCHANGED openMutex
           \/ ~Reservable(q) /\ UNCHANGED shareVars /\ Returns(t) /\ Unlock(t)
        /\ UNCHANGED <<objectVars, request, portVars>>

\* A directory that stat() saw is not opened again; what stat() saw may be gone.
OpenDevice(t) ==
    LET q == call[t].arg.q
        seen == call[t].arg.seen
        known == seen = "dir" /\ q.disposition \notin {"create"} \cup Truncating
        makes == seen = "none" /\ q.kind = "directory" /\ q.disposition # "open"
                   /\ q.disposition # "overwrite" /\ node[q.path] = "none"
        opens == seen # "dir" /\ q.kind # "directory" /\ CanOpenFile(q)
    IN  /\ call[t].at = "device"
        /\ \/ known /\ UNCHANGED shareVars /\ Goes(t, "insert")
           \/ makes /\ CreateDirectory(q.path) /\ Goes(t, "insert")
           \/ opens /\ OpenFile(call[t].obj, q) /\ Goes(t, "insert")
           \/ ~(known \/ makes \/ opens) /\ UNCHANGED shareVars /\ Goes(t, "unlease")
        /\ UNCHANGED <<objectVars, openMutex, request, portVars>>

\* The handle, and the mark of a delete-on-close, before open_mutex_ is free.
OpenInsert(t) ==
    LET o == call[t].obj
    IN  /\ call[t].at = "insert"
        /\ handles' = [handles EXCEPT ![o] = 1] /\ count' = [count EXCEPT ![o] = 1]
        /\ IF call[t].arg.q.deleteOnClose THEN SetDeletePending(o, TRUE)
                                          ELSE UNCHANGED shareVars
        /\ Returns(t) /\ Unlock(t)
        /\ UNCHANGED <<closed, assoc, request, portVars>>

-----------------------------------------------------------------------------
(* The handle table, and the last close of an object. *)

Duplicate(t, o) ==
    /\ Calls(t, "duplicate") /\ handles[o] \in 1 .. MaxHandles - 1
    /\ handles' = [handles EXCEPT ![o] = @ + 1] /\ count' = [count EXCEPT ![o] = @ + 1]
    /\ UNCHANGED <<shareVars, closed, assoc, openMutex, request, portVars, call>>

\* NtClose: the entry goes under the table's mutex, the count after it.
Close(t, o) ==
    /\ Calls(t, "close") /\ handles[o] > 0
    /\ handles' = [handles EXCEPT ![o] = @ - 1]
    /\ call' = [call EXCEPT ![t] = [Idle EXCEPT !.at = "release", !.obj = o]]
    /\ UNCHANGED <<shareVars, count, closed, assoc, openMutex, request, portVars>>

\* Mutant: the count is looked at once before it is lowered and not after.
ReleaseAnyHandle(t) ==
    LET o == call[t].obj
    IN  /\ call[t].at = "release"
        /\ count' = [count EXCEPT ![o] = @ - 1]
        /\ closed' = closed \cup {o} /\ Goes(t, "cancel")
        /\ UNCHANGED <<shareVars, handles, assoc, openMutex, request, portVars>>
\* release_handle() and, of the last one, the exchange of closed_.
ReleaseHandle(t) ==
    LET o == call[t].obj
    IN  /\ call[t].at = "release"
        /\ count' = [count EXCEPT ![o] = @ - 1]
        /\ \/ count[o] = 1 /\ closed' = closed \cup {o} /\ Goes(t, "cancel")
           \/ count[o] # 1 /\ UNCHANGED closed /\ Returns(t)
        /\ UNCHANGED <<shareVars, handles, assoc, openMutex, request, portVars>>

\* cancel_all_requests() takes the requests, then cancels them one by one.
TakeRequests(t) ==
    LET o == call[t].obj
    IN  /\ call[t].at = "cancel"
        /\ call' = [call EXCEPT ![t].at = "cancelling", ![t].arg = Listed(o)]
        /\ request' = [r \in Requests |->
                         IF r \in Listed(o) THEN [request[r] EXCEPT !.listed = FALSE]
                         ELSE request[r]]
        /\ UNCHANGED <<shareVars, objectVars, openMutex, portVars>>

CancelTaken(t) ==
    /\ call[t].at = "cancelling"
    /\ \E r \in call[t].arg :
          /\ request' = [request EXCEPT ![r].state = "cancelled"]
          /\ call' = [call EXCEPT ![t].arg = @ \ {r}]
    /\ UNCHANGED <<shareVars, objectVars, openMutex, portVars>>

ResetFile(t) ==
    /\ call[t].at = "cancelling" /\ call[t].arg = {}
    /\ CloseFile(call[t].obj)
    /\ Goes(t, "unlease")
    /\ UNCHANGED <<objectVars, openMutex, request, portVars>>

\* Lease::release(), of a close or of an open that failed.
Unlease(t) ==
    LET o == call[t].obj
    IN  /\ call[t].at = "unlease"
        /\ Release(o)
        /\ IF ShouldDelete(o)
             THEN /\ call' = [call EXCEPT ![t].at = "remove", ![t].arg = lease[o].key]
                  /\ UNCHANGED openMutex
             ELSE Returns(t) /\ Unlock(t)
        /\ UNCHANGED <<objectVars, request, portVars>>

RemoveFile(t) ==
    /\ call[t].at = "remove"
    /\ RemoveNode(call[t].arg)
    /\ Returns(t) /\ Unlock(t)
    /\ UNCHANGED <<objectVars, request, portVars>>

-----------------------------------------------------------------------------
(* NtSetInformationFile: disposition, rename, completion port. *)

Dispose(t, o) ==
    /\ Calls(t, "dispose") /\ "delete" \in lease[o].access
    /\ \E value \in BOOLEAN : Lookup(t, o, "mark", value)

Mark(t) ==
    /\ call[t].at = "mark"
    /\ SetDeletePending(call[t].obj, call[t].arg)
    /\ Returns(t)
    /\ UNCHANGED <<objectVars, openMutex, request, portVars>>

Rename(t, o) ==
    /\ Calls(t, "rename") /\ "delete" \in lease[o].access
    /\ \E target \in Paths \ {lease[o].key}, replace \in BOOLEAN :
          Lookup(t, o, "rename", [path |-> target, replace |-> replace])

\* rename_to() under open_mutex_ and io_mutex_.
Move(t) ==
    LET o == call[t].obj
        to == call[t].arg
    IN  /\ call[t].at = "rename" /\ openMutex = None
        /\ IF o \notin closed /\ CanRename(o, to.path, to.replace)
             THEN RenameTo(o, to.path) ELSE UNCHANGED shareVars
        /\ Returns(t)
        /\ UNCHANGED <<objectVars, openMutex, request, portVars>>

Associate(t, o) ==
    /\ Calls(t, "associate") /\ handles[o] > 0 /\ o \notin closed
    /\ assoc' = assoc \cup {o}
    /\ UNCHANGED <<shareVars, handles, count, closed, openMutex, request, portVars, call>>

-----------------------------------------------------------------------------
(* Requests.  A transfer has one of its own; begin_request() leaves one to  *)
(* be completed or cancelled by others.                                     *)

Transfer(t, o) == Calls(t, "transfer") /\ Lookup(t, o, "begin", "finish")
BeginAsync(t, o) == Calls(t, "request") /\ Lookup(t, o, "begin", "wait")

\* The requests that cancel_all_requests() and cancel_request() have taken.
Taken(t) == IF call[t].at \in {"cancelling", "revoking"} THEN call[t].arg ELSE {}

UnusedRequest(r) ==
    /\ \A t \in Threads : call[t].req # r /\ r \notin Taken(t)
    /\ r \notin ToSet(queue)

\* Mutant: begin_request() does not look at closed_ under request_mutex_.
BeginUnchecked(t) ==
    LET r == CHOOSE x \in Requests : UnusedRequest(x)
    IN  /\ call[t].at = "begin" /\ \E x \in Requests : UnusedRequest(x)
        /\ request' = [request EXCEPT ![r] = [state |-> "pending", file |-> call[t].obj,
                                              listed |-> TRUE]]
        /\ call' = [call EXCEPT ![t].at = call[t].arg, ![t].req = r]
        /\ UNCHANGED <<shareVars, objectVars, openMutex, portVars>>
\* begin_request(); of a closed object the request is cancelled at once.
BeginRequest(t) ==
    LET r == CHOOSE x \in Requests : UnusedRequest(x)
        shut == call[t].obj \in closed
    IN  /\ call[t].at = "begin" /\ \E x \in Requests : UnusedRequest(x)
        /\ request' = [request EXCEPT ![r] =
                         [state |-> IF shut THEN "cancelled" ELSE "pending",
                          file |-> call[t].obj, listed |-> ~shut]]
        /\ call' = [call EXCEPT ![t].at = IF shut /\ call[t].arg = "finish" THEN "report"
                                         ELSE call[t].arg,
                                ![t].req = r]
        /\ UNCHANGED <<shareVars, objectVars, openMutex, portVars>>

Settle(r, state) == request' = [request EXCEPT ![r].state = state, ![r].listed = FALSE]

\* finish_synchronous(): whoever takes the request off requests_ settles it.
Finish(t) ==
    LET r == call[t].req
    IN  /\ call[t].at = "finish"
        /\ \/ request[r].listed /\ Settle(r, "completed") /\ Goes(t, "post")
           \/ ~request[r].listed /\ UNCHANGED request /\ Goes(t, "report")
        /\ UNCHANGED <<shareVars, objectVars, openMutex, portVars>>

\* IoCompletionPort::post()
Enqueue(packet) ==
    /\ Len(queue) < MaxPackets
    /\ queue' = Append(queue, packet) /\ ready' = TRUE

Post(t) ==
    /\ call[t].at = "post"
    /\ IF call[t].obj \in assoc THEN Enqueue(call[t].req) ELSE UNCHANGED portVars
    /\ Goes(t, "report")
    /\ UNCHANGED <<shareVars, objectVars, openMutex, request>>

\* finish_io_status() sets the caller's event; the data and the status block
\* reach guest memory after that.
Report(t) ==
    /\ call[t].at = "report" /\ Goes(t, "store")
    /\ UNCHANGED <<shareVars, objectVars, openMutex, request, portVars>>

Store(t) ==
    /\ call[t].at = "store" /\ Returns(t)
    /\ UNCHANGED <<shareVars, objectVars, openMutex, request, portVars>>

\* IoRequest::wait()
WaitRequest(t) ==
    /\ call[t].at = "wait" /\ request[call[t].req].state # "pending"
    /\ Returns(t)
    /\ UNCHANGED <<shareVars, objectVars, openMutex, request, portVars>>

\* complete_request() and cancel_request() of a request somebody waits for.
Decide(t, o) == Calls(t, "decide") /\ \E what \in {"complete", "revoke"} : Lookup(t, o, what, None)

Awaited(o) == {r \in Listed(o) : \E t \in Threads : call[t].req = r /\ call[t].at = "wait"}

CompleteRequest(t) ==
    /\ call[t].at = "complete"
    /\ IF Awaited(call[t].obj) = {} THEN UNCHANGED request
       ELSE \E r \in Awaited(call[t].obj) : Settle(r, "completed")
    /\ Returns(t)
    /\ UNCHANGED <<shareVars, objectVars, openMutex, portVars>>

CancelRequest(t) ==
    /\ call[t].at = "revoke"
    /\ \/ /\ Awaited(call[t].obj) = {} /\ UNCHANGED request /\ Returns(t)
       \/ \E r \in Awaited(call[t].obj) :
             /\ request' = [request EXCEPT ![r].listed = FALSE]
             /\ call' = [call EXCEPT ![t].at = "revoking", ![t].arg = {r}]
    /\ UNCHANGED <<shareVars, objectVars, openMutex, portVars>>

Revoke(t) ==
    /\ call[t].at = "revoking"
    /\ \E r \in call[t].arg : request' = [request EXCEPT ![r].state = "cancelled"]
    /\ Returns(t)
    /\ UNCHANGED <<shareVars, objectVars, openMutex, portVars>>

-----------------------------------------------------------------------------
(* The completion port. *)

\* NtSetIoCompletion
SetIoCompletion(t) ==
    /\ Calls(t, "packet") /\ Enqueue(Guest)
    /\ UNCHANGED <<shareVars, objectVars, openMutex, request, call>>

\* NtRemoveIoCompletion: try_remove(), and a wait for ready_ when it fails.
RemoveIoCompletion(t) ==
    /\ Calls(t, "remove") /\ Goes(t, "try")
    /\ UNCHANGED <<shareVars, objectVars, openMutex, request, portVars>>

\* Mutant: ready_ is reset by every removal.
TryRemoveResetting(t) ==
    /\ call[t].at = "try"
    /\ \/ /\ queue # <<>>
          /\ queue' = Tail(queue) /\ ready' = FALSE /\ Returns(t)
       \/ queue = <<>> /\ UNCHANGED portVars /\ Goes(t, "await")
    /\ UNCHANGED <<shareVars, objectVars, openMutex, request>>
\* try_remove()
TryRemove(t) ==
    /\ call[t].at = "try"
    /\ \/ /\ queue # <<>>
          /\ queue' = Tail(queue) /\ ready' = (Tail(queue) # <<>>) /\ Returns(t)
       \/ queue = <<>> /\ UNCHANGED portVars /\ Goes(t, "await")
    /\ UNCHANGED <<shareVars, objectVars, openMutex, request>>

WakeRemover(t) ==
    /\ call[t].at = "await" /\ ready /\ Goes(t, "try")
    /\ UNCHANGED <<shareVars, objectVars, openMutex, request, portVars>>

\* The deadline, or whatever else ends the wait.
TimeOut(t) ==
    /\ call[t].at = "await" /\ t \in TimesOut /\ Returns(t)
    /\ UNCHANGED <<shareVars, objectVars, openMutex, request, portVars>>

-----------------------------------------------------------------------------
\* The steps of a call under way.
GoOn(t) ==
    \/ OpenReserve(t) \/ OpenDevice(t) \/ OpenInsert(t)
    \/ ReleaseHandle(t) \/ TakeRequests(t) \/ CancelTaken(t) \/ ResetFile(t)
    \/ Unlease(t) \/ RemoveFile(t) \/ Mark(t) \/ Move(t)
    \/ BeginRequest(t) \/ Finish(t) \/ Post(t) \/ Report(t) \/ Store(t)
    \/ WaitRequest(t) \/ CompleteRequest(t) \/ CancelRequest(t) \/ Revoke(t)
    \/ TryRemove(t) \/ WakeRemover(t)

Next ==
    /\ \E t \in Threads :
          \/ \E q \in Opens : Open(t, q)
          \/ \E o \in Objects :
                \/ Duplicate(t, o) \/ Close(t, o) \/ Dispose(t, o) \/ Rename(t, o)
                \/ Associate(t, o) \/ Transfer(t, o) \/ BeginAsync(t, o) \/ Decide(t, o)
          \/ SetIoCompletion(t) \/ RemoveIoCompletion(t) \/ TimeOut(t)
          \/ GoOn(t)
    /\ UNCHANGED does

Spec == Init /\ [][Next]_vars
FairSpec == Spec /\ \A t \in Threads : WF_vars(GoOn(t) /\ UNCHANGED does)
-----------------------------------------------------------------------------
(* Properties. *)

\* HandleTable::close() takes the entry off under its mutex and lowers
\* handle_count_ after it, while duplicates are made: whatever the order, an
\* object that some handle still names has not been closed and still has its
\* lease.
HandlesNameOpenFiles ==
    \A o \in Objects :
        handles[o] > 0 => o \notin closed /\ lease[o].key # None

\* reserve() and rename(): however paths are opened, renamed, replaced and
\* closed, any two opens of a path allow each other's access.
OpensAreCompatible ==
    \A o, x \in Objects :
        o # x /\ lease[o].key = lease[x].key /\ lease[o].key # None
            => Shared(lease[o], lease[x])

\* set_delete_pending() and release(): a deletion that was asked for and not
\* taken back is not forgotten, whichever open closes first, until the last
\* close has gone to the device with it.
DeletesAreCarriedOut ==
    \A p \in doomed :
        \/ p \in sticky \/ Pending(p) # {}
        \/ \E t \in Threads : call[t].at = "remove" /\ call[t].arg = p

\* begin_request() against on_last_handle_closed(): no request of a file that
\* has been closed stays pending, so nobody waits for it for ever.
CloseSettlesRequests ==
    \A r \in Requests :
        (request[r].state = "pending" /\ request[r].file \in closed)
            ~> request[r].state # "pending"

\* The ready_ event of a port has no lost wakeup: a thread that waits in
\* NtRemoveIoCompletion while there are packets wakes up or they are all taken.
RemoversWake ==
    \A t \in Threads :
        (call[t].at = "await" /\ queue # <<>>) ~> (call[t].at # "await" \/ queue = <<>>)

\* "test_delete_pending_waits_for_last_open_object": a file is deleted once
\* nobody has it open, so a file that is open is there.
OpenFilesExist ==
    \A o \in Objects : handles[o] > 0 /\ o \notin closed => node[lease[o].key] # "none"

\* "The IOSB still contains the completed operation status": who takes a
\* transfer's packet finds its data and its status block in guest memory.
PacketsFollowData ==
    \A t \in Threads :
        call[t].at \in {"report", "store"} => call[t].req \notin ToSet(queue)

=============================================================================
