------------------------------ MODULE FileProofs ------------------------------
(***************************************************************************)
(* Theorems about FileObjects, for every number of paths, objects, threads *)
(* and requests: what handles name is open, opens of a path go together,   *)
(* and no deletion that was asked for is forgotten.                        *)
(***************************************************************************)
EXTENDS FileObjects, FiniteSetTheorems, TLAPS

Labels == {"out", "reserve", "device", "insert", "release", "cancel", "cancelling", "unlease",
           "remove", "mark", "rename", "begin", "finish", "wait", "post", "report", "store",
           "complete", "revoke", "revoking", "try", "await"}

OpenArgument == [q : Opens, seen : {"none", "file", "dir"}]
RenameArgument == [path : Paths, replace : BOOLEAN]
Arguments == OpenArgument \cup RenameArgument \cup BOOLEAN \cup Paths \cup {"finish", "wait"}
               \cup (SUBSET Requests) \cup {None}

CallRecord == [at : Labels, obj : Objects \cup {None}, arg : Arguments, req : Requests \cup {None}]
LeaseRecord ==
    [key : Paths \cup {None}, access : SUBSET Rights, share : SUBSET Rights, pending : BOOLEAN]

\* What a call holds at each of its labels.
CallFits(c) ==
    /\ c.at \in {"reserve", "device", "insert"} => c.arg \in OpenArgument
    /\ c.at = "remove" => c.arg \in Paths
    /\ c.at = "rename" => c.arg \in RenameArgument
    /\ c.at = "mark" => c.arg \in BOOLEAN
    /\ c.at = "begin" => c.arg \in {"finish", "wait"}
    /\ c.at \in {"cancelling", "revoking"} => c.arg \in SUBSET Requests
    /\ c.at \notin {"out", "try", "await"} => c.obj \in Objects

CallType == call \in [Threads -> CallRecord] /\ \A t \in Threads : CallFits(call[t])

ShareType ==
    /\ node \in [Paths -> {"none", "file", "dir"}]
    /\ lease \in [Objects -> LeaseRecord]
    /\ sticky \subseteq Paths /\ doomed \subseteq Paths

ObjectType ==
    /\ handles \in [Objects -> Nat] /\ count \in [Objects -> Nat]
    /\ closed \subseteq Objects

-----------------------------------------------------------------------------
\* An object belongs to the call that opens or closes it.
Opening == {"reserve", "device", "insert"}
Closing == {"cancel", "cancelling", "unlease", "remove"}
Owns(t, o) == call[t].obj = o /\ call[t].at \in Opening \cup Closing

\* The calls that have taken an entry off the table and not yet lowered the
\* count.
Releasing(o) == {t \in Threads : call[t].at = "release" /\ call[t].obj = o}

CountsAreExact == \A o \in Objects : count[o] = handles[o] + Cardinality(Releasing(o))

\* One call opens or closes an object, and then no handle names it.
OwnersAreAlone ==
    \A t \in Threads, o \in Objects :
        Owns(t, o) => count[o] = 0 /\ \A u \in Threads : Owns(u, o) => u = t

\* An object has a lease from its reservation to its release, and is not closed
\* before its last handle has gone.
LeasesLast ==
    /\ \A o \in Objects : count[o] > 0 => o \notin closed /\ lease[o].key # None
    /\ \A t \in Threads :
          /\ call[t].at \in Opening => call[t].obj \notin closed
          /\ call[t].at \in {"device", "insert", "cancel", "cancelling", "unlease"} =>
                lease[call[t].obj].key # None
    /\ \A o \in Objects :
          lease[o].key # None =>
             \/ count[o] > 0
             \/ \E t \in Threads :
                   call[t].obj = o /\ call[t].at \in {"device", "insert", "cancel", "cancelling", "unlease"}

ObjectInv == ObjectType /\ CountsAreExact /\ OwnersAreAlone /\ LeasesLast

FileInv == CallType /\ ShareType /\ ObjectInv /\ OpensAreCompatible /\ DeletesAreCarriedOut

-----------------------------------------------------------------------------
(* The calls.                                                              *)

\* The call of t is now at a label, with an object and an argument, and
\* nothing else of the calls changes.
Becomes(t, at, o, arg) ==
    /\ call' \in [Threads -> CallRecord]
    /\ call'[t].at = at /\ call'[t].obj = o /\ call'[t].arg = arg
    /\ \A u \in Threads : u # t => call'[u] = call[u]

LEMMA ArgumentsAre ==
  /\ \A x : x \in OpenArgument \/ x \in RenameArgument \/ x \in BOOLEAN => x \in Arguments
  /\ \A x : x \in Paths \/ x \in {"finish", "wait"} \/ x \in SUBSET Requests => x \in Arguments
  /\ None \in Arguments
  <1>1. /\ OpenArgument \subseteq Arguments /\ RenameArgument \subseteq Arguments /\ BOOLEAN \subseteq Arguments
        /\ Paths \subseteq Arguments /\ {"finish", "wait"} \subseteq Arguments
        /\ SUBSET Requests \subseteq Arguments /\ None \in Arguments
    BY DEF Arguments
  <1> QED
    BY <1>1, Zenon

LEMMA BecomesFits ==
  ASSUME CallType, NEW t \in Threads, NEW at, NEW o, NEW arg, Becomes(t, at, o, arg),
         /\ at \in Opening => arg \in OpenArgument
         /\ at = "remove" => arg \in Paths
         /\ at = "rename" => arg \in RenameArgument
         /\ at = "mark" => arg \in BOOLEAN
         /\ at = "begin" => arg \in {"finish", "wait"}
         /\ at \in {"cancelling", "revoking"} => arg \in SUBSET Requests
         /\ at \notin {"out", "try", "await"} => o \in Objects
  PROVE  CallType'
  <1>1. CallFits(call'[t])
    BY DEF CallFits, Becomes, Opening
  <1>2. \A u \in Threads : u # t => CallFits(call'[u])
    BY DEF CallType, Becomes
  <1>3. \A u \in Threads : CallFits(call'[u])
    BY <1>1, <1>2
  <1> QED
    BY <1>3 DEF CallType, Becomes

LEMMA IdleFits == Idle \in CallRecord /\ Idle.at = "out" /\ Idle.obj = None /\ Idle.arg = None
  BY ArgumentsAre DEF Idle, CallRecord, Labels

LEMMA ReturnsBecomes ==
  ASSUME CallType, NEW t \in Threads, Returns(t)
  PROVE  Becomes(t, "out", None, None)
  BY IdleFits DEF Returns, Becomes, CallType

LEMMA CallIs ==
  ASSUME CallType, NEW t \in Threads
  PROVE  /\ call \in [Threads -> CallRecord]
         /\ call[t] \in CallRecord /\ CallFits(call[t])
         /\ call[t].at \in Labels /\ call[t].obj \in Objects \cup {None}
         /\ call[t].arg \in Arguments /\ call[t].req \in Requests \cup {None}
  BY DEF CallType, CallRecord

LEMMA FreshBecomes ==
  ASSUME CallType, NEW t \in Threads, NEW at \in Labels, NEW o \in Objects, NEW arg \in Arguments,
         call' = [call EXCEPT ![t] = [Idle EXCEPT !.at = at, !.obj = o, !.arg = arg]]
  PROVE  Becomes(t, at, o, arg)
  <1> DEFINE c == [Idle EXCEPT !.at = at, !.obj = o, !.arg = arg]
  <1>1. c \in CallRecord
    BY IdleFits DEF CallRecord
  <1>2. c.at = at /\ c.obj = o /\ c.arg = arg
    BY IdleFits DEF CallRecord
  <1> HIDE DEF c
  <1>3. call' = [call EXCEPT ![t] = c]
    BY DEF c
  <1> QED
    BY <1>1, <1>2, <1>3 DEF Becomes, CallType

LEMMA GoesBecomes ==
  ASSUME CallType, NEW t \in Threads, NEW at \in Labels, Goes(t, at)
  PROVE  Becomes(t, at, call[t].obj, call[t].arg)
  BY CallIs DEF Goes, Becomes, CallRecord

LEMMA ArgBecomes ==
  ASSUME CallType, NEW t \in Threads, NEW at \in Labels, NEW arg \in Arguments,
         call' = [call EXCEPT ![t].at = at, ![t].arg = arg]
  PROVE  Becomes(t, at, call[t].obj, arg)
  BY CallIs DEF Becomes, CallRecord

LEMMA OnlyArgBecomes ==
  ASSUME CallType, NEW t \in Threads, NEW arg \in Arguments,
         call' = [call EXCEPT ![t].arg = arg]
  PROVE  Becomes(t, call[t].at, call[t].obj, arg)
  BY CallIs DEF Becomes, CallRecord

LEMMA RequestBecomes ==
  ASSUME CallType, NEW t \in Threads, NEW at \in Labels, NEW r \in Requests,
         call' = [call EXCEPT ![t].at = at, ![t].req = r]
  PROVE  Becomes(t, at, call[t].obj, call[t].arg)
  BY CallIs DEF Becomes, CallRecord

LEMMA CloseBecomes ==
  ASSUME CallType, NEW t \in Threads, NEW o \in Objects,
         call' = [call EXCEPT ![t] = [Idle EXCEPT !.at = "release", !.obj = o]]
  PROVE  Becomes(t, "release", o, None)
  <1> DEFINE c == [Idle EXCEPT !.at = "release", !.obj = o]
  <1>1. c \in CallRecord
    BY IdleFits DEF CallRecord, Labels
  <1>2. c.at = "release" /\ c.obj = o /\ c.arg = None
    BY IdleFits DEF CallRecord
  <1> HIDE DEF c
  <1>3. call' = [call EXCEPT ![t] = c]
    BY DEF c
  <1> QED
    BY <1>1, <1>2, <1>3 DEF Becomes, CallType

\* The steps that neither take an object up nor let it go: the call goes on in
\* the same role, and handles, counts and closed_ stand.
Plain == Labels \ (Opening \cup Closing \cup {"release"})

QuietMove(t) ==
    /\ \A u \in Threads : u # t => call'[u] = call[u]
    /\ \/ call[t].at \in Plain /\ call'[t].at \in Plain
       \/ /\ call'[t].obj = call[t].obj
          /\ \/ call[t].at = "device" /\ call'[t].at \in {"insert", "unlease"}
             \/ call[t].at \in {"cancel", "cancelling"} /\ call'[t].at \in {"cancelling", "unlease"}
    /\ UNCHANGED <<handles, count, closed>>

Asks(t) ==
    \/ \E o \in Objects : Dispose(t, o) \/ Rename(t, o) \/ Transfer(t, o) \/ BeginAsync(t, o) \/ Decide(t, o)
    \/ \E o \in Objects : Associate(t, o)
    \/ SetIoCompletion(t) \/ RemoveIoCompletion(t) \/ TimeOut(t)

GoesOnQuietly(t) ==
    \/ TakeRequests(t) \/ CancelTaken(t)
    \/ BeginRequest(t) \/ Finish(t) \/ Post(t) \/ Report(t) \/ Store(t)
    \/ WaitRequest(t) \/ CompleteRequest(t) \/ CancelRequest(t) \/ Revoke(t)
    \/ TryRemove(t) \/ WakeRemover(t)

LEMMA LookupQuiet ==
  ASSUME CallType, NEW t \in Threads, call[t].at = "out", NEW o \in Objects, NEW at \in Plain, NEW arg \in Arguments,
         at = "rename" => arg \in RenameArgument, at = "mark" => arg \in BOOLEAN,
         at = "begin" => arg \in {"finish", "wait"}, at # "revoking", Lookup(t, o, at, arg)
  PROVE  CallType' /\ QuietMove(t) /\ UNCHANGED shareVars
  <1>1. Becomes(t, at, o, arg)
    BY FreshBecomes DEF Lookup, Plain
  <1>2. CallType'
    BY <1>1, BecomesFits DEF Plain, Opening, Closing
  <1>3. UNCHANGED <<handles, count, closed, shareVars>>
    BY DEF Lookup, objectVars
  <1> QED
    BY <1>1, <1>2, <1>3 DEF Becomes, QuietMove, Plain, Labels, Opening, Closing

LEMMA AsksQuiet ==
  ASSUME CallType, ShareType, NEW t \in Threads, Asks(t)
  PROVE  CallType' /\ QuietMove(t) /\ UNCHANGED shareVars
  <1> USE DEF Calls
  <1>0. "mark" \in Plain /\ "rename" \in Plain /\ "begin" \in Plain /\ "complete" \in Plain /\ "revoke" \in Plain
        /\ "out" \in Plain /\ "try" \in Plain /\ "await" \in Plain /\ Plain \subseteq Labels
    BY DEF Plain, Labels, Opening, Closing
  <1>1. ASSUME NEW o \in Objects, Dispose(t, o) PROVE CallType' /\ QuietMove(t) /\ UNCHANGED shareVars
    <2>1. PICK value \in BOOLEAN : Lookup(t, o, "mark", value)
      BY <1>1 DEF Dispose
    <2>2. value \in Arguments /\ call[t].at = "out"
      BY <1>1, ArgumentsAre DEF Dispose
    <2> QED
      BY <1>0, <2>1, <2>2, LookupQuiet
  <1>2. ASSUME NEW o \in Objects, Rename(t, o) PROVE CallType' /\ QuietMove(t) /\ UNCHANGED shareVars
    <2>1. PICK target \in Paths, replace \in BOOLEAN :
            Lookup(t, o, "rename", [path |-> target, replace |-> replace])
      BY <1>2 DEF Rename
    <2>2. [path |-> target, replace |-> replace] \in RenameArgument /\ call[t].at = "out"
      BY <1>2 DEF Rename, RenameArgument
    <2>3. [path |-> target, replace |-> replace] \in Arguments
      BY <2>2, ArgumentsAre
    <2> QED
      BY <1>0, <2>1, <2>2, <2>3, LookupQuiet
  <1>3. ASSUME NEW o \in Objects, Transfer(t, o) \/ BeginAsync(t, o) PROVE CallType' /\ QuietMove(t) /\ UNCHANGED shareVars
    <2>1. PICK arg \in {"finish", "wait"} : Lookup(t, o, "begin", arg)
      BY <1>3 DEF Transfer, BeginAsync
    <2>2. arg \in Arguments /\ call[t].at = "out"
      BY <1>3, ArgumentsAre DEF Transfer, BeginAsync
    <2> QED
      BY <1>0, <2>1, <2>2, LookupQuiet
  <1>4. ASSUME NEW o \in Objects, Decide(t, o) PROVE CallType' /\ QuietMove(t) /\ UNCHANGED shareVars
    <2>1. PICK what \in {"complete", "revoke"} : Lookup(t, o, what, None)
      BY <1>4 DEF Decide
    <2>2. None \in Arguments /\ call[t].at = "out" /\ what \in Plain
      BY <1>0, <1>4, ArgumentsAre DEF Decide
    <2> QED
      BY <2>1, <2>2, LookupQuiet
  <1>5. CASE (\E o \in Objects : Associate(t, o)) \/ SetIoCompletion(t)
    <2>1. /\ call' = call /\ call[t].at = "out" /\ UNCHANGED <<handles, count, closed>> /\ UNCHANGED shareVars
      BY <1>5 DEF Associate, SetIoCompletion, objectVars
    <2> QED
      BY <1>0, <2>1 DEF CallType, QuietMove
  <1>6. CASE RemoveIoCompletion(t)
    <2>1. /\ Goes(t, "try") /\ call[t].at = "out" /\ UNCHANGED <<handles, count, closed>> /\ UNCHANGED shareVars
      BY <1>6 DEF RemoveIoCompletion, objectVars
    <2>2. Becomes(t, "try", call[t].obj, call[t].arg)
      BY <1>0, <2>1, GoesBecomes
    <2>3. CallType'
      BY <2>2, BecomesFits DEF Opening
    <2> QED
      BY <1>0, <2>1, <2>2, <2>3 DEF Becomes, QuietMove
  <1>7. CASE TimeOut(t)
    <2>1. /\ Returns(t) /\ call[t].at = "await" /\ UNCHANGED <<handles, count, closed>> /\ UNCHANGED shareVars
      BY <1>7 DEF TimeOut, objectVars
    <2>2. Becomes(t, "out", None, None)
      BY <2>1, ReturnsBecomes
    <2>3. CallType'
      BY <2>2, BecomesFits DEF Opening
    <2> QED
      BY <1>0, <2>1, <2>2, <2>3 DEF Becomes, QuietMove
  <1> QED
    BY <1>1, <1>2, <1>3, <1>4, <1>5, <1>6, <1>7 DEF Asks

LEMMA ReturnsQuiet ==
  ASSUME CallType, NEW t \in Threads, call[t].at \in Plain, Returns(t), UNCHANGED <<handles, count, closed>>
  PROVE  CallType' /\ QuietMove(t)
  <1>1. Becomes(t, "out", None, None)
    BY ReturnsBecomes
  <1>2. CallType'
    BY <1>1, BecomesFits DEF Opening
  <1>3. "out" \in Plain
    BY DEF Plain, Labels, Opening, Closing
  <1> QED
    BY <1>1, <1>2, <1>3 DEF Becomes, QuietMove

LEMMA GoesQuiet ==
  ASSUME CallType, NEW t \in Threads, call[t].at \in Plain, NEW at \in {"post", "report", "store", "try", "await"},
         call[t].at \notin {"out", "try", "await"} \/ at \in {"try", "await"},
         Goes(t, at), UNCHANGED <<handles, count, closed>>
  PROVE  CallType' /\ QuietMove(t)
  <1>0. at \in Labels /\ at \in Plain
    BY DEF Plain, Labels, Opening, Closing
  <1>1. Becomes(t, at, call[t].obj, call[t].arg)
    BY <1>0, GoesBecomes
  <1>2. call[t].at \notin {"out", "try", "await"} => call[t].obj \in Objects
    BY CallIs DEF CallFits
  <1>3. CallType'
    BY <1>1, <1>2, BecomesFits DEF Opening
  <1> QED
    BY <1>0, <1>1, <1>3 DEF Becomes, QuietMove

LEMMA GoesOnQuiet ==
  ASSUME CallType, NEW t \in Threads, GoesOnQuietly(t)
  PROVE  CallType' /\ QuietMove(t) /\ UNCHANGED shareVars
  <1>0. /\ UNCHANGED <<handles, count, closed>> /\ UNCHANGED shareVars
    BY DEF GoesOnQuietly, TakeRequests, CancelTaken, BeginRequest, Finish, Post, Report, Store, WaitRequest,
           CompleteRequest, CancelRequest, Revoke, TryRemove, WakeRemover, objectVars
  <1>01. {"begin", "finish", "post", "report", "store", "wait", "complete", "revoke", "revoking", "try", "await"} \subseteq Plain
         /\ Plain \subseteq Labels
    BY DEF Plain, Labels, Opening, Closing
  <1>02. CallFits(call[t])
    BY CallIs
  <1>1. CASE TakeRequests(t)
    <2>1. call[t].at = "cancel" /\ call' = [call EXCEPT ![t].at = "cancelling", ![t].arg = Listed(call[t].obj)]
      BY <1>1 DEF TakeRequests
    <2>2. Listed(call[t].obj) \in SUBSET Requests
      BY DEF Listed
    <2>3. Listed(call[t].obj) \in Arguments
      BY <2>2, ArgumentsAre
    <2>4. Becomes(t, "cancelling", call[t].obj, Listed(call[t].obj))
      BY <2>1, <2>3, ArgBecomes DEF Labels
    <2>5. call[t].obj \in Objects
      BY <1>02, <2>1 DEF CallFits
    <2>6. CallType'
      BY <2>2, <2>4, <2>5, BecomesFits DEF Opening
    <2> QED
      BY <1>0, <2>1, <2>4, <2>6 DEF Becomes, QuietMove
  <1>2. CASE CancelTaken(t)
    <2>1. PICK r : call[t].at = "cancelling" /\ call' = [call EXCEPT ![t].arg = @ \ {r}]
      BY <1>2 DEF CancelTaken
    <2>2. call[t].arg \in SUBSET Requests /\ call[t].obj \in Objects
      BY <1>02, <2>1 DEF CallFits
    <2>3. call[t].arg \ {r} \in SUBSET Requests
      BY <2>2
    <2>4. call[t].arg \ {r} \in Arguments
      BY <2>3, ArgumentsAre
    <2>5. call' = [call EXCEPT ![t].arg = call[t].arg \ {r}]
      BY <2>1, CallIs
    <2>6. Becomes(t, "cancelling", call[t].obj, call[t].arg \ {r})
      BY <2>1, <2>4, <2>5, OnlyArgBecomes
    <2>7. CallType'
      BY <2>2, <2>3, <2>6, BecomesFits DEF Opening
    <2> QED
      BY <1>0, <2>1, <2>6, <2>7 DEF Becomes, QuietMove
  <1>3. CASE BeginRequest(t)
    <2>1. PICK r \in Requests, at \in {"report", "finish", "wait"} :
            call[t].at = "begin" /\ call' = [call EXCEPT ![t].at = at, ![t].req = r]
      <3> DEFINE r == CHOOSE x \in Requests : UnusedRequest(x)
                 at == IF call[t].obj \in closed /\ call[t].arg = "finish" THEN "report" ELSE call[t].arg
      <3>1. r \in Requests /\ call[t].at = "begin"
        BY <1>3 DEF BeginRequest
      <3>2. at \in {"report", "finish", "wait"}
        BY <1>02, <3>1 DEF CallFits
      <3>3. call' = [call EXCEPT ![t].at = at, ![t].req = r]
        BY <1>3 DEF BeginRequest
      <3> HIDE DEF r, at
      <3> QED
        BY <3>1, <3>2, <3>3
    <2>2. Becomes(t, at, call[t].obj, call[t].arg)
      BY <2>1, RequestBecomes DEF Labels
    <2>3. call[t].obj \in Objects
      BY <1>02, <2>1 DEF CallFits
    <2>4. CallType'
      BY <2>2, <2>3, BecomesFits DEF Opening
    <2> QED
      BY <1>0, <1>01, <2>1, <2>2, <2>4 DEF Becomes, QuietMove
  <1>4. CASE Finish(t)
    BY <1>0, <1>01, <1>4, GoesQuiet DEF Finish
  <1>5. CASE Post(t)
    BY <1>0, <1>01, <1>5, GoesQuiet DEF Post
  <1>6. CASE Report(t)
    BY <1>0, <1>01, <1>6, GoesQuiet DEF Report
  <1>7. CASE Store(t)
    BY <1>0, <1>01, <1>7, ReturnsQuiet DEF Store
  <1>8. CASE WaitRequest(t)
    BY <1>0, <1>01, <1>8, ReturnsQuiet DEF WaitRequest
  <1>9. CASE CompleteRequest(t)
    BY <1>0, <1>01, <1>9, ReturnsQuiet DEF CompleteRequest
  <1>10. CASE CancelRequest(t)
    <2>1. CASE call[t].at = "revoke" /\ Returns(t)
      BY <1>0, <1>01, <2>1, ReturnsQuiet
    <2>2. ASSUME NEW r \in Requests, call[t].at = "revoke", call' = [call EXCEPT ![t].at = "revoking", ![t].arg = {r}]
          PROVE  CallType' /\ QuietMove(t)
      <3>1. {r} \in SUBSET Requests
        OBVIOUS
      <3>2. {r} \in Arguments
        BY <3>1, ArgumentsAre
      <3>3. Becomes(t, "revoking", call[t].obj, {r})
        BY <2>2, <3>2, ArgBecomes DEF Labels
      <3>4. call[t].obj \in Objects
        BY <1>02, <2>2 DEF CallFits
      <3>5. CallType'
        BY <3>1, <3>3, <3>4, BecomesFits DEF Opening
      <3> QED
        BY <1>0, <1>01, <2>2, <3>3, <3>5 DEF Becomes, QuietMove
    <2>3. \A r \in Awaited(call[t].obj) : r \in Requests
      BY DEF Awaited, Listed
    <2> QED
      BY <1>0, <1>10, <2>1, <2>2, <2>3 DEF CancelRequest
  <1>11. CASE Revoke(t)
    BY <1>0, <1>01, <1>11, ReturnsQuiet DEF Revoke
  <1>12. CASE TryRemove(t)
    BY <1>0, <1>01, <1>12, ReturnsQuiet, GoesQuiet DEF TryRemove
  <1>13. CASE WakeRemover(t)
    BY <1>0, <1>01, <1>13, GoesQuiet DEF WakeRemover
  <1> QED
    BY <1>0, <1>1, <1>2, <1>3, <1>4, <1>5, <1>6, <1>7, <1>8, <1>9, <1>10, <1>11, <1>12, <1>13 DEF GoesOnQuietly


-----------------------------------------------------------------------------
(* What the quiet steps keep.                                              *)

\* Who has gone to the device with a deletion stays until it is done.
RemoversStay == \A u \in Threads : call[u].at = "remove" => call'[u] = call[u]

KeysStand == \A o \in Objects : lease'[o].key = None <=> lease[o].key = None

LEMMA QuietRemovers ==
  ASSUME NEW t \in Threads, QuietMove(t)
  PROVE  RemoversStay
  <1>1. call[t].at # "remove"
    BY DEF QuietMove, Plain, Opening, Closing
  <1> QED
    BY <1>1 DEF QuietMove, RemoversStay

LEMMA QuietKeeps ==
  ASSUME CallType, CallType', ObjectInv, NEW t \in Threads, QuietMove(t), KeysStand
  PROVE  ObjectInv'
  <1> USE DEF QuietMove
  <1>1. /\ call[t].at # "release" /\ call'[t].at # "release" /\ call'[t].at # "reserve"
        /\ call'[t].at \in Opening => call[t].at \in Opening
        /\ call'[t].at \in Opening \cup Closing <=> call[t].at \in Opening \cup Closing
        /\ call'[t].at \in Opening \cup Closing => call'[t].obj = call[t].obj
        /\ call'[t].at \in {"device", "insert", "cancel", "cancelling", "unlease"} <=>
             call[t].at \in {"device", "insert", "cancel", "cancelling", "unlease"}
    BY DEF Plain, Opening, Closing
  <1>2. ObjectType'
    BY DEF ObjectInv, ObjectType
  <1>3. CountsAreExact'
    <2>1. \A o \in Objects : Releasing(o)' = Releasing(o)
      BY <1>1 DEF Releasing
    <2> QED
      BY <2>1 DEF ObjectInv, CountsAreExact
  <1>4. \A u \in Threads, o \in Objects : Owns(u, o)' <=> Owns(u, o)
    BY <1>1 DEF Owns
  <1>5. OwnersAreAlone'
    BY <1>4 DEF ObjectInv, OwnersAreAlone
  <1>6. \A u \in Threads :
          /\ call'[u].at \in Opening => call[u].at \in Opening /\ call'[u].obj = call[u].obj
          /\ call'[u].at \in {"device", "insert", "cancel", "cancelling", "unlease"} <=>
               call[u].at \in {"device", "insert", "cancel", "cancelling", "unlease"}
          /\ call'[u].at \in {"device", "insert", "cancel", "cancelling", "unlease"} =>
               call'[u].obj = call[u].obj /\ call[u].obj \in Objects
    <2>1. \A u \in Threads : call[u].at \notin {"out", "try", "await"} => call[u].obj \in Objects
      BY CallIs DEF CallFits
    <2> QED
      BY <1>1, <2>1 DEF Opening, Closing
  <1>7. LeasesLast'
    <2>1. \A o \in Objects : count'[o] > 0 => o \notin closed' /\ lease'[o].key # None
      BY DEF ObjectInv, LeasesLast, KeysStand
    <2>2. ASSUME NEW u \in Threads
          PROVE  /\ call'[u].at \in Opening => call'[u].obj \notin closed'
                 /\ call'[u].at \in {"device", "insert", "cancel", "cancelling", "unlease"} =>
                      lease'[call'[u].obj].key # None
      BY <1>6 DEF ObjectInv, LeasesLast, KeysStand
    <2>3. ASSUME NEW o \in Objects, lease'[o].key # None, ~(count'[o] > 0)
          PROVE  \E u \in Threads :
                   call'[u].obj = o /\ call'[u].at \in {"device", "insert", "cancel", "cancelling", "unlease"}
      <3>1. PICK u \in Threads :
              call[u].obj = o /\ call[u].at \in {"device", "insert", "cancel", "cancelling", "unlease"}
        BY <2>3 DEF ObjectInv, LeasesLast, KeysStand
      <3> QED
        BY <1>6, <3>1
    <2> QED
      BY <2>1, <2>2, <2>3 DEF LeasesLast
  <1> QED
    BY <1>2, <1>3, <1>5, <1>7 DEF ObjectInv

LEMMA StandKeeps ==
  ASSUME ShareType, OpensAreCompatible, DeletesAreCarriedOut, RemoversStay,
         UNCHANGED <<lease, sticky, doomed>>, node' \in [Paths -> {"none", "file", "dir"}]
  PROVE  ShareType' /\ OpensAreCompatible' /\ DeletesAreCarriedOut' /\ KeysStand
  <1>1. ShareType' /\ OpensAreCompatible' /\ KeysStand
    BY DEF ShareType, OpensAreCompatible, Shared, KeysStand
  <1>2. ASSUME NEW p \in doomed'
        PROVE  \/ p \in sticky' \/ Pending(p)' # {}
               \/ \E u \in Threads : call'[u].at = "remove" /\ call'[u].arg = p
    <2>1. Pending(p)' = Pending(p)
      BY DEF Pending, Records
    <2>2. \/ p \in sticky \/ Pending(p) # {}
          \/ \E u \in Threads : call[u].at = "remove" /\ call[u].arg = p
      BY <1>2 DEF DeletesAreCarriedOut
    <2> QED
      BY <2>1, <2>2 DEF RemoversStay
  <1> QED
    BY <1>1, <1>2 DEF DeletesAreCarriedOut

LEMMA LeaseIs ==
  ASSUME ShareType, NEW o \in Objects
  PROVE  /\ lease[o] \in LeaseRecord /\ lease[o].key \in Paths \cup {None} /\ lease[o].pending \in BOOLEAN
         /\ lease[o].access \subseteq Rights /\ lease[o].share \subseteq Rights
  BY DEF ShareType, LeaseRecord

\* A mark and the taking back of one.
LEMMA SetDeletePendingKeeps ==
  ASSUME ShareType, OpensAreCompatible, DeletesAreCarriedOut, RemoversStay,
         NEW o \in Objects, NEW value \in BOOLEAN, SetDeletePending(o, value)
  PROVE  ShareType' /\ OpensAreCompatible' /\ DeletesAreCarriedOut' /\ KeysStand
  <1>1. CASE UNCHANGED shareVars
    BY <1>1, StandKeeps DEF shareVars, ShareType
  <1>2. CASE ~(UNCHANGED shareVars)
    <2> DEFINE p == lease[o].key
    <2>0. /\ p # None /\ p \in Paths /\ (value \/ p \notin sticky)
          /\ lease' = [lease EXCEPT ![o].pending = value]
          /\ doomed' = IF value THEN doomed \cup {p}
                       ELSE IF Pending(p) \subseteq {o} THEN doomed \ {p} ELSE doomed
          /\ node' = node /\ sticky' = sticky
      BY <1>2, LeaseIs DEF SetDeletePending
    <2>1. /\ lease' \in [Objects -> LeaseRecord]
          /\ lease'[o].pending = value /\ lease'[o].key = p
          /\ lease'[o].access = lease[o].access /\ lease'[o].share = lease[o].share
          /\ \A x \in Objects : x # o => lease'[x] = lease[x]
      BY <2>0, LeaseIs DEF ShareType, LeaseRecord
    <2>2. ShareType'
      BY <2>0, <2>1 DEF ShareType
    <2>3. \A x \in Objects : /\ lease'[x].key = lease[x].key
                             /\ lease'[x].access = lease[x].access /\ lease'[x].share = lease[x].share
      BY <2>1
    <2>4. OpensAreCompatible' /\ KeysStand
      BY <2>3 DEF OpensAreCompatible, Shared, KeysStand
    <2> HIDE DEF p
    <2>5. ASSUME NEW d \in doomed'
          PROVE  \/ d \in sticky' \/ Pending(d)' # {}
                 \/ \E u \in Threads : call'[u].at = "remove" /\ call'[u].arg = d
      <3>1. CASE value
        <4>1. CASE d = p
          <5>1. lease'[o].key = d /\ lease'[o].pending
            BY <2>1, <3>1, <4>1
          <5>2. o \in Pending(d)'
            BY <5>1 DEF Pending, Records
          <5> QED
            BY <5>2
        <4>2. CASE d # p
          <5>1. d \in doomed
            BY <2>0, <2>5, <3>1, <4>2
          <5>2. Pending(d) \subseteq Pending(d)'
            BY <2>1, <2>3, <4>2 DEF Pending, Records
          <5> QED
            BY <2>0, <5>1, <5>2 DEF DeletesAreCarriedOut, RemoversStay
        <4> QED
          BY <4>1, <4>2
      <3>2. CASE ~value
        <4>1. d \in doomed
          BY <2>0, <2>5, <3>2
        <4>2. CASE d = p
          <5>1. \E x \in Pending(p) : x # o
            BY <2>0, <2>5, <3>2, <4>2
          <5>2. PICK x \in Objects : x # o /\ lease[x].key = p /\ lease[x].pending
            BY <5>1 DEF Pending, Records
          <5>3. x \in Pending(d)'
            BY <2>1, <4>2, <5>2 DEF Pending, Records
          <5> QED
            BY <5>3
        <4>3. CASE d # p
          <5>1. Pending(d) \subseteq Pending(d)'
            BY <2>1, <2>3, <4>3 DEF Pending, Records, p
          <5> QED
            BY <2>0, <4>1, <5>1 DEF DeletesAreCarriedOut, RemoversStay
        <4> QED
          BY <4>2, <4>3
      <3> QED
        BY <3>1, <3>2
    <2> QED
      BY <2>2, <2>4, <2>5 DEF DeletesAreCarriedOut
  <1> QED
    BY <1>1, <1>2

\* The only open of a path moves to a path without one.
LEMMA RenameKeeps ==
  ASSUME ShareType, OpensAreCompatible, DeletesAreCarriedOut, RemoversStay,
         NEW o \in Objects, NEW target \in Paths, NEW replace, CanRename(o, target, replace), RenameTo(o, target)
  PROVE  ShareType' /\ OpensAreCompatible' /\ DeletesAreCarriedOut' /\ KeysStand
  <1> DEFINE p == lease[o].key
  <1>0. /\ p # None /\ p \in Paths /\ Records(p) = {o} /\ p \notin sticky /\ ~lease[o].pending
        /\ Records(target) = {}
        /\ lease' = [lease EXCEPT ![o].key = target]
        /\ node' = [node EXCEPT ![target] = node[p], ![p] = "none"]
        /\ sticky' = sticky /\ doomed' = doomed
    BY LeaseIs DEF CanRename, RenameTo
  <1>1. target # None
    BY FileAssumption
  <1>2. /\ lease' \in [Objects -> LeaseRecord]
        /\ lease'[o].key = target /\ lease'[o].pending = lease[o].pending
        /\ lease'[o].access = lease[o].access /\ lease'[o].share = lease[o].share
        /\ \A x \in Objects : x # o => lease'[x] = lease[x]
    BY <1>0, LeaseIs DEF ShareType, LeaseRecord
  <1>3. node' \in [Paths -> {"none", "file", "dir"}]
    BY <1>0 DEF ShareType
  <1>4. ShareType'
    BY <1>0, <1>2, <1>3 DEF ShareType
  <1>5. KeysStand
    BY <1>0, <1>1, <1>2 DEF KeysStand
  <1>6. \A x \in Objects : lease[x].key # target /\ (lease[x].key = p => x = o)
    BY <1>0 DEF Records
  <1>7. OpensAreCompatible'
    <2> SUFFICES ASSUME NEW x \in Objects, NEW y \in Objects, x # y, lease'[x].key = lease'[y].key, lease'[x].key # None
                 PROVE  Shared(lease'[x], lease'[y])
      BY DEF OpensAreCompatible, Shared
    <2>1. x # o /\ y # o
      BY <1>2, <1>6
    <2> QED
      BY <1>2, <2>1 DEF OpensAreCompatible
  <1> HIDE DEF p
  <1>8. ASSUME NEW d \in doomed'
        PROVE  \/ d \in sticky' \/ Pending(d)' # {}
               \/ \E u \in Threads : call'[u].at = "remove" /\ call'[u].arg = d
    <2>1. Pending(d) \subseteq Pending(d)'
      <3> SUFFICES ASSUME NEW x \in Objects, lease[x].key = d, lease[x].pending PROVE x \in Pending(d)'
        BY DEF Pending, Records
      <3>1. x # o
        BY <1>0
      <3> QED
        BY <1>2, <3>1 DEF Pending, Records
    <2>2. d \in doomed
      BY <1>0, <1>8
    <2> QED
      BY <1>0, <2>1, <2>2 DEF DeletesAreCarriedOut, RemoversStay
  <1> QED
    BY <1>4, <1>5, <1>7, <1>8 DEF DeletesAreCarriedOut

LEMMA QuietStepKeeps ==
  ASSUME FileInv, NEW t \in Threads,
         \/ Asks(t) \/ GoesOnQuietly(t) \/ OpenDevice(t) \/ ResetFile(t) \/ Mark(t) \/ Move(t)
  PROVE  FileInv'
  <1> USE DEF FileInv
  <1>0. CallFits(call[t])
    BY CallIs
  <1>1. ASSUME CallType', QuietMove(t), ShareType' /\ OpensAreCompatible' /\ DeletesAreCarriedOut' /\ KeysStand
        PROVE  FileInv'
    BY <1>1, QuietKeeps
  <1>2. ASSUME CallType', QuietMove(t), UNCHANGED <<lease, sticky, doomed>>, node' \in [Paths -> {"none", "file", "dir"}]
        PROVE  FileInv'
    BY <1>1, <1>2, QuietRemovers, StandKeeps
  <1>3. CASE Asks(t) \/ GoesOnQuietly(t)
    <2>1. CallType' /\ QuietMove(t) /\ UNCHANGED shareVars
      BY <1>3, AsksQuiet, GoesOnQuiet
    <2> QED
      BY <1>2, <2>1 DEF shareVars, ShareType
  <1>4. CASE OpenDevice(t)
    <2>0. call[t].at = "device" /\ call[t].obj \in Objects /\ call[t].arg \in OpenArgument
          /\ UNCHANGED <<handles, count, closed>>
      BY <1>0, <1>4 DEF OpenDevice, CallFits, objectVars
    <2>1. PICK at \in {"insert", "unlease"} : Goes(t, at)
      BY <1>4 DEF OpenDevice
    <2>2. Becomes(t, at, call[t].obj, call[t].arg)
      BY <2>1, GoesBecomes DEF Labels
    <2>3. CallType'
      BY <2>0, <2>2, BecomesFits DEF Opening
    <2>4. QuietMove(t)
      BY <2>0, <2>2 DEF Becomes, QuietMove
    <2>5. call[t].arg.q.path \in Paths
      BY <2>0, FileAssumption DEF OpenArgument
    <2>6. UNCHANGED <<lease, sticky, doomed>>
      BY <1>4 DEF OpenDevice, CreateDirectory, OpenFile, shareVars
    <2>7. node' \in [Paths -> {"none", "file", "dir"}]
      BY <1>4, <2>5 DEF OpenDevice, CreateDirectory, OpenFile, shareVars, ShareType
    <2> QED
      BY <1>2, <2>3, <2>4, <2>6, <2>7
  <1>5. CASE ResetFile(t)
    <2>0. /\ call[t].at = "cancelling" /\ call[t].obj \in Objects /\ Goes(t, "unlease")
          /\ UNCHANGED <<handles, count, closed>> /\ UNCHANGED <<lease, sticky, doomed, node>>
      BY <1>0, <1>5 DEF ResetFile, CallFits, objectVars, CloseFile
    <2>2. Becomes(t, "unlease", call[t].obj, call[t].arg)
      BY <2>0, GoesBecomes DEF Labels
    <2>3. CallType'
      BY <2>0, <2>2, BecomesFits DEF Opening
    <2>4. QuietMove(t)
      BY <2>0, <2>2 DEF Becomes, QuietMove
    <2> QED
      BY <1>2, <2>0, <2>3, <2>4 DEF ShareType
  <1>6. CASE Mark(t)
    <2>0. /\ call[t].at = "mark" /\ call[t].obj \in Objects /\ call[t].arg \in BOOLEAN /\ Returns(t)
          /\ UNCHANGED <<handles, count, closed>> /\ SetDeletePending(call[t].obj, call[t].arg)
      BY <1>0, <1>6 DEF Mark, CallFits, objectVars
    <2>1. call[t].at \in Plain
      BY <2>0 DEF Plain, Labels, Opening, Closing
    <2>2. CallType' /\ QuietMove(t)
      BY <2>0, <2>1, ReturnsQuiet
    <2>3. ShareType' /\ OpensAreCompatible' /\ DeletesAreCarriedOut' /\ KeysStand
      BY <2>0, <2>2, QuietRemovers, SetDeletePendingKeeps
    <2> QED
      BY <1>1, <2>2, <2>3
  <1>7. CASE Move(t)
    <2>0. /\ call[t].at = "rename" /\ call[t].obj \in Objects /\ call[t].arg \in RenameArgument /\ Returns(t)
          /\ UNCHANGED <<handles, count, closed>>
      BY <1>0, <1>7 DEF Move, CallFits, objectVars
    <2>1. call[t].at \in Plain /\ call[t].arg.path \in Paths
      BY <2>0 DEF Plain, Labels, Opening, Closing, RenameArgument
    <2>2. CallType' /\ QuietMove(t)
      BY <2>0, <2>1, ReturnsQuiet
    <2>3. CASE UNCHANGED shareVars
      BY <1>2, <2>2, <2>3 DEF shareVars, ShareType
    <2>4. CASE CanRename(call[t].obj, call[t].arg.path, call[t].arg.replace) /\ RenameTo(call[t].obj, call[t].arg.path)
      <3>1. ShareType' /\ OpensAreCompatible' /\ DeletesAreCarriedOut' /\ KeysStand
        BY <2>0, <2>1, <2>2, <2>4, QuietRemovers, RenameKeeps
      <3> QED
        BY <1>1, <2>2, <3>1
    <2> QED
      BY <1>7, <2>3, <2>4 DEF Move
  <1> QED
    BY <1>3, <1>4, <1>5, <1>6, <1>7


-----------------------------------------------------------------------------
(* Taking objects up and letting them go.                                  *)

Held == {"device", "insert", "cancel", "cancelling", "unlease"}

LEMMA ReleasingIsFinite ==
  ASSUME NEW o
  PROVE  IsFiniteSet(Releasing(o)) /\ Cardinality(Releasing(o)) \in Nat
         /\ (Cardinality(Releasing(o)) = 0 <=> Releasing(o) = {})
  <1>1. Releasing(o) \subseteq Threads /\ IsFiniteSet(Threads)
    BY FileAssumption DEF Releasing
  <1>2. IsFiniteSet(Releasing(o))
    BY <1>1, FS_Subset
  <1> QED
    BY <1>2, FS_CardinalityType, FS_EmptySet

\* The conjuncts of LeasesLast for the objects and calls, one by one.
LEMMA LeasesLastIs ==
  ASSUME LeasesLast
  PROVE  /\ \A o \in Objects : count[o] > 0 => o \notin closed /\ lease[o].key # None
         /\ \A t \in Threads : call[t].at \in Opening => call[t].obj \notin closed
         /\ \A t \in Threads : call[t].at \in Held => lease[call[t].obj].key # None
         /\ \A o \in Objects : lease[o].key # None =>
               count[o] > 0 \/ \E t \in Threads : call[t].obj = o /\ call[t].at \in Held
  BY DEF LeasesLast, Held

LEMMA UnusedIsFree ==
  ASSUME CallType, ObjectInv, NEW o \in Objects, Unused(o)
  PROVE  /\ count[o] = 0 /\ handles[o] = 0 /\ lease[o].key = None /\ Releasing(o) = {}
         /\ \A t \in Threads : ~Owns(t, o) /\ call[t].obj # o
  <1>1. handles[o] = 0 /\ \A t \in Threads : call[t].obj # o
    BY DEF Unused
  <1>2. Releasing(o) = {}
    BY <1>1 DEF Releasing
  <1>3. count[o] = 0
    BY <1>1, <1>2, ReleasingIsFinite DEF ObjectInv, CountsAreExact
  <1> QED
    BY <1>1, <1>2, <1>3, LeasesLastIs DEF ObjectInv, Owns

LEMMA OpenKeeps ==
  ASSUME FileInv, NEW t \in Threads, NEW q \in Opens, Open(t, q)
  PROVE  FileInv'
  <1> USE DEF FileInv
  <1> DEFINE o == CHOOSE x \in Objects : Unused(x)
             arg == [q |-> q, seen |-> node[q.path]]
  <1>0. o \in Objects /\ Unused(o) /\ call[t].at = "out"
    BY DEF Open, Calls
  <1>1. /\ call' = [call EXCEPT ![t] = [Idle EXCEPT !.at = "reserve", !.obj = o, !.arg = arg]]
        /\ closed' = closed \ {o} /\ UNCHANGED shareVars /\ UNCHANGED <<handles, count>>
    BY DEF Open
  <1>2. arg \in OpenArgument
    BY FileAssumption DEF OpenArgument, ShareType
  <1> HIDE DEF o, arg
  <1>3. Becomes(t, "reserve", o, arg)
    BY <1>0, <1>1, <1>2, ArgumentsAre, FreshBecomes DEF Labels
  <1>4. CallType'
    BY <1>0, <1>2, <1>3, BecomesFits
  <1>5. /\ call'[t].at = "reserve" /\ call'[t].obj = o
        /\ \A u \in Threads : u # t => call'[u] = call[u]
    BY <1>3 DEF Becomes
  <1>6. RemoversStay
    BY <1>0, <1>5 DEF RemoversStay
  <1>7. ShareType' /\ OpensAreCompatible' /\ DeletesAreCarriedOut'
    BY <1>1, <1>6, StandKeeps DEF shareVars, ShareType
  <1>8. /\ count[o] = 0 /\ handles[o] = 0 /\ lease[o].key = None /\ Releasing(o) = {}
        /\ \A u \in Threads : ~Owns(u, o) /\ call[u].obj # o
    BY <1>0, UnusedIsFree
  <1>9. ObjectType' /\ CountsAreExact'
    <2>1. \A x \in Objects : Releasing(x)' = Releasing(x)
      BY <1>0, <1>5 DEF Releasing
    <2> QED
      BY <1>1, <2>1 DEF ObjectInv, ObjectType, CountsAreExact
  <1>10. OwnersAreAlone'
    <2>1. \A u \in Threads, x \in Objects : Owns(u, x)' <=> Owns(u, x) \/ (u = t /\ x = o)
      BY <1>0, <1>5 DEF Owns, Opening, Closing
    <2>2. \A x \in Objects : ~Owns(t, x)
      BY <1>0 DEF Owns, Opening, Closing
    <2> QED
      BY <1>1, <1>8, <2>1, <2>2 DEF ObjectInv, OwnersAreAlone
  <1>11. LeasesLast'
    <2>1. lease' = lease /\ count' = count
      BY <1>1 DEF shareVars
    <2>2. \A x \in Objects : count'[x] > 0 => x \notin closed' /\ lease'[x].key # None
      BY <1>1, <2>1, LeasesLastIs DEF ObjectInv
    <2>3. \A u \in Threads : call'[u].at \in Opening => call'[u].obj \notin closed'
      BY <1>1, <1>5, LeasesLastIs DEF ObjectInv
    <2>4. \A u \in Threads : call'[u].at \in Held => lease'[call'[u].obj].key # None
      BY <1>5, <2>1, LeasesLastIs DEF ObjectInv, Held
    <2>5. ASSUME NEW x \in Objects, lease'[x].key # None
          PROVE  count'[x] > 0 \/ \E u \in Threads : call'[u].obj = x /\ call'[u].at \in Held
      <3>1. count[x] > 0 \/ \E u \in Threads : call[u].obj = x /\ call[u].at \in Held
        BY <2>1, <2>5, LeasesLastIs DEF ObjectInv
      <3> QED
        BY <1>0, <1>5, <2>1, <3>1 DEF Held
    <2> QED
      BY <2>2, <2>3, <2>4, <2>5 DEF LeasesLast, Held
  <1> QED
    BY <1>4, <1>7, <1>9, <1>10, <1>11 DEF ObjectInv

LEMMA DuplicateKeeps ==
  ASSUME FileInv, NEW t \in Threads, NEW o \in Objects, Duplicate(t, o)
  PROVE  FileInv'
  <1> USE DEF FileInv
  <1>1. /\ handles[o] > 0 /\ handles' = [handles EXCEPT ![o] = @ + 1] /\ count' = [count EXCEPT ![o] = @ + 1]
        /\ UNCHANGED <<closed, call>> /\ UNCHANGED shareVars
    BY FileAssumption DEF Duplicate, ObjectInv, ObjectType
  <1>2. CallType'
    BY <1>1 DEF CallType
  <1>3. ShareType' /\ OpensAreCompatible' /\ DeletesAreCarriedOut'
    BY <1>1, StandKeeps DEF shareVars, ShareType, RemoversStay
  <1>4. handles[o] \in Nat /\ count[o] \in Nat /\ count[o] = handles[o] + Cardinality(Releasing(o))
        /\ Cardinality(Releasing(o)) \in Nat
    BY ReleasingIsFinite DEF ObjectInv, ObjectType, CountsAreExact
  <1>5. count[o] > 0
    BY <1>1, <1>4
  <1>6. ObjectType'
    BY <1>1 DEF ObjectInv, ObjectType
  <1>7. CountsAreExact'
    <2>1. \A x \in Objects : Releasing(x)' = Releasing(x)
      BY <1>1 DEF Releasing
    <2>2. count'[o] = handles'[o] + Cardinality(Releasing(o))
      BY <1>1, <1>4 DEF ObjectInv, ObjectType
    <2>3. \A x \in Objects : x # o => count'[x] = count[x] /\ handles'[x] = handles[x]
      BY <1>1 DEF ObjectInv, ObjectType
    <2> QED
      BY <2>1, <2>2, <2>3 DEF ObjectInv, CountsAreExact
  <1>8. OwnersAreAlone'
    <2>1. \A u \in Threads, x \in Objects : Owns(u, x)' <=> Owns(u, x)
      BY <1>1 DEF Owns
    <2>2. \A u \in Threads : ~Owns(u, o)
      BY <1>5 DEF ObjectInv, OwnersAreAlone
    <2> QED
      BY <1>1, <2>1, <2>2 DEF ObjectInv, OwnersAreAlone, ObjectType
  <1>9. LeasesLast'
    BY <1>1, <1>4, <1>5 DEF ObjectInv, LeasesLast, ObjectType, shareVars
  <1> QED
    BY <1>2, <1>3, <1>6, <1>7, <1>8, <1>9 DEF ObjectInv

\* The step ends the call of an owner without a lease, or gives the object up.
LEMMA OwnerLeaves ==
  ASSUME CallType, ObjectInv, NEW t \in Threads, NEW o \in Objects, Owns(t, o), call[t].at \notin Held,
         Becomes(t, "out", None, None), UNCHANGED <<lease, handles, count, closed>>
  PROVE  ObjectInv'
  <1>1. /\ call'[t].at = "out" /\ \A u \in Threads : u # t => call'[u] = call[u]
    BY DEF Becomes
  <1>2. call[t].at # "release"
    BY DEF Owns, Opening, Closing
  <1>3. ObjectType' /\ CountsAreExact'
    <2>1. \A x \in Objects : Releasing(x)' = Releasing(x)
      BY <1>1, <1>2 DEF Releasing
    <2> QED
      BY <2>1 DEF ObjectInv, ObjectType, CountsAreExact
  <1>4. OwnersAreAlone'
    <2>1. \A u \in Threads, x \in Objects : Owns(u, x)' => Owns(u, x)
      BY <1>1 DEF Owns, Opening, Closing
    <2> QED
      BY <2>1 DEF ObjectInv, OwnersAreAlone
  <1>5. LeasesLast'
    <2>1. \A u \in Threads : call'[u].at \in Opening \/ call'[u].at \in Held => u # t
      BY <1>1 DEF Opening, Held
    <2>2. \A u \in Threads : call[u].at \in Held => u # t
      OBVIOUS
    <2> QED
      BY <1>1, <2>1, <2>2 DEF ObjectInv, LeasesLast, Held
  <1> QED
    BY <1>3, <1>4, <1>5 DEF ObjectInv

LEMMA ReserveKeeps ==
  ASSUME FileInv, NEW t \in Threads, OpenReserve(t)
  PROVE  FileInv'
  <1> USE DEF FileInv
  <1> DEFINE o == call[t].obj
             q == call[t].arg.q
  <1>0. call[t].at = "reserve" /\ o \in Objects /\ call[t].arg \in OpenArgument /\ UNCHANGED <<handles, count, closed>>
    BY CallIs DEF OpenReserve, CallFits, objectVars
  <1>1. q \in Opens /\ q.path \in Paths /\ q.access \subseteq Rights /\ q.share \subseteq Rights /\ q.path # None
    BY <1>0, FileAssumption DEF OpenArgument
  <1>2. Owns(t, o)
    BY <1>0 DEF Owns, Opening
  <1>3. CASE ~Reservable(q) /\ UNCHANGED shareVars /\ Returns(t)
    <2>1. Becomes(t, "out", None, None)
      BY <1>3, ReturnsBecomes
    <2>2. CallType'
      BY <2>1, BecomesFits DEF Opening
    <2>3. RemoversStay
      BY <1>0, <2>1 DEF RemoversStay, Becomes
    <2>4. ShareType' /\ OpensAreCompatible' /\ DeletesAreCarriedOut'
      BY <1>3, <2>3, StandKeeps DEF shareVars, ShareType
    <2>5. ObjectInv'
      BY <1>0, <1>2, <1>3, <2>1, OwnerLeaves DEF shareVars, Held
    <2> QED
      BY <2>2, <2>4, <2>5
  <1>4. CASE Reservable(q) /\ Reserve(o, q) /\ Goes(t, "device")
    <2>1. Becomes(t, "device", o, call[t].arg)
      BY <1>4, GoesBecomes DEF Labels
    <2>2. CallType'
      BY <1>0, <2>1, BecomesFits
    <2>3. RemoversStay
      BY <1>0, <2>1 DEF RemoversStay, Becomes
    <2>4. count[o] = 0 /\ o \notin closed /\ \A u \in Threads : Owns(u, o) => u = t
      BY <1>0, <1>2, LeasesLastIs DEF ObjectInv, OwnersAreAlone, Opening
    <2>5. lease[o].key = None
      <3>1. \A u \in Threads : call[u].obj = o /\ call[u].at \in Held => Owns(u, o) /\ u # t
        BY <1>0 DEF Owns, Opening, Closing, Held
      <3> QED
        BY <1>0, <2>4, <3>1, LeasesLastIs DEF ObjectInv
    <2> DEFINE l == [key |-> q.path, access |-> q.access, share |-> q.share, pending |-> FALSE]
    <2>6. lease' = [lease EXCEPT ![o] = l] /\ node' = node /\ sticky' = sticky /\ doomed' = doomed
      BY <1>4 DEF Reserve
    <2>7. /\ l \in LeaseRecord /\ l.key = q.path /\ l.access = q.access /\ l.share = q.share
      BY <1>1 DEF LeaseRecord
    <2> HIDE DEF l
    <2>8. lease'[o] = l /\ (\A x \in Objects : x # o => lease'[x] = lease[x]) /\ lease' \in [Objects -> LeaseRecord]
      BY <1>0, <2>6, <2>7 DEF ShareType
    <2>9. ShareType'
      BY <2>6, <2>8 DEF ShareType
    <2>10. OpensAreCompatible'
      <3>1. ASSUME NEW x \in Objects, x # o, lease[x].key = q.path PROVE Shared(l, lease[x]) /\ Shared(lease[x], l)
        <4>1. x \in Records(q.path)
          BY <3>1 DEF Records
        <4>2. Shared(q, lease[x])
          BY <1>4, <4>1 DEF Reservable
        <4> QED
          BY <2>7, <4>2 DEF Shared
      <3> HIDE DEF o, q
      <3>2. ASSUME NEW x \in Objects, NEW y \in Objects, x # y, lease'[x].key = lease'[y].key, lease'[x].key # None
            PROVE  Shared(lease'[x], lease'[y])
        <4>1. CASE x = o
          BY <2>7, <2>8, <3>1, <3>2, <4>1
        <4>2. CASE y = o
          BY <2>7, <2>8, <3>1, <3>2, <4>2
        <4>3. CASE x # o /\ y # o
          BY <2>8, <3>2, <4>3 DEF OpensAreCompatible
        <4> QED
          BY <4>1, <4>2, <4>3
      <3> QED
        BY <3>2 DEF OpensAreCompatible, Shared
    <2>11. DeletesAreCarriedOut'
      <3> SUFFICES ASSUME NEW d \in doomed'
                   PROVE  \/ d \in sticky' \/ Pending(d)' # {}
                          \/ \E u \in Threads : call'[u].at = "remove" /\ call'[u].arg = d
        BY DEF DeletesAreCarriedOut
      <3>1. d \in Paths /\ d \in doomed /\ d # None
        BY <2>6, FileAssumption DEF ShareType
      <3>2. Pending(d) \subseteq Pending(d)'
        <4> SUFFICES ASSUME NEW x \in Objects, lease[x].key = d, lease[x].pending PROVE x \in Pending(d)'
          BY DEF Pending, Records
        <4>1. x # o
          BY <2>5, <3>1
        <4> QED
          BY <2>8, <4>1 DEF Pending, Records
      <3> QED
        BY <2>3, <2>6, <3>1, <3>2 DEF DeletesAreCarriedOut, RemoversStay
    <2>12. /\ call'[t].at = "device" /\ call'[t].obj = o /\ \A u \in Threads : u # t => call'[u] = call[u]
      BY <2>1 DEF Becomes
    <2> HIDE DEF o, q
    <2>120. call[t].obj = o
      BY DEF o
    <2>13. ObjectType' /\ CountsAreExact'
      <3>1. \A x \in Objects : Releasing(x)' = Releasing(x)
        BY <1>0, <2>12 DEF Releasing
      <3> QED
        BY <1>0, <3>1 DEF ObjectInv, ObjectType, CountsAreExact
    <2>14. OwnersAreAlone'
      <3>1. \A u \in Threads, x \in Objects : Owns(u, x)' <=> Owns(u, x)
        BY <1>0, <2>12, <2>120 DEF Owns, Opening, Closing
      <3> QED
        BY <1>0, <3>1 DEF ObjectInv, OwnersAreAlone
    <2>15. LeasesLast'
      <3>1. \A x \in Objects : count'[x] > 0 => x \notin closed' /\ lease'[x].key # None
        BY <1>0, <2>4, <2>8, LeasesLastIs DEF ObjectInv
      <3>2. \A u \in Threads : call'[u].at \in Opening => call'[u].obj \notin closed'
        BY <1>0, <2>4, <2>12, LeasesLastIs DEF ObjectInv
      <3>3. \A u \in Threads : call'[u].at \in Held => lease'[call'[u].obj].key # None
        <4>1. \A u \in Threads : call[u].at \in Held => call[u].obj \in Objects
          BY CallIs DEF CallFits, Held
        <4> QED
          BY <1>1, <2>7, <2>8, <2>12, <4>1, LeasesLastIs DEF ObjectInv
      <3>4. ASSUME NEW x \in Objects, lease'[x].key # None
            PROVE  count'[x] > 0 \/ \E u \in Threads : call'[u].obj = x /\ call'[u].at \in Held
        <4>1. CASE x = o
          BY <2>12, <4>1 DEF Held
        <4>2. CASE x # o
          <5>1. count[x] > 0 \/ \E u \in Threads : call[u].obj = x /\ call[u].at \in Held
            BY <2>8, <3>4, <4>2, LeasesLastIs DEF ObjectInv
          <5> QED
            BY <1>0, <2>12, <2>120, <4>2, <5>1
        <4> QED
          BY <4>1, <4>2
      <3> QED
        BY <3>1, <3>2, <3>3, <3>4 DEF LeasesLast, Held
    <2> QED
      BY <2>2, <2>9, <2>10, <2>11, <2>13, <2>14, <2>15 DEF ObjectInv
  <1> QED
    BY <1>3, <1>4 DEF OpenReserve

\* An owner with a lease becomes a handle, or a handle's last release an owner.
LEMMA InsertKeeps ==
  ASSUME FileInv, NEW t \in Threads, OpenInsert(t)
  PROVE  FileInv'
  <1> USE DEF FileInv
  <1> DEFINE o == call[t].obj
  <1>0. /\ call[t].at = "insert" /\ o \in Objects /\ call[t].arg \in OpenArgument
        /\ handles' = [handles EXCEPT ![o] = 1] /\ count' = [count EXCEPT ![o] = 1] /\ closed' = closed
        /\ Returns(t)
    BY CallIs DEF OpenInsert, CallFits
  <1>1. Becomes(t, "out", None, None)
    BY <1>0, ReturnsBecomes
  <1>2. CallType'
    BY <1>1, BecomesFits DEF Opening
  <1>3. RemoversStay
    BY <1>0, <1>1 DEF RemoversStay, Becomes
  <1>4. ShareType' /\ OpensAreCompatible' /\ DeletesAreCarriedOut' /\ KeysStand
    <2>1. CASE UNCHANGED shareVars
      BY <1>3, <2>1, StandKeeps DEF shareVars, ShareType
    <2>2. CASE SetDeletePending(o, TRUE)
      BY <1>0, <1>3, <2>2, SetDeletePendingKeeps
    <2> QED
      BY <2>1, <2>2 DEF OpenInsert
  <1>5. Owns(t, o)
    BY <1>0 DEF Owns, Opening
  <1>6. count[o] = 0 /\ o \notin closed /\ lease[o].key # None /\ \A u \in Threads : Owns(u, o) => u = t
    BY <1>0, <1>5, LeasesLastIs DEF ObjectInv, OwnersAreAlone, Opening, Held
  <1>7. handles[o] = 0 /\ Releasing(o) = {}
    <2>1. handles[o] \in Nat /\ count[o] = handles[o] + Cardinality(Releasing(o)) /\ Cardinality(Releasing(o)) \in Nat
      BY <1>0, ReleasingIsFinite DEF ObjectInv, ObjectType, CountsAreExact
    <2>2. handles[o] = 0 /\ Cardinality(Releasing(o)) = 0
      BY <1>6, <2>1
    <2> QED
      BY <2>2, ReleasingIsFinite
  <1>8. call'[t].at = "out" /\ \A u \in Threads : u # t => call'[u] = call[u]
    BY <1>1 DEF Becomes
  <1>9. call[t].obj = o
    OBVIOUS
  <1> HIDE DEF o
  <1>10. ObjectType'
    BY <1>0 DEF ObjectInv, ObjectType
  <1>11. CountsAreExact'
    <2>1. ASSUME NEW x \in Objects PROVE Releasing(x)' = Releasing(x)
      BY <1>0, <1>8 DEF Releasing
    <2>2. count'[o] = 1 /\ handles'[o] = 1 /\ Cardinality(Releasing(o)) = 0
      BY <1>0, <1>7, FS_EmptySet DEF ObjectInv, ObjectType
    <2>3. \A x \in Objects : x # o => count'[x] = count[x] /\ handles'[x] = handles[x]
      BY <1>0 DEF ObjectInv, ObjectType
    <2>4. ASSUME NEW x \in Objects PROVE count'[x] = handles'[x] + Cardinality(Releasing(x)')
      BY <2>1, <2>2, <2>3 DEF ObjectInv, CountsAreExact
    <2> QED
      BY <2>4 DEF CountsAreExact
  <1>12. OwnersAreAlone'
    <2>1. \A u \in Threads, x \in Objects : Owns(u, x)' => Owns(u, x) /\ x # o
      BY <1>6, <1>8 DEF Owns, Opening, Closing
    <2> QED
      BY <1>0, <2>1 DEF ObjectInv, OwnersAreAlone, ObjectType
  <1>13. LeasesLast'
    <2>1. \A x \in Objects : count'[x] > 0 => x \notin closed' /\ lease'[x].key # None
      BY <1>0, <1>4, <1>6, LeasesLastIs DEF ObjectInv, ObjectType, KeysStand
    <2>2. \A u \in Threads : call'[u].at \in Opening => call'[u].obj \notin closed'
      BY <1>0, <1>8, LeasesLastIs DEF ObjectInv, Opening
    <2>3. \A u \in Threads : call'[u].at \in Held => lease'[call'[u].obj].key # None
      <3>1. \A u \in Threads : call[u].at \in Held => call[u].obj \in Objects
        BY CallIs DEF CallFits, Held
      <3>2. \A u \in Threads : call'[u].at \in Held => u # t
        BY <1>8 DEF Held
      <3> QED
        BY <1>4, <1>8, <3>1, <3>2, LeasesLastIs DEF ObjectInv, KeysStand
    <2>4. ASSUME NEW x \in Objects, lease'[x].key # None
          PROVE  count'[x] > 0 \/ \E u \in Threads : call'[u].obj = x /\ call'[u].at \in Held
      <3>1. CASE x = o
        BY <1>0, <3>1 DEF ObjectInv, ObjectType
      <3>2. CASE x # o
        <4>1. count[x] > 0 \/ \E u \in Threads : call[u].obj = x /\ call[u].at \in Held
          BY <1>4, <2>4, LeasesLastIs DEF ObjectInv, KeysStand
        <4> QED
          BY <1>0, <1>8, <1>9, <3>2, <4>1 DEF ObjectInv, ObjectType
      <3> QED
        BY <3>1, <3>2
    <2> QED
      BY <2>1, <2>2, <2>3, <2>4 DEF LeasesLast, Held
  <1> QED
    BY <1>2, <1>4, <1>10, <1>11, <1>12, <1>13 DEF ObjectInv

LEMMA CloseKeeps ==
  ASSUME FileInv, NEW t \in Threads, NEW o \in Objects, Close(t, o)
  PROVE  FileInv'
  <1> USE DEF FileInv
  <1>0. /\ call[t].at = "out" /\ handles[o] > 0 /\ handles' = [handles EXCEPT ![o] = @ - 1]
        /\ call' = [call EXCEPT ![t] = [Idle EXCEPT !.at = "release", !.obj = o]]
        /\ UNCHANGED shareVars /\ UNCHANGED <<count, closed>>
    BY DEF Close, Calls
  <1>1. Becomes(t, "release", o, None)
    BY <1>0, CloseBecomes
  <1>2. CallType'
    BY <1>1, BecomesFits DEF Opening
  <1>3. RemoversStay
    BY <1>0, <1>1 DEF RemoversStay, Becomes
  <1>4. ShareType' /\ OpensAreCompatible' /\ DeletesAreCarriedOut'
    BY <1>0, <1>3, StandKeeps DEF shareVars, ShareType
  <1>5. /\ call'[t].at = "release" /\ call'[t].obj = o /\ \A u \in Threads : u # t => call'[u] = call[u]
    BY <1>1 DEF Becomes
  <1>6. ObjectType'
    BY <1>0 DEF ObjectInv, ObjectType
  <1>7. CountsAreExact'
    <2>1. Releasing(o)' = Releasing(o) \cup {t} /\ t \notin Releasing(o)
      BY <1>0, <1>5 DEF Releasing
    <2>2. \A x \in Objects : x # o => Releasing(x)' = Releasing(x)
      BY <1>0, <1>5 DEF Releasing
    <2>3. Cardinality(Releasing(o)') = Cardinality(Releasing(o)) + 1 /\ Cardinality(Releasing(o)) \in Nat
      BY <2>1, ReleasingIsFinite, FS_AddElement
    <2>4. count[o] = handles[o] + Cardinality(Releasing(o)) /\ handles[o] \in Nat /\ count'[o] = count[o]
          /\ handles'[o] = handles[o] - 1
      BY <1>0 DEF ObjectInv, CountsAreExact, ObjectType
    <2>5. count'[o] = handles'[o] + Cardinality(Releasing(o)')
      BY <2>3, <2>4
    <2>6. \A x \in Objects : x # o => count'[x] = count[x] /\ handles'[x] = handles[x]
      BY <1>0 DEF ObjectInv, ObjectType
    <2>7. \A x \in Objects : count'[x] = handles'[x] + Cardinality(Releasing(x)')
      BY <2>2, <2>5, <2>6 DEF ObjectInv, CountsAreExact
    <2> QED
      BY <2>7 DEF CountsAreExact
  <1>8. OwnersAreAlone'
    <2>1. \A u \in Threads, x \in Objects : Owns(u, x)' => Owns(u, x)
      BY <1>5 DEF Owns, Opening, Closing
    <2> QED
      BY <1>0, <2>1 DEF ObjectInv, OwnersAreAlone
  <1>9. LeasesLast'
    <2>1. \A u \in Threads : call'[u].at \in Opening \/ call'[u].at \in Held => u # t
      BY <1>5 DEF Opening, Held
    <2>2. \A u \in Threads : call[u].at \in Held => u # t
      BY <1>0 DEF Held
    <2> QED
      BY <1>0, <1>5, <2>1, <2>2 DEF ObjectInv, LeasesLast, Held, shareVars
  <1> QED
    BY <1>2, <1>4, <1>6, <1>7, <1>8, <1>9 DEF ObjectInv

LEMMA ReleaseHandleKeeps ==
  ASSUME FileInv, NEW t \in Threads, ReleaseHandle(t)
  PROVE  FileInv'
  <1> USE DEF FileInv
  <1> DEFINE o == call[t].obj
  <1>0. /\ call[t].at = "release" /\ o \in Objects /\ count' = [count EXCEPT ![o] = @ - 1]
        /\ UNCHANGED shareVars /\ UNCHANGED handles
    BY CallIs DEF ReleaseHandle, CallFits
  <1>1. /\ count[o] = handles[o] + Cardinality(Releasing(o)) /\ handles[o] \in Nat /\ count[o] \in Nat
        /\ Cardinality(Releasing(o)) \in Nat /\ t \in Releasing(o) /\ Releasing(o) # {}
    BY <1>0, ReleasingIsFinite DEF ObjectInv, CountsAreExact, ObjectType, Releasing
  <1>2. Cardinality(Releasing(o)) > 0 /\ count[o] > 0
    BY <1>1, ReleasingIsFinite
  <1>3. o \notin closed /\ lease[o].key # None /\ \A u \in Threads : ~Owns(u, o)
    BY <1>0, <1>2, LeasesLastIs DEF ObjectInv, OwnersAreAlone
  <1>4. PICK at, arg, b : Becomes(t, at, b, arg) /\ CallType'
                            /\ \/ count[o] = 1 /\ closed' = closed \cup {o} /\ at = "cancel" /\ b = o
                               \/ count[o] # 1 /\ closed' = closed /\ at = "out"
    <2>1. CASE count[o] = 1 /\ closed' = closed \cup {o} /\ Goes(t, "cancel")
      <3>1. Becomes(t, "cancel", o, call[t].arg)
        BY <2>1, GoesBecomes DEF Labels
      <3>2. CallType'
        BY <1>0, <3>1, BecomesFits DEF Opening
      <3> QED
        BY <2>1, <3>1, <3>2
    <2>2. CASE count[o] # 1 /\ closed' = closed /\ Returns(t)
      <3>1. Becomes(t, "out", None, None)
        BY <2>2, ReturnsBecomes
      <3>2. CallType'
        BY <3>1, BecomesFits DEF Opening
      <3> QED
        BY <2>2, <3>1, <3>2
    <2> QED
      BY <2>1, <2>2 DEF ReleaseHandle
  <1>5. /\ call'[t].at = at /\ call'[t].obj = b /\ \A u \in Threads : u # t => call'[u] = call[u]
    BY <1>4 DEF Becomes
  <1>6. RemoversStay
    BY <1>0, <1>5 DEF RemoversStay
  <1>7. ShareType' /\ OpensAreCompatible' /\ DeletesAreCarriedOut'
    BY <1>0, <1>6, StandKeeps DEF shareVars, ShareType
  <1>8. /\ count'[o] = count[o] - 1 /\ count'[o] \in Nat
        /\ \A x \in Objects : x # o => count'[x] = count[x]
        /\ lease' = lease /\ handles' = handles
    BY <1>0, <1>1, <1>2 DEF ObjectInv, ObjectType, shareVars
  <1>90. call[t].obj = o
    OBVIOUS
  <1>91. PICK p \in Objects : p = o
    BY <1>0
  <1> HIDE DEF o
  <1>9. ObjectType'
    BY <1>0, <1>1, <1>2, <1>4 DEF ObjectInv, ObjectType
  <1>10. CountsAreExact'
    <2>1. Releasing(p)' = Releasing(p) \ {t} /\ t \in Releasing(p)
      BY <1>1, <1>4, <1>5, <1>91 DEF Releasing
    <2>2. \A x \in Objects : x # p => Releasing(x)' = Releasing(x)
      BY <1>0, <1>4, <1>5, <1>90, <1>91 DEF Releasing
    <2>3. Cardinality(Releasing(p)') = Cardinality(Releasing(p)) - 1
      BY <2>1, ReleasingIsFinite, FS_RemoveElement
    <2>4. count'[p] = handles'[p] + Cardinality(Releasing(p)')
      BY <1>1, <1>8, <1>91, <2>3
    <2>5. \A x \in Objects : count'[x] = handles'[x] + Cardinality(Releasing(x)')
      BY <1>8, <1>91, <2>2, <2>4 DEF ObjectInv, CountsAreExact
    <2> QED
      BY <2>5 DEF CountsAreExact
  <1>11. CASE count[o] = 1 /\ closed' = closed \cup {o} /\ at = "cancel" /\ b = o
    <2>1. \A u \in Threads, x \in Objects : Owns(u, x)' <=> Owns(u, x) \/ (u = t /\ x = o)
      BY <1>0, <1>5, <1>90, <1>11 DEF Owns, Opening, Closing
    <2>2. \A x \in Objects : ~Owns(t, x)
      BY <1>0 DEF Owns, Opening, Closing
    <2>3. count'[o] = 0
      BY <1>8, <1>11
    <2>4. OwnersAreAlone'
      BY <1>3, <1>8, <2>1, <2>2, <2>3 DEF ObjectInv, OwnersAreAlone
    <2>5. \A x \in Objects : count'[x] > 0 => x \notin closed' /\ lease'[x].key # None
      BY <1>8, <1>11, <2>3, LeasesLastIs DEF ObjectInv
    <2>6. \A u \in Threads : call'[u].at \in Opening => call'[u].obj \notin closed'
      <3>1. \A u \in Threads : call[u].at \in Opening => call[u].obj # o
        BY <1>3 DEF Owns
      <3> QED
        BY <1>5, <1>11, <3>1, LeasesLastIs DEF ObjectInv, Opening
    <2>7. \A u \in Threads : call'[u].at \in Held => lease'[call'[u].obj].key # None
      BY <1>3, <1>5, <1>8, <1>11, LeasesLastIs DEF ObjectInv
    <2>8. ASSUME NEW x \in Objects, lease'[x].key # None
          PROVE  count'[x] > 0 \/ \E u \in Threads : call'[u].obj = x /\ call'[u].at \in Held
      <3>1. CASE x = o
        BY <1>5, <1>11, <3>1 DEF Held
      <3>2. CASE x # o
        <4>1. count[x] > 0 \/ \E u \in Threads : call[u].obj = x /\ call[u].at \in Held
          BY <1>8, <2>8, LeasesLastIs DEF ObjectInv
        <4> QED
          BY <1>5, <1>8, <1>90, <3>2, <4>1
      <3> QED
        BY <3>1, <3>2
    <2>9. LeasesLast'
      BY <2>5, <2>6, <2>7, <2>8 DEF LeasesLast, Held
    <2> QED
      BY <1>4, <1>7, <1>9, <1>10, <2>4, <2>9 DEF ObjectInv
  <1>12. CASE count[o] # 1 /\ closed' = closed /\ at = "out"
    <2>1. \A u \in Threads, x \in Objects : Owns(u, x)' => Owns(u, x)
      BY <1>5, <1>12 DEF Owns, Opening, Closing
    <2>2. OwnersAreAlone'
      BY <1>3, <1>8, <2>1 DEF ObjectInv, OwnersAreAlone
    <2>3. count'[o] > 0
      BY <1>1, <1>2, <1>8, <1>12
    <2>4. LeasesLast'
      <3>1. \A u \in Threads : call'[u].at \in Opening \/ call'[u].at \in Held => u # t
        BY <1>5, <1>12 DEF Opening, Held
      <3>2. \A u \in Threads : call[u].at \in Held => u # t
        BY <1>0 DEF Held
      <3>3. \A x \in Objects : count'[x] > 0 <=> count[x] > 0
        BY <1>2, <1>8, <2>3
      <3> QED
        BY <1>5, <1>8, <1>12, <3>1, <3>2, <3>3 DEF ObjectInv, LeasesLast, Held
    <2> QED
      BY <1>4, <1>7, <1>9, <1>10, <2>2, <2>4 DEF ObjectInv
  <1> QED
    BY <1>4, <1>11, <1>12

LEMMA RemoveFileKeeps ==
  ASSUME FileInv, NEW t \in Threads, RemoveFile(t)
  PROVE  FileInv'
  <1> USE DEF FileInv
  <1>0. /\ call[t].at = "remove" /\ call[t].arg \in Paths /\ call[t].obj \in Objects /\ Returns(t)
        /\ UNCHANGED <<handles, count, closed, lease, sticky>> /\ RemoveNode(call[t].arg)
    BY CallIs DEF RemoveFile, CallFits, objectVars, RemoveNode
  <1>1. Becomes(t, "out", None, None)
    BY <1>0, ReturnsBecomes
  <1>2. CallType'
    BY <1>1, BecomesFits DEF Opening
  <1>3. ObjectInv'
    BY <1>0, <1>1, OwnerLeaves DEF Owns, Held, Closing
  <1>4. ShareType'
    BY <1>0 DEF ShareType, RemoveNode
  <1>5. OpensAreCompatible'
    BY <1>0 DEF OpensAreCompatible, Shared
  <1>6. DeletesAreCarriedOut'
    <2> SUFFICES ASSUME NEW d \in doomed'
                 PROVE  \/ d \in sticky' \/ Pending(d)' # {}
                        \/ \E u \in Threads : call'[u].at = "remove" /\ call'[u].arg = d
      BY DEF DeletesAreCarriedOut
    <2>1. Pending(d)' = Pending(d) /\ sticky' = sticky
      BY <1>0 DEF Pending, Records
    <2>2. d \in doomed
      BY <1>0 DEF RemoveNode
    <2>3. CASE d = call[t].arg
      BY <1>0, <2>1, <2>3 DEF RemoveNode
    <2>4. CASE d # call[t].arg
      BY <1>1, <2>1, <2>2, <2>4 DEF DeletesAreCarriedOut, Becomes
    <2> QED
      BY <2>3, <2>4
  <1> QED
    BY <1>2, <1>3, <1>4, <1>5, <1>6

LEMMA UnleaseKeeps ==
  ASSUME FileInv, NEW t \in Threads, Unlease(t)
  PROVE  FileInv'
  <1> USE DEF FileInv
  <1>0. call[t].at = "unlease" /\ call[t].obj \in Objects
    BY CallIs DEF Unlease, CallFits
  <1>1. PICK o \in Objects : o = call[t].obj
    BY <1>0
  <1>2. PICK p \in Paths : p = lease[o].key /\ p # None
    <2>1. lease[o].key # None
      BY <1>0, <1>1, LeasesLastIs DEF ObjectInv, Held
    <2> QED
      BY <2>1, LeaseIs
  <1>3. /\ lease' = [lease EXCEPT ![o] = NoLease]
        /\ sticky' = IF Records(p) = {o} THEN sticky \ {p}
                     ELSE IF lease[o].pending THEN sticky \cup {p} ELSE sticky
        /\ doomed' = doomed /\ node' = node /\ UNCHANGED <<handles, count, closed>>
    BY <1>1, <1>2 DEF Unlease, Release, objectVars
  <1>4. PICK at, arg, b : Becomes(t, at, b, arg) /\ CallType'
                            /\ \/ ShouldDelete(o) /\ at = "remove" /\ b = o /\ arg = p
                               \/ ~ShouldDelete(o) /\ at = "out"
    <2>1. CASE ShouldDelete(o)
      <3>1. call' = [call EXCEPT ![t].at = "remove", ![t].arg = p]
        BY <1>1, <1>2, <2>1 DEF Unlease
      <3>2. Becomes(t, "remove", o, p)
        BY <1>1, <3>1, ArgumentsAre, ArgBecomes DEF Labels
      <3>3. CallType'
        BY <3>2, BecomesFits DEF Opening
      <3> QED
        BY <2>1, <3>2, <3>3
    <2>2. CASE ~ShouldDelete(o)
      <3>1. Returns(t)
        BY <1>1, <2>2 DEF Unlease
      <3>2. Becomes(t, "out", None, None)
        BY <3>1, ReturnsBecomes
      <3>3. CallType'
        BY <3>2, BecomesFits DEF Opening
      <3> QED
        BY <2>2, <3>2, <3>3
    <2> QED
      BY <2>1, <2>2
  <1>5. /\ call'[t].at = at /\ call'[t].obj = b /\ call'[t].arg = arg
        /\ \A u \in Threads : u # t => call'[u] = call[u]
    BY <1>4 DEF Becomes
  <1>6. /\ NoLease \in LeaseRecord /\ NoLease.key = None
    BY DEF NoLease, LeaseRecord
  <1>7. /\ lease' \in [Objects -> LeaseRecord] /\ lease'[o].key = None
        /\ \A x \in Objects : x # o => lease'[x] = lease[x]
    BY <1>3, <1>6 DEF ShareType
  <1>8. ShareType'
    BY <1>3, <1>7 DEF ShareType
  <1>9. OpensAreCompatible'
    <2>1. ASSUME NEW x \in Objects, NEW y \in Objects, x # y, lease'[x].key = lease'[y].key, lease'[x].key # None
          PROVE  Shared(lease'[x], lease'[y])
      <3>1. x # o /\ y # o
        BY <1>7, <2>1
      <3> QED
        BY <1>7, <2>1, <3>1 DEF OpensAreCompatible
    <2> QED
      BY <2>1 DEF OpensAreCompatible, Shared
  <1>10. DeletesAreCarriedOut'
    <2> SUFFICES ASSUME NEW d \in doomed'
                 PROVE  \/ d \in sticky' \/ Pending(d)' # {}
                        \/ \E u \in Threads : call'[u].at = "remove" /\ call'[u].arg = d
      BY DEF DeletesAreCarriedOut
    <2>1. d \in doomed
      BY <1>3
    <2>2. \A x \in Objects : x # o /\ x \in Pending(d) => x \in Pending(d)'
      BY <1>7 DEF Pending, Records
    <2>3. CASE \E u \in Threads : call[u].at = "remove" /\ call[u].arg = d
      BY <1>0, <1>5, <2>3
    <2>4. CASE d # p /\ (d \in sticky \/ Pending(d) # {})
      <3>1. o \notin Pending(d) /\ Pending(d) \subseteq Objects
        BY <1>2, <2>4 DEF Pending, Records
      <3> QED
        BY <1>3, <2>2, <2>4, <3>1
    <2>5. CASE d = p /\ Records(p) = {o} /\ (d \in sticky \/ Pending(d) # {})
      <3>1. Pending(p) # {} => lease[o].pending
        BY <2>5 DEF Pending
      <3>2. ShouldDelete(o)
        BY <1>2, <2>5, <3>1 DEF ShouldDelete
      <3> QED
        BY <1>4, <1>5, <2>5, <3>2
    <2>6. CASE d = p /\ Records(p) # {o} /\ (d \in sticky \/ Pending(d) # {})
      <3>1. o \in Pending(d) => lease[o].pending
        BY DEF Pending
      <3>2. Pending(d) \subseteq Objects
        BY DEF Pending, Records
      <3> QED
        BY <1>3, <2>2, <2>6, <3>1, <3>2
    <2> QED
      BY <2>1, <2>3, <2>4, <2>5, <2>6 DEF DeletesAreCarriedOut
  <1>11. ObjectType' /\ CountsAreExact'
    <2>1. \A x \in Objects : Releasing(x)' = Releasing(x)
      BY <1>0, <1>4, <1>5 DEF Releasing
    <2> QED
      BY <1>3, <2>1 DEF ObjectInv, ObjectType, CountsAreExact
  <1>12. Owns(t, o) /\ count[o] = 0 /\ \A u \in Threads : Owns(u, o) => u = t
    BY <1>0, <1>1 DEF ObjectInv, OwnersAreAlone, Owns, Closing
  <1>13. OwnersAreAlone'
    <2>1. \A u \in Threads, x \in Objects : Owns(u, x)' => Owns(u, x)
      BY <1>0, <1>1, <1>4, <1>5 DEF Owns, Opening, Closing
    <2> QED
      BY <1>3, <2>1 DEF ObjectInv, OwnersAreAlone
  <1>14. LeasesLast'
    <2>1. \A x \in Objects : count'[x] > 0 => x \notin closed' /\ lease'[x].key # None
      BY <1>3, <1>7, <1>12, LeasesLastIs DEF ObjectInv
    <2>2. \A u \in Threads : call'[u].at \in Opening => call'[u].obj \notin closed'
      BY <1>3, <1>4, <1>5, LeasesLastIs DEF ObjectInv, Opening
    <2>3. \A u \in Threads : call'[u].at \in Held => lease'[call'[u].obj].key # None
      <3>1. \A u \in Threads : call'[u].at \in Held => u # t
        BY <1>4, <1>5 DEF Held
      <3>2. \A u \in Threads : call[u].at \in Held => call[u].obj \in Objects
        BY CallIs DEF CallFits, Held
      <3>3. \A u \in Threads : call[u].at \in Held /\ call[u].obj = o => u = t
        BY <1>12 DEF Owns, Opening, Closing, Held
      <3> QED
        BY <1>5, <1>7, <3>1, <3>2, <3>3, LeasesLastIs DEF ObjectInv
    <2>4. ASSUME NEW x \in Objects, lease'[x].key # None
          PROVE  count'[x] > 0 \/ \E u \in Threads : call'[u].obj = x /\ call'[u].at \in Held
      <3>1. x # o /\ lease[x].key # None
        BY <1>7, <2>4
      <3>2. count[x] > 0 \/ \E u \in Threads : call[u].obj = x /\ call[u].at \in Held
        BY <3>1, LeasesLastIs DEF ObjectInv
      <3> QED
        BY <1>1, <1>3, <1>5, <3>1, <3>2
    <2> QED
      BY <2>1, <2>2, <2>3, <2>4 DEF LeasesLast, Held
  <1> QED
    BY <1>4, <1>8, <1>9, <1>10, <1>11, <1>13, <1>14 DEF ObjectInv

-----------------------------------------------------------------------------
LEMMA StillKeeps ==
  ASSUME FileInv, UNCHANGED vars
  PROVE  FileInv'
  <1>1. UNCHANGED <<handles, count, closed, call, node, lease, sticky, doomed>>
    BY DEF vars, shareVars, objectVars
  <1>2. CallType' /\ ShareType' /\ ObjectInv' /\ OpensAreCompatible'
    BY <1>1 DEF FileInv, CallType, ShareType, ObjectInv, ObjectType, CountsAreExact, Releasing,
                OwnersAreAlone, Owns, LeasesLast, OpensAreCompatible, Shared
  <1>3. DeletesAreCarriedOut'
    BY <1>1 DEF FileInv, DeletesAreCarriedOut, Pending, Records
  <1> QED
    BY <1>2, <1>3 DEF FileInv

LEMMA FileIsInductive == FileInv /\ [Next]_vars => FileInv'
  <1> SUFFICES ASSUME FileInv, [Next]_vars PROVE FileInv'
    OBVIOUS
  <1>1. CASE UNCHANGED vars
    BY <1>1, StillKeeps
  <1>2. ASSUME NEW t \in Threads, NEW q \in Opens, Open(t, q) PROVE FileInv'
    BY <1>2, OpenKeeps
  <1>3. ASSUME NEW t \in Threads, NEW o \in Objects, Duplicate(t, o) PROVE FileInv'
    BY <1>3, DuplicateKeeps
  <1>4. ASSUME NEW t \in Threads, NEW o \in Objects, Close(t, o) PROVE FileInv'
    BY <1>4, CloseKeeps
  <1>5. ASSUME NEW t \in Threads, NEW o \in Objects,
               \/ Dispose(t, o) \/ Rename(t, o) \/ Associate(t, o)
               \/ Transfer(t, o) \/ BeginAsync(t, o) \/ Decide(t, o)
        PROVE  FileInv'
    <2>1. Asks(t)
      BY <1>5, Zenon DEF Asks
    <2> QED
      BY <2>1, QuietStepKeeps
  <1>6. ASSUME NEW t \in Threads, SetIoCompletion(t) \/ RemoveIoCompletion(t) \/ TimeOut(t) PROVE FileInv'
    <2>1. Asks(t)
      BY <1>6, Zenon DEF Asks
    <2> QED
      BY <2>1, QuietStepKeeps
  <1>7. ASSUME NEW t \in Threads, GoOn(t) PROVE FileInv'
    <2>1. CASE OpenReserve(t)
      BY <2>1, ReserveKeeps
    <2>2. CASE OpenInsert(t)
      BY <2>2, InsertKeeps
    <2>3. CASE ReleaseHandle(t)
      BY <2>3, ReleaseHandleKeeps
    <2>4. CASE Unlease(t)
      BY <2>4, UnleaseKeeps
    <2>5. CASE RemoveFile(t)
      BY <2>5, RemoveFileKeeps
    <2>6. CASE GoesOnQuietly(t) \/ OpenDevice(t) \/ ResetFile(t) \/ Mark(t) \/ Move(t)
      BY <2>6, QuietStepKeeps
    <2> QED
      BY <1>7, <2>1, <2>2, <2>3, <2>4, <2>5, <2>6, Zenon DEF GoOn, GoesOnQuietly
  <1> QED
    BY <1>1, <1>2, <1>3, <1>4, <1>5, <1>6, <1>7, Zenon DEF Next

LEMMA FilesStart == Init => FileInv
  <1> SUFFICES ASSUME Init PROVE FileInv
    OBVIOUS
  <1>1. /\ node \in [Paths -> {"none", "file"}] /\ lease = [o \in Objects |-> NoLease]
        /\ sticky = {} /\ doomed = {} /\ closed = {}
        /\ handles = [o \in Objects |-> 0] /\ count = [o \in Objects |-> 0]
        /\ call = [t \in Threads |-> Idle]
    BY DEF Init, ShareInit
  <1>2. \A t \in Threads : call[t].at = "out"
    BY <1>1, IdleFits
  <1>3. CallType
    <2>1. \A t \in Threads : CallFits(call[t])
      BY <1>2 DEF CallFits
    <2> QED
      BY <1>1, <2>1, IdleFits DEF CallType
  <1>4. NoLease \in LeaseRecord /\ NoLease.key = None
    BY DEF NoLease, LeaseRecord
  <1>5. \A o \in Objects : lease[o].key = None /\ count[o] = 0 /\ handles[o] = 0
    BY <1>1, <1>4
  <1>6. ShareType /\ ObjectType
    BY <1>1, <1>4 DEF ShareType, ObjectType
  <1>7. CountsAreExact
    <2>1. \A o \in Objects : Releasing(o) = {}
      BY <1>2 DEF Releasing
    <2>2. \A o \in Objects : Cardinality(Releasing(o)) = 0
      BY <2>1, FS_EmptySet
    <2> QED
      BY <1>5, <2>2 DEF CountsAreExact
  <1>8. OwnersAreAlone /\ LeasesLast
    BY <1>2, <1>5 DEF OwnersAreAlone, LeasesLast, Owns, Opening, Closing
  <1>9. OpensAreCompatible /\ DeletesAreCarriedOut
    BY <1>1, <1>5 DEF OpensAreCompatible, DeletesAreCarriedOut
  <1> QED
    BY <1>3, <1>6, <1>7, <1>8, <1>9 DEF FileInv, ObjectInv

LEMMA FilesAlways == Spec => []FileInv
  BY FilesStart, FileIsInductive, PTL DEF Spec

-----------------------------------------------------------------------------
\* HandleTable::close() and KernelFileObject::release_handle(): the entry goes
\* before the count does, and the close of whoever lowers the count to zero is
\* the only one; an object that a handle names is open and has its lease, with
\* any number of threads that duplicate and close.
THEOREM HandlesAreOfOpenFiles == Spec => []HandlesNameOpenFiles
  <1>1. FileInv => HandlesNameOpenFiles
    <2> SUFFICES ASSUME FileInv, NEW o \in Objects, handles[o] > 0
                 PROVE  o \notin closed /\ lease[o].key # None
      BY DEF HandlesNameOpenFiles
    <2>1. PICK n \in Nat : n = Cardinality(Releasing(o))
      BY ReleasingIsFinite
    <2>2. count[o] = handles[o] + n /\ handles[o] \in Nat
      BY <2>1 DEF FileInv, ObjectInv, ObjectType, CountsAreExact
    <2>3. count[o] > 0
      BY <2>2
    <2> QED
      BY <2>3, LeasesLastIs DEF FileInv, ObjectInv
  <1> QED
    BY <1>1, FilesAlways, PTL

\* OpenShareState::reserve() and rename(): two opens of a path allow each
\* other's access, however paths are opened, renamed, replaced and closed.
THEOREM OpensGoTogether == Spec => []OpensAreCompatible
  <1>1. FileInv => OpensAreCompatible
    BY DEF FileInv
  <1> QED
    BY <1>1, FilesAlways, PTL

\* OpenShareState::set_delete_pending() and release(): a deletion that was asked
\* for and not taken back is marked on an open, kept with the path, or on its
\* way to the device, whichever of the path's opens closes first.
THEOREM DeletesAreNotForgotten == Spec => []DeletesAreCarriedOut
  <1>1. FileInv => DeletesAreCarriedOut
    BY DEF FileInv
  <1> QED
    BY <1>1, FilesAlways, PTL

=============================================================================
