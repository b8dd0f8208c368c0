------------------------------ MODULE ShareState ------------------------------
(***************************************************************************)
(* Which paths are open and how: OpenShareState of the I/O manager, with   *)
(* the leases that file objects hold on it, and the host device below it,  *)
(* with the registry of its own open handles.  Every operator is one       *)
(* critical section of the share state's mutex or one call of the device.  *)
(* A path is a model value; contents, attributes and the children of       *)
(* directories are left out.                                               *)
(***************************************************************************)
EXTENDS Naturals, FiniteSets

CONSTANTS
    Paths,
    Objects,  \* file objects, each with its lease
    None

Rights == {"read", "write", "delete"}

VARIABLES
    node,    \* what the host has at each path
    host,    \* the path that each object's host handle was opened with
    lease,   \* each object's record: its path (None once released) and rights
    sticky,  \* paths with sticky_delete_pending
    doomed   \* history: paths whose deletion was asked for and not yet tried

shareVars == <<node, host, lease, sticky, doomed>>

NoLease == [key |-> None, access |-> {}, share |-> {}, pending |-> FALSE]

ShareInit ==
    /\ node \in [Paths -> {"none", "file"}]
    /\ host = [o \in Objects |-> None]
    /\ lease = [o \in Objects |-> NoLease]
    /\ sticky = {} /\ doomed = {}

Records(p) == {o \in Objects : lease[o].key = p}
Pending(p) == {o \in Records(p) : lease[o].pending}

\* access_is_shared(), both ways.
Shared(x, y) == x.access \subseteq y.share /\ y.access \subseteq x.share

-----------------------------------------------------------------------------
\* Mutant: the new open's access is checked, not what it allows to others.
ReservableOneWay(q) ==
    /\ q.path \notin sticky /\ Pending(q.path) = {}
    /\ \A o \in Records(q.path) : q.access \subseteq lease[o].share
\* reserve(): an open fits the opens there are, and no deletion is pending.
Reservable(q) ==
    /\ q.path \notin sticky /\ Pending(q.path) = {}
    /\ \A o \in Records(q.path) : Shared(q, lease[o])

Reserve(o, q) ==
    /\ lease' = [lease EXCEPT ![o] = [key |-> q.path, access |-> q.access,
                                      share |-> q.share, pending |-> FALSE]]
    /\ UNCHANGED <<node, host, sticky, doomed>>

\* set_delete_pending(): a mark can be taken back until its owner has closed.
SetDeletePending(o, value) ==
    LET p == lease[o].key
        marked == [lease EXCEPT ![o].pending = value]
    IN  IF p = None \/ (~value /\ p \in sticky)
          THEN UNCHANGED shareVars
          ELSE /\ lease' = marked
               /\ doomed' = IF value THEN doomed \cup {p}
                            ELSE IF Pending(p) \subseteq {o} THEN doomed \ {p} ELSE doomed
               /\ UNCHANGED <<node, host, sticky>>

\* delete_is_shared() of the device's registry, which knows a handle under the
\* path it was opened with, also after a rename.
DeleteIsShared(p) == \A o \in Objects : host[o] = p => "delete" \in lease[o].share

\* rename(): the only open of a path moves to a path that is not open.
CanRename(o, target, replace) ==
    LET p == lease[o].key
    IN  /\ p # None /\ Records(p) = {o} /\ p \notin sticky /\ ~lease[o].pending
        /\ Records(target) = {} /\ target \notin sticky
        /\ node[p] # "none" /\ DeleteIsShared(p) /\ DeleteIsShared(target)
        /\ node[target] = "none" \/ (replace /\ node[target] = "file")

RenameTo(o, target) ==
    LET p == lease[o].key
    IN  /\ lease' = [lease EXCEPT ![o].key = target]
        /\ node' = [node EXCEPT ![target] = node[p], ![p] = "none"]
        /\ UNCHANGED <<host, sticky, doomed>>

\* Mutant: only the last record's own mark counts.
ReleaseForgetting(o) ==
    /\ lease' = [lease EXCEPT ![o] = NoLease]
    /\ UNCHANGED <<node, host, sticky, doomed>>
\* release(): the mark of a record outlives it while others have the path open.
Release(o) ==
    LET p == lease[o].key
    IN  /\ lease' = [lease EXCEPT ![o] = NoLease]
        /\ sticky' = IF Records(p) = {o} THEN sticky \ {p}
                     ELSE IF lease[o].pending THEN sticky \cup {p} ELSE sticky
        /\ UNCHANGED <<node, host, doomed>>

\* The last record goes, and a deletion is due: the device's turn, after the
\* mutex is released.
ShouldDelete(o) ==
    LET p == lease[o].key
    IN  p # None /\ Records(p) = {o} /\ (lease[o].pending \/ p \in sticky)

-----------------------------------------------------------------------------
Truncating == {"overwrite", "overwriteIf"}
Creating == {"create", "openIf", "overwriteIf"}

\* HostPathDevice::open() of a file succeeds.
CanOpenFile(q) ==
    LET there == node[q.path]
    IN  /\ there # "dir"
        /\ there = "none" => q.disposition \in Creating
        /\ there = "file" => q.disposition # "create"
        /\ there = "none" \/ q.disposition \in Truncating => "write" \in q.access
        /\ \A o \in Objects : host[o] = q.path => Shared(q, lease[o])

OpenFile(o, q) ==
    /\ node' = [node EXCEPT ![q.path] = "file"]
    /\ host' = [host EXCEPT ![o] = q.path]
    /\ UNCHANGED <<lease, sticky, doomed>>

\* HostPathDevice::create_directory()
CreateDirectory(p) ==
    /\ node' = [node EXCEPT ![p] = "dir"]
    /\ UNCHANGED <<host, lease, sticky, doomed>>

\* file_.reset()
CloseFile(o) ==
    /\ host' = [host EXCEPT ![o] = None]
    /\ UNCHANGED <<node, lease, sticky, doomed>>

\* HostPathDevice::remove(); whoever asks for it drops its error.
RemoveNode(p) ==
    /\ node' = IF DeleteIsShared(p) THEN [node EXCEPT ![p] = "none"] ELSE node
    /\ doomed' = IF Pending(p) = {} /\ p \notin sticky THEN doomed \ {p} ELSE doomed
    /\ UNCHANGED <<host, lease, sticky>>
=============================================================================
