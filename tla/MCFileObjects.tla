---------------------------- MODULE MCFileObjects ----------------------------
(* Instances of FileObjects for TLC. *)
EXTENDS FileObjects

CONSTANTS a, b, t1, t2, t3

Args(path, access, share, kind, disposition, deletes) ==
    [path |-> path, access |-> access, share |-> share, kind |-> kind,
     disposition |-> disposition, deleteOnClose |-> deletes]

\* A reader that may rename and delete, and allows the same to others; a writer
\* that allows all, which the reader does not; a directory that is deleted when
\* it is closed.
OpenArgs == {
    Args(a, {"read", "delete"}, {"read", "delete"}, "any", "open", FALSE),
    Args(a, {"write"}, Rights, "file", "overwriteIf", FALSE),
    Args(b, {"read", "delete"}, Rights, "directory", "openIf", TRUE)}

\* Names: two threads open, rename and delete.  Requests: a file is closed
\* under transfers and waits.  Packets: two removers share a port.
CallsOf(x, y, z) == t1 :> x @@ t2 :> y @@ t3 :> z
Cases == {
    CallsOf({"open", "close", "dispose", "rename"}, {"open", "close"}, {}),
    CallsOf({"open", "duplicate", "close"}, {"request", "transfer", "close"}, {"decide"}),
    CallsOf({"open", "associate", "transfer"}, {"remove"}, {"remove", "packet"})}
=============================================================================
