-------------------------- MODULE MCThreadLifecycle --------------------------
(* Small instances of ThreadLifecycle.                                       *)
EXTENDS ThreadLifecycle

CONSTANTS main, t1

\* The main thread creates a thread, suspends and resumes it, waits for it and
\* closes its handle at any time; the created one ends itself and waits for
\* threads.
Roles == [t \in Threads |-> IF t = main THEN Calls \ {"terminate"}
                            ELSE {"terminate", "join"}]
==============================================================================
