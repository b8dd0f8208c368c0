---------------------------- MODULE MCDispatcher ----------------------------
(***************************************************************************)
(* Instances of Dispatcher for TLC.  The threads and objects of a run are   *)
(* the constants of its .cfg; the waits that its threads make are built    *)
(* here from those.                                                        *)
(***************************************************************************)
EXTENDS Dispatcher, SequencesExt

Wait(objects, all, timeout) ==
  [objects |-> objects, all |-> all, alertable |-> FALSE, timeout |-> timeout,
   signal |-> None]
AlertableWait(objects, timeout) ==
  [Wait(objects, FALSE, timeout) EXCEPT !.alertable = TRUE]
SignalAndWait(o, objects) ==
  [Wait(objects, FALSE, "infinite") EXCEPT !.signal = o]

\* Two units at most.
TwoUnits == [s \in Semaphores |-> 2]

\* A SignalState the guest may store: out of range, clear, and signalled.
StoredValues == {-1, 0, 1, 3}

\* Each object alone.
SingleWaits == {Wait(<<o>>, FALSE, "infinite") : o \in Counted \cup Mutants}

\* A mutant and a timer.  One thread's waits may be ended by a timeout, an
\* alert, an APC or termination; the other competes with it for each signal.
InterruptedWaits ==
  [t \in Threads |->
    UNION {IF t \in Alerts
             THEN {Wait(<<o>>, FALSE, "zero"), Wait(<<m, o>>, TRUE, "finite"),
                   AlertableWait(<<o>>, "finite"), AlertableWait(<<m>>, "finite")}
             ELSE {Wait(<<o, m>>, FALSE, "infinite"), Wait(<<m, o>>, TRUE, "infinite"),
                   SignalAndWait(m, <<o>>)} : o \in Timers, m \in Mutants}]

\* An event and a semaphore in guest memory: each, both, and signal-and-wait
\* from either to the other.
SignalWaits ==
  [t \in Threads |->
    SingleWaits \cup
    UNION {{Wait(<<e, s>>, TRUE, "infinite"), SignalAndWait(s, <<e>>),
            SignalAndWait(e, <<s>>)} : e \in Events, s \in Semaphores}]

\* One thread's waits may be ended by a timeout, an alert, termination or the
\* exit of the other, which signals the event and then competes for it.
WakeupWaits ==
  [t \in Threads |->
    UNION {IF t \in Alerts
             THEN {Wait(<<e>>, FALSE, "finite"), AlertableWait(<<e, x>>, "infinite")}
             ELSE {SignalAndWait(e, <<e>>)} : e \in Events, x \in Exits}]

ThreadAndMutantWaits ==
  [t \in Threads |->
    SingleWaits \cup {Wait(<<m, x>>, FALSE, "infinite") :
                        m \in Mutants, x \in Threads \ {t}}]

Symmetry == Permutations(Threads)
=============================================================================
