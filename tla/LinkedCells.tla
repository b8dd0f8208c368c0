---------------------------- MODULE LinkedCells ----------------------------
(***************************************************************************)
(* What the guest is promised about lwarx/stwcx. by the reservation        *)
(* monitor of include/xenon/cpu/memory_port.hpp, with no word of slots,    *)
(* generations, gates or counters.                                         *)
(*                                                                         *)
(* A thread may be linked to one granule.  A conditional store takes       *)
(* effect in one step, and only for a thread that is still linked; by then *)
(* nobody else is linked to that granule, so of all the threads that       *)
(* loaded the same version at most one stores.  A store made through a     *)
(* physical write window also finds nobody linked.  An ordinary store is   *)
(* only promised to land at some moment: what it does to the links is the  *)
(* subject of the invariants of module Reservations.                       *)
(***************************************************************************)
EXTENDS Naturals

CONSTANTS Threads, Granules, None

VARIABLES link,   \* the granule each thread is linked to, or None
          last    \* the kind of store each granule last saw

vars == <<link, last>>

Init ==
    /\ link = [t \in Threads |-> None]
    /\ last = [g \in Granules |-> "initial"]

LinkedTo(g) == {t \in Threads : link[t] = g}

\* A load-reserve that keeps its reservation.
Link(t, g) ==
    /\ link' = [link EXCEPT ![t] = g]
    /\ UNCHANGED last

\* Reservations may be lost at any moment and for any reason.
Unlink(S) ==
    /\ link' = [t \in Threads |-> IF t \in S THEN None ELSE link[t]]
    /\ UNCHANGED last

\* A conditional store that succeeds; it consumes the link.
StoreConditional(t) ==
    /\ link[t] # None
    /\ LinkedTo(link[t]) = {t}
    /\ last' = [last EXCEPT ![link[t]] = "conditional"]
    /\ link' = [link EXCEPT ![t] = None]

\* A store made while the physical write window is open.
ExclusiveStore(g) ==
    /\ LinkedTo(g) = {}
    /\ last' = [last EXCEPT ![g] = "window"]
    /\ UNCHANGED link

\* An ordinary store: by a thread that is not itself linked to the granule.
PlainStore(t, g) ==
    /\ link[t] # g
    /\ last' = [last EXCEPT ![g] = "plain"]
    /\ UNCHANGED link

Next ==
    \/ \E S \in SUBSET Threads : Unlink(S)
    \/ \E g \in Granules : ExclusiveStore(g)
    \/ \E t \in Threads :
          \/ StoreConditional(t)
          \/ \E g \in Granules : Link(t, g) \/ PlainStore(t, g)

Spec == Init /\ [][Next]_vars
=============================================================================
