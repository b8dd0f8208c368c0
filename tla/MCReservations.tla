--------------------------- MODULE MCReservations ---------------------------
(***************************************************************************)
(* Instances of Reservations for TLC.                                      *)
(***************************************************************************)
EXTENDS Reservations, TLC

CONSTANTS a1, a2, g1, g2, t1, t2, d1

\* Two words of one granule, and everyone uses both.
OneGranule == a1 :> g1 @@ a2 :> g1
AnyWordReserved == [t \in Threads |-> Addrs]
AnyWordStored == [t \in Threads \cup Devices |-> Addrs]

\* A single word.
OneWord == a1 :> g1

\* Two granules.  Only the first is ever reserved, by both threads; t2 and the
\* device also store to it otherwise, and t2 to the other one, which the commit
\* gate does not guard.
TwoGranules == a1 :> g1 @@ a2 :> g2
FirstReserved == [t \in Threads |-> {a1}]
SecondStored == [t \in Threads \cup Devices |-> CASE t = t1 -> {}
                                                   [] t = t2 -> {a1, a2}
                                                   [] OTHER  -> {a1}]

ThreadSymmetry == Permutations(Threads)
=============================================================================
