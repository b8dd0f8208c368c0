---------------------------- MODULE Reservations ----------------------------
(***************************************************************************)
(* The strict reservation monitor of guest memory: load-reserve and        *)
(* store-conditional (lwarx/stwcx.), the ordinary stores that break        *)
(* reservations, and the physical write window of device readback          *)
(* (include/xenon/cpu/memory_port.hpp, src/memory/guest/reservations,      *)
(* src/memory/guest/physical/physical_writes.cpp).                         *)
(*                                                                         *)
(* One step of a thread is one atomic access to shared state, or a run of  *)
(* accesses of which at most one can be observed.  Memory is sequentially  *)
(* consistent: the acquire and release orders of the code are not modelled *)
(* further.  Three unbounded counters are kept by what is read of them:    *)
(*  - the ticket gate is the queue of ticket holders (held() is "the queue *)
(*    is not empty", now_serving == my_ticket is "I am at its head");      *)
(*  - the write epoch is only compared with an earlier reading, so each    *)
(*    thread keeps whether it has moved since (moved);                     *)
(*  - a generation is only compared with those of live slots and tokens,   *)
(*    so a new one is any that none of them holds.  The 2^32 wrap-around   *)
(*    of the counter is left out by this.                                  *)
(* The address and the width of a descriptor are one value, an address.    *)
(***************************************************************************)
EXTENDS Naturals, Sequences, FiniteSets

CONSTANTS
    Threads,     \* guest threads: load-reserve, conditional and plain stores
    Devices,     \* host threads that open the physical write window
    Addrs,       \* reservable words
    Granule,     \* the 128-byte granule of each word
    Reserves,    \* the words each guest thread loads and stores conditionally
    Stores,      \* the words each actor stores to otherwise
    SlotCount,   \* kReservationSlotCount (6 in the code)
    None

ASSUME SlotAssumption == SlotCount \in Nat \ {0}
ASSUME RolesAssumption ==
    /\ Threads \cap Devices = {} /\ None \notin Threads \cup Devices
    /\ IsFiniteSet(Threads) /\ IsFiniteSet(Devices)
ASSUME WordsAssumption ==
    /\ Reserves \in [Threads -> SUBSET Addrs]
    /\ Stores \in [Threads \cup Devices -> SUBSET Addrs]
ASSUME GranuleAssumption ==
    /\ DOMAIN Granule = Addrs /\ None \notin Addrs
    /\ \A a \in Addrs : Granule[a] # None

VARIABLES
    pc,          \* where each actor is in its operation
    addr,        \* the address of the operation
    reservation, \* CpuState::reservation: address and token, or None
    participant, \* enter_write's reservation_participant
    slots,       \* reservation_slots_
    seen,        \* reservation_seen_bitmap_: granules ever reserved
    gate,        \* ReservationCommitGate: the ticket holders in order
    coherency,   \* coherency_commit_gate_: the window's owner, or None
    writers,     \* active_coherency_writers
    ops,         \* active_reservation_ops
    moved,       \* the write epoch differs from this thread's last reading
    last,        \* per granule, the kind of the last store made to it
    since        \* history: kinds of store to the granule since the load

local  == <<addr, reservation, participant>>
shared == <<slots, seen, gate, coherency, writers, ops>>
ghosts == <<last, since>>
vars   == <<pc, local, shared, moved, ghosts>>

Actors   == Threads \cup Devices
Slots    == 1..SlotCount
Granules == {Granule[a] : a \in Addrs}
Held     == gate # <<>>

Goto(t, l)     == pc' = [pc EXCEPT ![t] = l]
At(t, l)       == pc[t] = l
Step(t, l, l2) == At(t, l) /\ Goto(t, l2)
Return(t, l)   == Step(t, l, "idle") /\ addr' = [addr EXCEPT ![t] = None]

Init ==
    /\ pc = [t \in Actors |-> "idle"]
    /\ addr = [t \in Actors |-> None]
    /\ reservation = [t \in Actors |-> None]
    /\ participant = [t \in Actors |-> FALSE]
    /\ slots = [s \in Slots |-> None]
    /\ seen = {}
    /\ gate = <<>>
    /\ coherency = None
    /\ writers = 0
    /\ ops = 0
    /\ moved = [t \in Actors |-> FALSE]
    /\ last = [g \in Granules |-> "initial"]
    /\ since = [t \in Actors |-> {}]

-----------------------------------------------------------------------------
(* Slots and tokens.                                                       *)

Generations == 1..(Cardinality(Threads) + SlotCount + 1)
Tokens == [addr : Addrs, slot : Slots, gen : Generations]
Entries == [addr : Addrs, gen : Generations, status : {"Active", "Committing"}]
ASSUME NoneAssumption == None \notin Tokens \cup Entries
InUse == {slots[s].gen : s \in {s \in Slots : slots[s] # None}}
         \cup {reservation[t].gen : t \in {t \in Threads : reservation[t] # None}}
FreshGeneration == CHOOSE n \in Generations : n \notin InUse

\* The slot a token names still carries its generation, in the given status.
Names(tok, status) ==
    /\ tok # None
    /\ slots[tok.slot] # None
    /\ slots[tok.slot].gen = tok.gen
    /\ slots[tok.slot].status = status

\* cancel_reservation: only an Active slot of this generation is cleared.
Cancelled(tok) ==
    IF Names(tok, "Active") THEN [slots EXCEPT ![tok.slot] = None] ELSE slots

\* Mutant of Invalidated: only the very word that is stored to.
InvalidatedWord(g) ==
    [s \in Slots |-> IF /\ slots[s] # None /\ slots[s].status = "Active"
                        /\ \E t \in Actors : pc[t] # "idle" /\ addr[t] = slots[s].addr
                     THEN None ELSE slots[s]]

\* invalidate_range: every Active slot in the granule is cleared.
Invalidated(g) ==
    [s \in Slots |-> IF /\ g \in seen
                        /\ slots[s] # None
                        /\ slots[s].status = "Active"
                        /\ Granule[slots[s].addr] = g
                     THEN None ELSE slots[s]]

Invalidate(t) ==
    /\ slots' = Invalidated(Granule[addr[t]])
    /\ UNCHANGED <<local, seen, gate, coherency, writers, ops, moved, ghosts>>

\* A load-reserve that has its value and has not returned yet.
Reserving == {"epoch_after", "writers", "reserve_lost", "reserve_end"}

\* The bytes change.  Every thread whose last load-reserve was of this granule
\* has one more store to account for.
StoreBytes(t, how) ==
    LET g == Granule[addr[t]]
        kind(u) == IF how = "plain" /\ pc[u] \in Reserving THEN "overlapping"
                   ELSE how
    IN /\ last' = [last EXCEPT ![g] = how]
       /\ since' = [u \in Actors |->
             IF reservation[u] # None /\ Granule[reservation[u].addr] = g
             THEN since[u] \cup {kind(u)} ELSE since[u]]
       /\ UNCHANGED <<local, shared, moved>>

\* publish_write_metadata / mark_write, as far as a load-reserve can tell: the
\* epoch moves under the threads that have read it and will read it again.
PublishEpoch ==
    /\ moved' = [u \in Actors |->
                    moved[u] \/ pc[u] \in {"claim", "load", "epoch_after"}]
    /\ UNCHANGED <<local, shared, ghosts>>

-----------------------------------------------------------------------------
(* Load-reserve: reserve32 and reserve64.                                  *)

\* A load-reserve first cancels the reservation the thread still holds.
ReserveBegin(t, a) ==
    /\ Step(t, "idle", "reserve") /\ a \in Reserves[t]
    /\ addr' = [addr EXCEPT ![t] = a]
    /\ slots' = Cancelled(reservation[t])
    /\ reservation' = [reservation EXCEPT ![t] = None]
    /\ since' = [since EXCEPT ![t] = {}]
    /\ UNCHANGED <<participant, seen, gate, coherency, writers, ops, moved, last>>

\* begin_reservation_operation: wait for a quiet gate, count, look again.
ReserveWait(t) ==
    /\ Step(t, "reserve", "reserve_count")
    /\ ~Held
    /\ UNCHANGED <<local, shared, moved, ghosts>>

ReserveCount(t) ==
    /\ Step(t, "reserve_count", "reserve_check")
    /\ ops' = ops + 1
    /\ UNCHANGED <<local, slots, seen, gate, coherency, writers, moved, ghosts>>

ReserveCheck(t) ==
    /\ At(t, "reserve_check")
    /\ IF Held THEN Goto(t, "reserve") /\ ops' = ops - 1
               ELSE Goto(t, "epoch_before") /\ UNCHANGED ops
    /\ UNCHANGED <<local, slots, seen, gate, coherency, writers, moved, ghosts>>

\* The epoch is read, then claim_reservation marks the granule.
ReserveMark(t) ==
    /\ Step(t, "epoch_before", "claim")
    /\ moved' = [moved EXCEPT ![t] = FALSE]
    /\ seen' = seen \cup {Granule[addr[t]]}
    /\ UNCHANGED <<local, slots, gate, coherency, writers, ops, ghosts>>

\* claim_reservation: the first free slot, or no reservation at all.
ReserveClaim(t) ==
    /\ Step(t, "claim", "load")
    /\ LET free == {s \in Slots : slots[s] = None}
           slot == CHOOSE s \in free : \A r \in free : s <= r
       IN IF free = {} THEN UNCHANGED <<slots, reservation>>
          ELSE /\ slots' = [slots EXCEPT ![slot] =
                      [addr |-> addr[t], gen |-> FreshGeneration, status |-> "Active"]]
               /\ reservation' = [reservation EXCEPT ![t] =
                      [addr |-> addr[t], slot |-> slot, gen |-> FreshGeneration]]
    /\ UNCHANGED <<addr, participant, seen, gate, coherency, writers, ops, moved,
                   ghosts>>

\* The word is loaded: from here on every store to the granule counts.
ReserveLoad(t) ==
    /\ Step(t, "load", "epoch_after")
    /\ since' = [since EXCEPT ![t] = {}]
    /\ UNCHANGED <<local, shared, moved, last>>

\* epoch_after, loaded before active_coherency_writers.
ReserveEpoch(t) ==
    /\ At(t, "epoch_after")
    /\ Goto(t, IF moved[t] THEN "reserve_lost" ELSE "writers")
    /\ moved' = [moved EXCEPT ![t] = FALSE]
    /\ UNCHANGED <<local, shared, ghosts>>

ReserveWriters(t) ==
    /\ At(t, "writers")
    /\ Goto(t, IF writers # 0 THEN "reserve_lost" ELSE "reserve_end")
    /\ UNCHANGED <<local, shared, moved, ghosts>>

ReserveLost(t) ==
    /\ Step(t, "reserve_lost", "reserve_end")
    /\ slots' = Cancelled(reservation[t])
    /\ reservation' = [reservation EXCEPT ![t] = None]
    /\ since' = [since EXCEPT ![t] = {}]
    /\ UNCHANGED <<addr, participant, seen, gate, coherency, writers, ops, moved,
                   last>>

\* end_reservation_operation, and the call returns.
ReserveEnd(t) ==
    /\ Return(t, "reserve_end")
    /\ ops' = ops - 1
    /\ UNCHANGED <<reservation, participant, slots, seen, gate, coherency, writers, moved, ghosts>>

\* cancel_reservation called by its owner (a spin lock found taken).
Cancel(t) ==
    /\ At(t, "idle") /\ reservation[t] # None
    /\ slots' = Cancelled(reservation[t])
    /\ reservation' = [reservation EXCEPT ![t] = None]
    /\ since' = [since EXCEPT ![t] = {}]
    /\ UNCHANGED <<pc, addr, participant, seen, gate, coherency, writers, ops,
                   moved, last>>

-----------------------------------------------------------------------------
(* Store-conditional: store_conditional32 and store_conditional64.         *)

\* ReservationCommitGate::acquire: take the next ticket.
CommitBegin(t, a) ==
    /\ Step(t, "idle", "commit_ticket") /\ a \in Reserves[t]
    /\ reservation[t] # None
    /\ addr' = [addr EXCEPT ![t] = a]
    /\ gate' = Append(gate, t)
    /\ UNCHANGED <<reservation, participant, slots, seen, coherency, writers, ops,
                   moved, ghosts>>

\* Wait to be served, then for writers, then for reservation operations; a
\* count found nonzero starts the two checks again.
CommitServed(t) ==
    /\ Step(t, "commit_ticket", "commit_writers")
    /\ Head(gate) = t
    /\ UNCHANGED <<local, shared, moved, ghosts>>

DrainWriters(t, l, l2) ==
    /\ Step(t, l, l2)
    /\ writers = 0
    /\ UNCHANGED <<local, shared, moved, ghosts>>

DrainOps(t, l, again, l2) ==
    /\ At(t, l)
    /\ Goto(t, IF ops = 0 THEN l2 ELSE again)
    /\ UNCHANGED <<local, shared, moved, ghosts>>

\* Mutant of CommitClaim: a slot that was cleared meanwhile is taken again.
CommitClaimCleared(t) ==
    LET tok == reservation[t] IN
    /\ At(t, "commit_claim")
    /\ IF slots[tok.slot] = None \/ Names(tok, "Active")
       THEN /\ Goto(t, "commit_invalidate")
            /\ slots' = [slots EXCEPT ![tok.slot] =
                   [addr |-> addr[t], gen |-> tok.gen, status |-> "Committing"]]
       ELSE Goto(t, "commit_release") /\ UNCHANGED slots
    /\ UNCHANGED <<local, seen, gate, coherency, writers, ops, moved, ghosts>>

\* claim_store_conditional: the slot must still be Active for this token and
\* this address; otherwise the token is cancelled and the store fails.
CommitClaim(t) ==
    LET tok == reservation[t] IN
    /\ At(t, "commit_claim")
    /\ IF Names(tok, "Active") /\ slots[tok.slot].addr = addr[t]
       THEN /\ Goto(t, "commit_invalidate")
            /\ slots' = [slots EXCEPT ![tok.slot].status = "Committing"]
       ELSE /\ Goto(t, "commit_release")
            /\ slots' = Cancelled(tok)
    /\ UNCHANGED <<local, seen, gate, coherency, writers, ops, moved, ghosts>>

\* The slot is freed once the store is published.
CommitClear(t) ==
    /\ Step(t, "commit_clear", "commit_release")
    /\ slots' = [slots EXCEPT ![reservation[t].slot] = None]
    /\ UNCHANGED <<local, seen, gate, coherency, writers, ops, moved, ghosts>>

\* ReservationCommitGate::release; stwcx. clears the reservation either way.
CommitRelease(t) ==
    /\ Return(t, "commit_release")
    /\ gate' = Tail(gate)
    /\ reservation' = [reservation EXCEPT ![t] = None]
    /\ since' = [since EXCEPT ![t] = {}]
    /\ UNCHANGED <<participant, slots, seen, coherency, writers, ops, moved, last>>

StoreConditional(t) ==
    \/ CommitServed(t)
    \/ DrainWriters(t, "commit_writers", "commit_ops")
    \/ DrainOps(t, "commit_ops", "commit_writers", "commit_claim")
    \/ CommitClaim(t)
    \/ Step(t, "commit_invalidate", "commit_store") /\ Invalidate(t)
    \/ Step(t, "commit_store", "commit_publish") /\ StoreBytes(t, "conditional")
    \/ Step(t, "commit_publish", "commit_clear") /\ PublishEpoch
    \/ CommitClear(t)
    \/ CommitRelease(t)

-----------------------------------------------------------------------------
(* Ordinary stores: enter_write, the store, finish_write.                  *)

WriteBegin(t, a) ==
    /\ Step(t, "idle", "write") /\ a \in Stores[t]
    /\ addr' = [addr EXCEPT ![t] = a]
    /\ UNCHANGED <<reservation, participant, shared, moved, ghosts>>

\* Mutant of WriteWait: the writer spins on the gate while it counts itself.
WriteNoWait(t) ==
    /\ Step(t, "write", "write_count")
    /\ UNCHANGED <<local, shared, moved, ghosts>>

\* Wait for the window to close while not counted.
WriteWait(t) ==
    /\ Step(t, "write", "write_count")
    /\ coherency = None
    /\ UNCHANGED <<local, shared, moved, ghosts>>

WriteCount(t) ==
    /\ Step(t, "write_count", "write_seen")
    /\ writers' = writers + 1
    /\ UNCHANGED <<local, slots, seen, gate, coherency, ops, moved, ghosts>>

\* Only a granule that has hosted a reservation joins the commit gate.
WriteSeen(t) ==
    /\ Step(t, "write_seen", "write_check")
    /\ participant' = [participant EXCEPT ![t] = Granule[addr[t]] \in seen]
    /\ ops' = IF participant'[t] THEN ops + 1 ELSE ops
    /\ UNCHANGED <<addr, reservation, slots, seen, gate, coherency, writers, moved,
                   ghosts>>

\* Mutant of Uncount: the sticky bit is consulted again on the way out.
UncountSeen(t) ==
    /\ writers' = writers - 1
    /\ ops' = IF Granule[addr[t]] \in seen THEN ops - 1 ELSE ops
    /\ participant' = [participant EXCEPT ![t] = FALSE]
    /\ UNCHANGED <<reservation, slots, seen, gate, coherency, moved, ghosts>>

\* Neither gate may have been raised meanwhile; if one was, both counts are
\* backed out before waiting.
Uncount(t) ==
    /\ writers' = writers - 1
    /\ ops' = IF participant[t] THEN ops - 1 ELSE ops
    /\ participant' = [participant EXCEPT ![t] = FALSE]
    /\ UNCHANGED <<reservation, slots, seen, gate, coherency, moved, ghosts>>

\* Mutants: a gate raised after the count is not noticed.
WriteNoCheck(t) ==
    /\ Step(t, "write_check", "write_check_gate")
    /\ UNCHANGED <<local, shared, moved, ghosts>>
WriteNoCheckGate(t) ==
    /\ Step(t, "write_check_gate", "write_invalidate")
    /\ UNCHANGED <<local, shared, moved, ghosts>>

WriteCheck(t) ==
    /\ At(t, "write_check")
    /\ IF coherency # None
       THEN Goto(t, "write") /\ Uncount(t) /\ UNCHANGED addr
       ELSE Goto(t, "write_check_gate") /\ UNCHANGED <<local, shared, moved, ghosts>>

WriteCheckGate(t) ==
    /\ At(t, "write_check_gate")
    /\ IF participant[t] /\ Held
       THEN Goto(t, "write_blocked") /\ Uncount(t) /\ UNCHANGED addr
       ELSE Goto(t, "write_invalidate") /\ UNCHANGED <<local, shared, moved, ghosts>>

WriteBlocked(t) ==
    /\ Step(t, "write_blocked", "write")
    /\ ~Held
    /\ UNCHANGED <<local, shared, moved, ghosts>>

\* finish_write after publication: the counts go back, the call returns.
WriteLeave(t) ==
    /\ Return(t, "write_leave")
    /\ Uncount(t)

Write(t) ==
    \/ WriteWait(t) \/ WriteCount(t) \/ WriteSeen(t)
    \/ WriteCheck(t) \/ WriteCheckGate(t) \/ WriteBlocked(t)
    \/ Step(t, "write_invalidate", "write_store") /\ Invalidate(t)
    \/ Step(t, "write_store", "write_publish") /\ StoreBytes(t, "plain")
    \/ Step(t, "write_publish", "write_leave") /\ PublishEpoch
    \/ WriteLeave(t)
-----------------------------------------------------------------------------
(* The physical write window: physical_write_window,                       *)
(* write_physical_exclusive and release_physical_write_window.             *)

\* The coherency gate is taken first, by compare-and-swap.
WindowBegin(d) ==
    /\ Step(d, "idle", "window_drain")
    /\ coherency = None
    /\ coherency' = d
    /\ UNCHANGED <<local, slots, seen, gate, writers, ops, moved, ghosts>>

\* Writers that entered before are let out, then a commit ticket is taken.
WindowTicket(d) ==
    /\ Step(d, "window_drain", "window_ticket")
    /\ writers = 0
    /\ gate' = Append(gate, d)
    /\ UNCHANGED <<local, slots, seen, coherency, writers, ops, moved, ghosts>>

WindowServed(d) ==
    /\ Step(d, "window_ticket", "window_writers")
    /\ Head(gate) = d
    /\ UNCHANGED <<local, shared, moved, ghosts>>

\* write_physical_exclusive: the window owns both gates, so it counts itself
\* without looking at them.
WindowWrite(d, a) ==
    /\ Step(d, "window_open", "window_invalidate") /\ a \in Stores[d]
    /\ addr' = [addr EXCEPT ![d] = a]
    /\ writers' = writers + 1
    /\ UNCHANGED <<reservation, participant, slots, seen, gate, coherency, ops,
                   moved, ghosts>>

WindowWritten(d) ==
    /\ Step(d, "window_leave", "window_open")
    /\ Uncount(d)
    /\ addr' = [addr EXCEPT ![d] = None]

\* release_physical_write_window: the commit gate first.
WindowClose(d) ==
    /\ Step(d, "window_open", "window_close")
    /\ gate' = Tail(gate)
    /\ UNCHANGED <<local, slots, seen, coherency, writers, ops, moved, ghosts>>

WindowClosed(d) ==
    /\ Step(d, "window_close", "idle")
    /\ coherency' = None
    /\ UNCHANGED <<local, slots, seen, gate, writers, ops, moved, ghosts>>

Window(d) ==
    \/ WindowTicket(d)
    \/ WindowServed(d)
    \/ DrainWriters(d, "window_writers", "window_ops")
    \/ DrainOps(d, "window_ops", "window_writers", "window_open")
    \/ Step(d, "window_invalidate", "window_store") /\ Invalidate(d)
    \/ Step(d, "window_store", "window_publish") /\ StoreBytes(d, "window")
    \/ Step(d, "window_publish", "window_leave") /\ PublishEpoch
    \/ WindowWritten(d)
    \/ WindowClose(d)
    \/ WindowClosed(d)

-----------------------------------------------------------------------------
Reserve(t) ==
    \/ ReserveWait(t) \/ ReserveCount(t) \/ ReserveCheck(t) \/ ReserveMark(t)
    \/ ReserveClaim(t) \/ ReserveLoad(t) \/ ReserveEpoch(t)
    \/ ReserveWriters(t) \/ ReserveLost(t) \/ ReserveEnd(t)

Next ==
    \/ \E t \in Threads :
          \/ \E a \in Addrs : ReserveBegin(t, a) \/ CommitBegin(t, a)
          \/ \E a \in Addrs : WriteBegin(t, a)
          \/ Cancel(t) \/ Reserve(t) \/ StoreConditional(t) \/ Write(t)
    \/ \E d \in Devices :
          WindowBegin(d) \/ Window(d) \/ \E a \in Addrs : WindowWrite(d, a)

Spec == Init /\ [][Next]_vars

\* A thread inside a call is scheduled again and again, and whoever opened the
\* window closes it (an RAII scope); nobody has to start a new call.
FairSpec ==
    /\ Spec
    /\ \A t \in Threads :
          WF_vars(Reserve(t)) /\ WF_vars(StoreConditional(t)) /\ WF_vars(Write(t))
    /\ \A d \in Devices : WF_vars(Window(d)) /\ SF_vars(WindowClose(d))

-----------------------------------------------------------------------------
(* Properties.                                                             *)

\* A conditional store never overwrites what it has not seen: no conditional
\* store and no window store reached the granule after the load-reserve read
\* it, and no ordinary store did after the load-reserve had returned
\* (claim_store_conditional under the commit gate).
NoLostStore ==
    \A t \in Threads : At(t, "commit_store") => since[t] \subseteq {"overlapping"}

\* "a store anywhere in that granule invalidates other active reservations on
\* it", and a writer that overlaps the set-up of a reservation is detected
\* (docs/memory/MEMORY_V2.md, sections 8 and "Reservation setup").
StoreBreaksReservations ==
    \A t \in Threads : At(t, "commit_store") => since[t] = {}

Counted == {t \in Actors : pc[t] \in
    {"write_seen", "write_check", "write_check_gate", "write_invalidate",
     "write_store", "write_publish", "write_leave",
     "window_invalidate", "window_store", "window_publish", "window_leave"}}

InReserve == {t \in Actors : pc[t] \in
    {"reserve_check", "epoch_before", "claim", "load"} \cup Reserving}

\* Both counters stay balanced: each is exactly the number of actors inside,
\* also when a granule becomes "seen" while a store to it is in flight
\* (enter_write and finish_write).
CountersBalanced ==
    /\ writers = Cardinality(Counted)
    /\ ops = Cardinality(InReserve) + Cardinality({t \in Actors : participant[t]})

\* While a conditional store commits, nobody is between taking a reservation
\* and returning it, nobody else commits, and no ordinary store to the same
\* granule is past its gate check (the commit gate's drain).
CommitIsExclusive ==
    \A t, u \in Actors :
       (t # u /\ pc[t] \in {"commit_invalidate", "commit_store", "commit_publish"})
       => /\ pc[u] \notin {"epoch_before", "claim", "load"} \cup Reserving
          /\ pc[u] \notin {"commit_invalidate", "commit_store", "commit_publish",
                           "window_store", "window_publish"}
          /\ pc[u] \in {"write_invalidate", "write_store"}
                => Granule[addr[u]] # Granule[addr[t]]

\* While the physical write window is open nobody else changes guest memory,
\* whatever the granule (the "readback ownership point" of
\* physical_write_window).
WindowIsExclusive ==
    \A d \in Devices, u \in Actors :
       (d # u /\ pc[d] \in {"window_open", "window_invalidate", "window_store"})
       => pc[u] \notin {"write_invalidate", "write_store", "commit_store",
                        "window_store", "claim"}

\* A thread stores to a granule that was never reserved: the commit gate does
\* not hold it back, and the drain waits for its count all the same.
PassesGate == \E u \in Threads : At(u, "write_store") /\ ~participant[u]

\* A conditional store that has its ticket returns, however hot the threads
\* that store to reserved granules spin (the comment of ReservationCommitGate):
\* only stores that pass the gate, and go on for ever, can starve its drain.
CommitReturns ==
    \A t \in Threads : At(t, "commit_ticket") ~> (At(t, "idle") \/ []<>PassesGate)

\* Once it owns the coherency gate the window opens, whatever the writers and
\* the conditional stores do: neither gate waits for the other (the comment of
\* enter_write).
WindowOpens ==
    \A d \in Devices : At(d, "window_drain") ~> At(d, "window_open")

\* Neither gate waits for the other: conditional stores return and the window
\* opens.
GatesOpen == CommitReturns /\ WindowOpens

\* The monitor implements the abstract cells: a thread is linked while its slot
\* is live and its conditional store has not taken effect.
Linked(t) ==
    \/ Names(reservation[t], "Active")
    \/ pc[t] \in {"commit_invalidate", "commit_store"}

Cells == INSTANCE LinkedCells WITH
    Threads <- Actors,
    link <- [t \in Actors |-> IF Linked(t) THEN Granule[reservation[t].addr]
                              ELSE None]

\* At most one of the threads that loaded the same version stores
\* conditionally, and a window store meets no live reservation.
ImplementsCells == Cells!Spec
=============================================================================
