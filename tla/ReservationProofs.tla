-------------------------- MODULE ReservationProofs --------------------------
(***************************************************************************)
(* Theorems about Reservations, for every number of threads, devices,      *)
(* words and slots: the counters balance, a commit and an open window are  *)
(* alone, no conditional store overwrites a store it has not seen, and the *)
(* monitor implements LinkedCells.                                         *)
(***************************************************************************)
EXTENDS Reservations, FiniteSetTheorems, WellFoundedInduction, TLAPS

\* Where an actor may be.
ReserveLabels == {"reserve", "reserve_count", "reserve_check", "epoch_before", "claim",
                  "load"} \cup Reserving
CommitLabels == {"commit_ticket", "commit_writers", "commit_ops", "commit_claim",
                 "commit_invalidate", "commit_store", "commit_publish", "commit_clear",
                 "commit_release"}
WriteLabels == {"write", "write_count", "write_seen", "write_check", "write_check_gate",
                "write_blocked", "write_invalidate", "write_store", "write_publish",
                "write_leave"}
StoreLabels == {"window_invalidate", "window_store", "window_publish", "window_leave"}
WindowLabels == {"window_drain", "window_ticket", "window_writers", "window_ops",
                 "window_open", "window_close"} \cup StoreLabels

TypeOK ==
    /\ pc \in [Actors -> {"idle"} \cup ReserveLabels \cup CommitLabels \cup WriteLabels
                          \cup WindowLabels]
    /\ \A t \in Threads : pc[t] \notin WindowLabels
    /\ \A d \in Devices : pc[d] \in {"idle"} \cup WindowLabels
    /\ addr \in [Actors -> Addrs \cup {None}]
    /\ \A t \in Actors : pc[t] \in ReserveLabels \cup CommitLabels \cup WriteLabels \cup StoreLabels
                            => addr[t] \in Addrs
    /\ reservation \in [Actors -> Tokens \cup {None}]
    /\ \A d \in Devices : reservation[d] = None
    /\ participant \in [Actors -> BOOLEAN]
    /\ slots \in [Slots -> Entries \cup {None}]
    /\ seen \subseteq Granules
    /\ gate \in Seq(Actors)
    /\ coherency \in Actors \cup {None}
    /\ writers \in Int /\ ops \in Int
    /\ moved \in [Actors -> BOOLEAN]
    /\ since \in [Actors -> SUBSET {"plain", "overlapping", "conditional", "window"}]

\* The ticket gate is a queue of those who are between taking a ticket and
\* giving it back, and whoever is past its turn is at the head.
Ticketed == CommitLabels \cup (WindowLabels \ {"window_drain", "window_close"})
Served == Ticketed \ {"commit_ticket", "window_ticket"}
GateIsAQueue ==
    /\ \A i, j \in 1..Len(gate) : gate[i] = gate[j] => i = j
    /\ \A i \in 1..Len(gate) : pc[gate[i]] \in Ticketed
    /\ \A t \in Actors : pc[t] \in Ticketed => \E i \in 1..Len(gate) : gate[i] = t
    /\ \A t \in Actors : pc[t] \in Served => gate # <<>> /\ gate[1] = t

\* The coherency gate belongs to whoever is between taking and freeing it.
WindowOwnsCoherency ==
    \A d \in Actors : coherency = d <=> pc[d] \in WindowLabels

\* A store joins the commit gate after the look at the bitmap.
Counting == {"write_check", "write_check_gate", "write_invalidate", "write_store",
             "write_publish", "write_leave"}
ParticipantsAreWriters ==
    \A t \in Actors : participant[t] => pc[t] \in Counting

\* Nobody is inside a load-reserve, and no participating store is past its
\* check, while a ticket holder has found both counters at zero.
Alone == {"commit_claim", "commit_invalidate", "commit_store", "commit_publish",
          "commit_clear", "commit_release", "window_open"} \cup StoreLabels
Admitted == {"write_invalidate", "write_store", "write_publish", "write_leave"}
CommitHasDrained ==
    \A t, u \in Actors : pc[t] \in Alone =>
        /\ pc[u] \notin {"epoch_before", "claim", "load"} \cup Reserving
        /\ pc[u] \in Admitted => ~participant[u]

\* No store is past its look at the coherency gate while a window has drained.
WindowHasDrained ==
    \A d, u \in Actors : pc[d] \in WindowLabels \ {"window_drain"} =>
        pc[u] \notin Admitted \cup {"write_check_gate"}

\* Only granules that are marked in the bitmap have been reserved.
ReservedIsSeen ==
    /\ \A t \in Actors : reservation[t] # None => Granule[reservation[t].addr] \in seen
    /\ \A s \in Slots : slots[s] # None => Granule[slots[s].addr] \in seen
    /\ \A t \in Actors : pc[t] = "claim" => Granule[addr[t]] \in seen

\* Tokens are told apart by their generations; a slot that still has a token's
\* generation has its address, and is the committer's own in a commit.
Committing == {"commit_invalidate", "commit_store", "commit_publish", "commit_clear"}
TokensAreUnique ==
    /\ \A t, u \in Actors :
          t # u /\ reservation[t] # None /\ reservation[u] # None
             => reservation[t].gen # reservation[u].gen
    /\ \A t \in Actors :
          LET tok == reservation[t]
          IN  tok # None /\ slots[tok.slot] # None /\ slots[tok.slot].gen = tok.gen
                => slots[tok.slot].addr = tok.addr
    /\ \A t \in Actors : pc[t] \in CommitLabels => reservation[t] # None
    /\ \A t \in Actors : pc[t] \in Committing =>
          Names(reservation[t], "Committing") /\ reservation[t].addr = addr[t]

\* A load-reserve that has its token and has not yet looked at the counter of
\* writers, or has found that it came too late.
SettingUp == {"load", "epoch_after", "writers", "reserve_lost"}

\* A store that did not join the gate to a granule that was reserved since
\* meets only reservations that are still being set up.
LateReservationsAreSetUp ==
    \A t, u \in Actors :
        /\ pc[u] \in Counting /\ ~participant[u]
        /\ reservation[t] # None /\ Granule[reservation[t].addr] = Granule[addr[u]]
        => pc[t] \in SettingUp

\* The same of any store that has broken the reservations of its granule.
StoreHasBroken ==
    \A t, u \in Actors :
        /\ pc[u] = "write_store"
        /\ Names(reservation[t], "Active") /\ Granule[reservation[t].addr] = Granule[addr[u]]
        => pc[t] \in SettingUp

\* A conditional store and a window store meet no reservation at all.
ExclusiveHasBroken ==
    \A t \in Actors, s \in Slots :
        /\ pc[t] \in {"commit_store", "window_store"}
        /\ slots[s] # None /\ slots[s].status = "Active"
        => Granule[slots[s].addr] # Granule[addr[t]]

\* A reservation that is alive has seen every store since its load, but for
\* the plain ones that overlapped its own set-up.
LinkedHasSeen ==
    \A t \in Actors : Linked(t) /\ pc[t] # "load" => since[t] \subseteq {"overlapping"}

Exclusion ==
    /\ TypeOK
    /\ GateIsAQueue
    /\ WindowOwnsCoherency
    /\ ParticipantsAreWriters
    /\ CountersBalanced
    /\ CommitHasDrained
    /\ WindowHasDrained

Monitor ==
    /\ ReservedIsSeen
    /\ TokensAreUnique
    /\ LateReservationsAreSetUp
    /\ StoreHasBroken
    /\ ExclusiveHasBroken
    /\ LinkedHasSeen

-----------------------------------------------------------------------------
(* Facts about the constants and the helpers.                              *)

LEMMA ActorsAreFinite ==
  /\ IsFiniteSet(Actors) /\ None \notin Actors
  /\ \A S \in SUBSET Actors : IsFiniteSet(S) /\ Cardinality(S) \in Nat
  <1>1. IsFiniteSet(Actors) /\ None \notin Actors
    BY RolesAssumption, FS_Union DEF Actors
  <1>2. \A S \in SUBSET Actors : IsFiniteSet(S)
    BY <1>1, FS_Subset
  <1> QED
    BY <1>1, <1>2, FS_CardinalityType

\* As many generations as slots and tokens, and one more.
LEMMA GenerationIsFresh ==
  ASSUME TypeOK
  PROVE  FreshGeneration \in Generations /\ FreshGeneration \notin InUse
  <1> DEFINE S == {s \in Slots : slots[s] # None}
             T == {t \in Threads : reservation[t] # None}
             f == [s \in S |-> slots[s].gen]
             h == [t \in T |-> reservation[t].gen]
             A == {slots[s].gen : s \in S}
             B == {reservation[t].gen : t \in T}
  <1>1. IsFiniteSet(Slots) /\ Cardinality(Slots) = SlotCount
    BY SlotAssumption, FS_Interval DEF Slots
  <1>2. IsFiniteSet(S) /\ Cardinality(S) <= SlotCount
    BY <1>1, FS_Subset
  <1>3. IsFiniteSet(T) /\ Cardinality(T) <= Cardinality(Threads)
    BY RolesAssumption, FS_Subset
  <1>4. f \in Surjection(S, A)
    BY DEF Surjection
  <1>5. h \in Surjection(T, B)
    BY DEF Surjection
  <1>6. IsFiniteSet(A) /\ Cardinality(A) <= Cardinality(S)
    BY <1>2, <1>4, FS_Surjection
  <1>7. IsFiniteSet(B) /\ Cardinality(B) <= Cardinality(T)
    BY <1>3, <1>5, FS_Surjection
  <1>8. /\ Cardinality(A) \in Nat /\ Cardinality(B) \in Nat /\ Cardinality(S) \in Nat
        /\ Cardinality(T) \in Nat /\ Cardinality(Threads) \in Nat
        /\ IsFiniteSet(A \cap B) /\ Cardinality(A \cap B) \in Nat
    BY <1>2, <1>3, <1>6, <1>7, RolesAssumption, FS_CardinalityType, FS_Intersection
  <1>9. InUse = A \cup B
    BY DEF InUse
  <1> HIDE DEF A, B, S, T
  <1>10. /\ IsFiniteSet(A \cup B)
         /\ Cardinality(A \cup B) = Cardinality(A) + Cardinality(B) - Cardinality(A \cap B)
    BY <1>6, <1>7, FS_Union
  <1>11. Cardinality(A \cup B) <= Cardinality(Threads) + SlotCount
    BY <1>2, <1>3, <1>6, <1>7, <1>8, <1>10, SlotAssumption
  <1>12. /\ IsFiniteSet(Generations)
         /\ Cardinality(Generations) = Cardinality(Threads) + SlotCount + 1
    <2> DEFINE n == Cardinality(Threads) + SlotCount + 1
    <2>1. n \in Int /\ n >= 1
      BY <1>8, SlotAssumption
    <2> HIDE DEF n
    <2>2. IsFiniteSet(1..n) /\ Cardinality(1..n) = n
      BY <2>1, FS_Interval
    <2> QED
      BY <2>2 DEF Generations, n
  <1>13. ~(Generations \subseteq A \cup B)
    <2> SUFFICES ASSUME Generations \in SUBSET (A \cup B) PROVE FALSE
      OBVIOUS
    <2>1. Cardinality(Generations) <= Cardinality(A \cup B)
      BY <1>10, FS_Subset
    <2>2. Cardinality(A \cup B) \in Nat
      BY <1>10, FS_CardinalityType
    <2> QED
      BY <1>8, <1>11, <1>12, <2>1, <2>2, SlotAssumption
  <1> QED
    BY <1>9, <1>13 DEF FreshGeneration

LEMMA LeastExists ==
  ASSUME NEW S \in SUBSET Nat, S # {}
  PROVE  \E x \in S : \A y \in S : x <= y
  <1>1. PICK x \in S : \A y \in S : ~(<<y, x>> \in OpToRel(<, Nat))
    BY NatLessThanWellFounded, WFMin, Zenon
  <1>2. \A y \in S : ~(y < x)
    BY <1>1 DEF OpToRel
  <1> QED
    BY <1>2

\* claim_reservation() takes a free slot and a generation that nobody has, or
\* nothing.
LEMMA ClaimTakes ==
  ASSUME TypeOK, NEW t \in Threads, ReserveClaim(t)
  PROVE  \/ slots' = slots /\ reservation' = reservation
         \/ \E s \in Slots, n \in Generations \ InUse :
               /\ slots[s] = None
               /\ slots' = [slots EXCEPT ![s] = [addr |-> addr[t], gen |-> n, status |-> "Active"]]
               /\ reservation' = [reservation EXCEPT ![t] = [addr |-> addr[t], slot |-> s, gen |-> n]]
  <1> DEFINE free == {s \in Slots : slots[s] = None}
             slot == CHOOSE s \in free : \A r \in free : s <= r
  <1>1. CASE free = {}
    BY <1>1 DEF ReserveClaim
  <1>2. CASE free # {}
    <2>1. free \in SUBSET Nat
      BY SlotAssumption DEF Slots
    <2>2. slot \in free
      BY <1>2, <2>1, LeastExists
    <2>3. /\ slots' = [slots EXCEPT ![slot] =
                          [addr |-> addr[t], gen |-> FreshGeneration, status |-> "Active"]]
          /\ reservation' = [reservation EXCEPT ![t] =
                                [addr |-> addr[t], slot |-> slot, gen |-> FreshGeneration]]
      BY <1>2 DEF ReserveClaim
    <2> HIDE DEF slot
    <2> QED
      BY <2>2, <2>3, GenerationIsFresh
  <1> QED
    BY <1>1, <1>2

-----------------------------------------------------------------------------
LEMMA InitType == Init => TypeOK
  BY RolesAssumption DEF Init, TypeOK, Actors, WindowLabels, ReserveLabels, CommitLabels,
     WriteLabels, StoreLabels, Reserving

LEMMA ReserveType ==
  ASSUME TypeOK, NEW t \in Threads, Reserve(t)
  PROVE  TypeOK'
  <1> USE DEF TypeOK, Actors, ReserveLabels, CommitLabels, WriteLabels, StoreLabels,
       WindowLabels, Reserving, Step, At, Goto, Return, local, shared, ghosts
  <1>1. CASE ReserveWait(t)
    BY <1>1 DEF ReserveWait
  <1>2. CASE ReserveCount(t)
    BY <1>2 DEF ReserveCount
  <1>3. CASE ReserveCheck(t)
    BY <1>3 DEF ReserveCheck
  <1>4. CASE ReserveMark(t)
    BY <1>4 DEF ReserveMark, Granules
  <1>5. CASE ReserveClaim(t)
    <2>1. pc[t] = "claim" /\ pc' = [pc EXCEPT ![t] = "load"]
          /\ UNCHANGED <<addr, participant, seen, gate, coherency, writers, ops, moved, ghosts>>
      BY <1>5 DEF ReserveClaim
    <2> QED
      BY <1>5, <2>1, ClaimTakes DEF Tokens, Entries
  <1>6. CASE ReserveLoad(t)
    BY <1>6 DEF ReserveLoad
  <1>7. CASE ReserveEpoch(t)
    BY <1>7 DEF ReserveEpoch
  <1>8. CASE ReserveWriters(t)
    BY <1>8 DEF ReserveWriters
  <1>9. CASE ReserveLost(t)
    BY <1>9 DEF ReserveLost, Cancelled, Names
  <1>10. CASE ReserveEnd(t)
    BY <1>10 DEF ReserveEnd
  <1> QED
    BY <1>1, <1>2, <1>3, <1>4, <1>5, <1>6, <1>7, <1>8, <1>9, <1>10 DEF Reserve

LEMMA CommitType ==
  ASSUME TypeOK, NEW t \in Threads, StoreConditional(t), gate # <<>>
  PROVE  TypeOK'
  <1> USE DEF TypeOK, Actors, ReserveLabels, CommitLabels, WriteLabels, StoreLabels,
       WindowLabels, Reserving, Step, At, Goto, Return, local, shared, ghosts
  <1>1. CASE CommitServed(t)
    BY <1>1 DEF CommitServed
  <1>2. CASE DrainWriters(t, "commit_writers", "commit_ops")
    BY <1>2 DEF DrainWriters
  <1>3. CASE DrainOps(t, "commit_ops", "commit_writers", "commit_claim")
    BY <1>3 DEF DrainOps
  <1>4. CASE CommitClaim(t)
    <2> DEFINE tok == reservation[t]
    <2>1. CASE Names(tok, "Active") /\ slots[tok.slot].addr = addr[t]
      <3>1. tok \in Tokens /\ tok.slot \in Slots /\ slots[tok.slot] \in Entries
        BY <2>1 DEF Names, Tokens
      <3>2. [slots[tok.slot] EXCEPT !.status = "Committing"] \in Entries
        BY <3>1 DEF Entries
      <3>3. slots' = [slots EXCEPT ![tok.slot] = [slots[tok.slot] EXCEPT !.status = "Committing"]]
        BY <1>4, <2>1 DEF CommitClaim
      <3> QED
        BY <1>4, <2>1, <3>1, <3>2, <3>3, ZenonT(30) DEF CommitClaim
    <2>2. CASE ~(Names(tok, "Active") /\ slots[tok.slot].addr = addr[t])
      BY <1>4, <2>2 DEF CommitClaim, Cancelled, Names
    <2> QED
      BY <2>1, <2>2
  <1>5. CASE Step(t, "commit_invalidate", "commit_store") /\ Invalidate(t)
    BY <1>5 DEF Invalidate, Invalidated
  <1>6. CASE Step(t, "commit_store", "commit_publish") /\ StoreBytes(t, "conditional")
    BY <1>6 DEF StoreBytes
  <1>7. CASE Step(t, "commit_publish", "commit_clear") /\ PublishEpoch
    BY <1>7 DEF PublishEpoch
  <1>8. CASE CommitClear(t)
    BY <1>8 DEF CommitClear
  <1>9. CASE CommitRelease(t)
    BY <1>9 DEF CommitRelease
  <1> QED
    BY <1>1, <1>2, <1>3, <1>4, <1>5, <1>6, <1>7, <1>8, <1>9 DEF StoreConditional

LEMMA WriteType ==
  ASSUME TypeOK, NEW t \in Threads, Write(t)
  PROVE  TypeOK'
  <1> USE DEF TypeOK, Actors, ReserveLabels, CommitLabels, WriteLabels, StoreLabels,
       WindowLabels, Reserving, Step, At, Goto, Return, local, shared, ghosts
  <1>1. CASE WriteWait(t) \/ WriteCount(t) \/ WriteBlocked(t)
    BY <1>1 DEF WriteWait, WriteCount, WriteBlocked
  <1>2. CASE WriteSeen(t)
    BY <1>2 DEF WriteSeen
  <1>0. CASE WriteCheck(t)
    <2>1. CASE coherency # None
      <3>1. pc[t] = "write_check" /\ Goto(t, "write") /\ Uncount(t) /\ UNCHANGED addr
        BY <1>0, <2>1 DEF WriteCheck
      <3> QED
        BY <3>1 DEF Uncount
    <2>2. CASE coherency = None
      BY <1>0, <2>2 DEF WriteCheck
    <2> QED
      BY <2>1, <2>2
  <1>3. CASE WriteCheckGate(t)
    <2>1. CASE participant[t] /\ Held
      <3>1. pc[t] = "write_check_gate" /\ Goto(t, "write_blocked") /\ Uncount(t) /\ UNCHANGED addr
        BY <1>3, <2>1 DEF WriteCheckGate
      <3> QED
        BY <3>1 DEF Uncount
    <2>2. CASE ~(participant[t] /\ Held)
      BY <1>3, <2>2 DEF WriteCheckGate
    <2> QED
      BY <2>1, <2>2
  <1>4. CASE WriteLeave(t)
    BY <1>4 DEF WriteLeave, Uncount
  <1>5. CASE Step(t, "write_invalidate", "write_store") /\ Invalidate(t)
    BY <1>5 DEF Invalidate, Invalidated
  <1>6. CASE Step(t, "write_store", "write_publish") /\ StoreBytes(t, "plain")
    BY <1>6 DEF StoreBytes
  <1>7. CASE Step(t, "write_publish", "write_leave") /\ PublishEpoch
    BY <1>7 DEF PublishEpoch
  <1> QED
    BY <1>0, <1>1, <1>2, <1>3, <1>4, <1>5, <1>6, <1>7 DEF Write

LEMMA WindowType ==
  ASSUME TypeOK, NEW d \in Devices, Window(d), pc[d] = "window_open" => gate # <<>>
  PROVE  TypeOK'
  <1> USE DEF TypeOK, Actors, ReserveLabels, CommitLabels, WriteLabels, StoreLabels,
       WindowLabels, Reserving, Step, At, Goto, Return, local, shared, ghosts
  <1> USE RolesAssumption
  <1>0. CASE WindowTicket(d)
    BY <1>0 DEF WindowTicket
  <1>1. CASE WindowServed(d)
    BY <1>1 DEF WindowServed
  <1>2. CASE DrainWriters(d, "window_writers", "window_ops")
    BY <1>2 DEF DrainWriters
  <1>3. CASE DrainOps(d, "window_ops", "window_writers", "window_open")
    BY <1>3 DEF DrainOps
  <1>4. CASE Step(d, "window_invalidate", "window_store") /\ Invalidate(d)
    BY <1>4 DEF Invalidate, Invalidated
  <1>5. CASE Step(d, "window_store", "window_publish") /\ StoreBytes(d, "window")
    BY <1>5 DEF StoreBytes
  <1>6. CASE Step(d, "window_publish", "window_leave") /\ PublishEpoch
    BY <1>6 DEF PublishEpoch
  <1>7. CASE WindowWritten(d)
    BY <1>7 DEF WindowWritten, Uncount
  <1>8. CASE WindowClose(d)
    BY <1>8 DEF WindowClose
  <1>9. CASE WindowClosed(d)
    BY <1>9 DEF WindowClosed
  <1> QED
    BY <1>0, <1>1, <1>2, <1>3, <1>4, <1>5, <1>6, <1>7, <1>8, <1>9 DEF Window

LEMMA BeginType ==
  ASSUME TypeOK,
         \/ \E t \in Threads : Cancel(t) \/ \E a \in Addrs : \/ ReserveBegin(t, a) \/ CommitBegin(t, a)
                                                           \/ WriteBegin(t, a)
         \/ \E d \in Devices : WindowBegin(d) \/ \E a \in Addrs : WindowWrite(d, a)
  PROVE  TypeOK'
  <1> USE DEF TypeOK, Actors, ReserveLabels, CommitLabels, WriteLabels, StoreLabels,
       WindowLabels, Reserving, Step, At, Goto, Return, local, shared, ghosts
  <1> USE RolesAssumption
  <1>0. ASSUME NEW t \in Threads, Cancel(t) PROVE TypeOK'
    BY <1>0 DEF Cancel, Cancelled, Names
  <1>1. ASSUME NEW t \in Threads, NEW a \in Addrs, ReserveBegin(t, a) PROVE TypeOK'
    BY <1>1, ZenonT(30) DEF ReserveBegin, Cancelled, Names
  <1>2. ASSUME NEW t \in Threads, NEW a \in Addrs, CommitBegin(t, a) PROVE TypeOK'
    BY <1>2 DEF CommitBegin
  <1>3. ASSUME NEW t \in Threads, NEW a \in Addrs, WriteBegin(t, a) PROVE TypeOK'
    BY <1>3 DEF WriteBegin
  <1>4. ASSUME NEW d \in Devices, WindowBegin(d) PROVE TypeOK'
    BY <1>4 DEF WindowBegin
  <1>5. ASSUME NEW d \in Devices, NEW a \in Addrs, WindowWrite(d, a) PROVE TypeOK'
    BY <1>5 DEF WindowWrite
  <1> HIDE DEF TypeOK
  <1> QED
    BY <1>0, <1>1, <1>2, <1>3, <1>4, <1>5

-----------------------------------------------------------------------------
(* The gates: what a step of actor t to label l does to them.              *)

InReserveLabels == {"reserve_check", "epoch_before", "claim", "load"} \cup Reserving
CountedLabels == {"write_seen"} \cup Counting \cup StoreLabels

\* A ticket is taken, kept or given back.
TicketStep(t, l) ==
    \/ /\ gate' = gate /\ (pc[t] \in Ticketed <=> l \in Ticketed)
       /\ l \in Served => pc[t] \in Served \/ Head(gate) = t
    \/ gate' = Append(gate, t) /\ pc[t] \notin Ticketed /\ l \in Ticketed \ Served
    \/ gate' = Tail(gate) /\ pc[t] \in Served /\ l \notin Ticketed

CoherencyStep(t, l) ==
    \/ coherency' = coherency /\ (pc[t] \in WindowLabels <=> l \in WindowLabels)
    \/ coherency = None /\ coherency' = t /\ l = "window_drain"
    \/ coherency' = None /\ pc[t] \in WindowLabels /\ l \notin WindowLabels

\* The two counters follow the labels and the participation of t.
WriterStep(t, l) ==
    \/ writers' = writers /\ (pc[t] \in CountedLabels <=> l \in CountedLabels)
    \/ writers' = writers + 1 /\ pc[t] \notin CountedLabels /\ l \in CountedLabels
    \/ writers' = writers - 1 /\ pc[t] \in CountedLabels /\ l \notin CountedLabels

OpsStep(t, l) ==
    \/ /\ ops' = ops /\ participant' = participant
       /\ (pc[t] \in InReserveLabels <=> l \in InReserveLabels)
       /\ pc[t] \in Counting => l \in Counting
    \/ /\ ops' = ops + 1 /\ participant' = participant
       /\ pc[t] \notin InReserveLabels \cup Counting /\ l \in InReserveLabels
    \/ /\ ops' = ops - 1 /\ participant' = participant
       /\ pc[t] \in InReserveLabels /\ l \notin InReserveLabels
    \/ /\ ops' = IF participant'[t] THEN ops + 1 ELSE ops
       /\ participant' = [participant EXCEPT ![t] = Granule[addr[t]] \in seen]
       /\ pc[t] = "write_seen" /\ l = "write_check"
    \/ /\ ops' = IF participant[t] THEN ops - 1 ELSE ops
       /\ participant' = [participant EXCEPT ![t] = FALSE]
       /\ pc[t] \notin InReserveLabels /\ l \notin InReserveLabels

\* What has been looked at before a critical label is reached.
GuardedStep(t, l) ==
    /\ l \in Alone => pc[t] \in Alone \/ ops = 0
    /\ l \in WindowLabels \ {"window_drain"} => pc[t] \in WindowLabels
          /\ (pc[t] = "window_drain" => writers = 0)
    /\ l = "write_check_gate" => coherency = None
    /\ l \in Admitted => \/ pc[t] \in Admitted
                         \/ pc[t] = "write_check_gate" /\ (participant[t] => gate = <<>>)
    /\ l \in InReserveLabels \ {"reserve_check"} =>
          pc[t] \in InReserveLabels \ {"reserve_check"} \/ gate = <<>>

GateStep(t, l) ==
    /\ pc' = [pc EXCEPT ![t] = l]
    /\ TicketStep(t, l) /\ CoherencyStep(t, l) /\ WriterStep(t, l) /\ OpsStep(t, l)
    /\ GuardedStep(t, l)

LEMMA ReserveGates ==
  ASSUME TypeOK, NEW t \in Threads, Reserve(t)
  PROVE  \E l : GateStep(t, l)
  <1> USE RolesAssumption DEF TypeOK, Actors, ReserveLabels, CommitLabels, WriteLabels, StoreLabels,
       WindowLabels, Reserving, Step, At, Goto, Return, local, shared, ghosts, GateStep, TicketStep,
       CoherencyStep, WriterStep, OpsStep, GuardedStep, Ticketed, Served, Counting, InReserveLabels,
       CountedLabels, Alone, Admitted, Held
  <1>1. ASSUME ReserveWait(t) PROVE GateStep(t, "reserve_count")
    BY <1>1 DEF ReserveWait
  <1>2. ASSUME ReserveCount(t) PROVE GateStep(t, "reserve_check")
    BY <1>2 DEF ReserveCount
  <1>3. ASSUME ReserveCheck(t) PROVE GateStep(t, IF Held THEN "reserve" ELSE "epoch_before")
    BY <1>3 DEF ReserveCheck
  <1>4. ASSUME ReserveMark(t) PROVE GateStep(t, "claim")
    BY <1>4 DEF ReserveMark
  <1>5. ASSUME ReserveClaim(t) PROVE GateStep(t, "load")
    BY <1>5 DEF ReserveClaim
  <1>6. ASSUME ReserveLoad(t) PROVE GateStep(t, "epoch_after")
    BY <1>6 DEF ReserveLoad
  <1>7. ASSUME ReserveEpoch(t) PROVE GateStep(t, IF moved[t] THEN "reserve_lost" ELSE "writers")
    BY <1>7 DEF ReserveEpoch
  <1>8. ASSUME ReserveWriters(t) PROVE GateStep(t, IF writers # 0 THEN "reserve_lost" ELSE "reserve_end")
    BY <1>8 DEF ReserveWriters
  <1>9. ASSUME ReserveLost(t) PROVE GateStep(t, "reserve_end")
    BY <1>9 DEF ReserveLost
  <1>10. ASSUME ReserveEnd(t) PROVE GateStep(t, "idle")
    BY <1>10 DEF ReserveEnd
  <1> HIDE DEF GateStep, Step
  <1> QED
    BY <1>1, <1>2, <1>3, <1>4, <1>5, <1>6, <1>7, <1>8, <1>9, <1>10 DEF Reserve

LEMMA CommitGates ==
  ASSUME TypeOK, NEW t \in Threads, StoreConditional(t)
  PROVE  \E l : GateStep(t, l)
  <1> USE RolesAssumption DEF TypeOK, Actors, ReserveLabels, CommitLabels, WriteLabels, StoreLabels,
       WindowLabels, Reserving, Step, At, Goto, Return, local, shared, ghosts, GateStep, TicketStep,
       CoherencyStep, WriterStep, OpsStep, GuardedStep, Ticketed, Served, Counting, InReserveLabels,
       CountedLabels, Alone, Admitted, Held
  <1>1. ASSUME CommitServed(t) PROVE GateStep(t, "commit_writers")
    BY <1>1 DEF CommitServed
  <1>2. ASSUME DrainWriters(t, "commit_writers", "commit_ops") PROVE GateStep(t, "commit_ops")
    BY <1>2 DEF DrainWriters
  <1>3. ASSUME DrainOps(t, "commit_ops", "commit_writers", "commit_claim") PROVE GateStep(t, IF ops = 0 THEN "commit_claim" ELSE "commit_writers")
    BY <1>3 DEF DrainOps
  <1>4. ASSUME CommitClaim(t) PROVE GateStep(t, "commit_invalidate") \/ GateStep(t, "commit_release")
    BY <1>4 DEF CommitClaim
  <1>5. ASSUME Step(t, "commit_invalidate", "commit_store") /\ Invalidate(t) PROVE GateStep(t, "commit_store")
    BY <1>5 DEF Invalidate
  <1>6. ASSUME Step(t, "commit_store", "commit_publish") /\ StoreBytes(t, "conditional") PROVE GateStep(t, "commit_publish")
    BY <1>6 DEF StoreBytes
  <1>7. ASSUME Step(t, "commit_publish", "commit_clear") /\ PublishEpoch PROVE GateStep(t, "commit_clear")
    BY <1>7 DEF PublishEpoch
  <1>8. ASSUME CommitClear(t) PROVE GateStep(t, "commit_release")
    BY <1>8 DEF CommitClear
  <1>9. ASSUME CommitRelease(t) PROVE GateStep(t, "idle")
    BY <1>9 DEF CommitRelease
  <1> HIDE DEF GateStep, Step
  <1> QED
    BY <1>1, <1>2, <1>3, <1>4, <1>5, <1>6, <1>7, <1>8, <1>9 DEF StoreConditional

LEMMA WriteGates ==
  ASSUME TypeOK, NEW t \in Threads, Write(t)
  PROVE  \E l : GateStep(t, l)
  <1> USE RolesAssumption DEF TypeOK, Actors, ReserveLabels, CommitLabels, WriteLabels, StoreLabels,
       WindowLabels, Reserving, Step, At, Goto, Return, local, shared, ghosts, GateStep, TicketStep,
       CoherencyStep, WriterStep, OpsStep, GuardedStep, Ticketed, Served, Counting, InReserveLabels,
       CountedLabels, Alone, Admitted, Held
  <1>1. ASSUME WriteWait(t) PROVE GateStep(t, "write_count")
    BY <1>1 DEF WriteWait
  <1>2. ASSUME WriteCount(t) PROVE GateStep(t, "write_seen")
    BY <1>2 DEF WriteCount
  <1>3. ASSUME WriteSeen(t) PROVE GateStep(t, "write_check")
    BY <1>3 DEF WriteSeen
  <1>4. ASSUME WriteCheck(t) PROVE GateStep(t, IF coherency # None THEN "write" ELSE "write_check_gate")
    BY <1>4 DEF WriteCheck, Uncount
  <1>5. ASSUME WriteCheckGate(t) PROVE GateStep(t, IF participant[t] /\ Held THEN "write_blocked" ELSE "write_invalidate")
    BY <1>5 DEF WriteCheckGate, Uncount
  <1>6. ASSUME WriteBlocked(t) PROVE GateStep(t, "write")
    BY <1>6 DEF WriteBlocked
  <1>7. ASSUME Step(t, "write_invalidate", "write_store") /\ Invalidate(t) PROVE GateStep(t, "write_store")
    BY <1>7 DEF Invalidate
  <1>8. ASSUME Step(t, "write_store", "write_publish") /\ StoreBytes(t, "plain") PROVE GateStep(t, "write_publish")
    BY <1>8 DEF StoreBytes
  <1>9. ASSUME Step(t, "write_publish", "write_leave") /\ PublishEpoch PROVE GateStep(t, "write_leave")
    BY <1>9 DEF PublishEpoch
  <1>10. ASSUME WriteLeave(t) PROVE GateStep(t, "idle")
    BY <1>10 DEF WriteLeave, Uncount
  <1> HIDE DEF GateStep, Step
  <1> QED
    BY <1>1, <1>2, <1>3, <1>4, <1>5, <1>6, <1>7, <1>8, <1>9, <1>10 DEF Write

LEMMA WindowGates ==
  ASSUME TypeOK, NEW t \in Devices, Window(t)
  PROVE  \E l : GateStep(t, l)
  <1> USE RolesAssumption DEF TypeOK, Actors, ReserveLabels, CommitLabels, WriteLabels, StoreLabels,
       WindowLabels, Reserving, Step, At, Goto, Return, local, shared, ghosts, GateStep, TicketStep,
       CoherencyStep, WriterStep, OpsStep, GuardedStep, Ticketed, Served, Counting, InReserveLabels,
       CountedLabels, Alone, Admitted, Held
  <1>1. ASSUME WindowTicket(t) PROVE GateStep(t, "window_ticket")
    BY <1>1 DEF WindowTicket
  <1>2. ASSUME WindowServed(t) PROVE GateStep(t, "window_writers")
    BY <1>2 DEF WindowServed
  <1>3. ASSUME DrainWriters(t, "window_writers", "window_ops") PROVE GateStep(t, "window_ops")
    BY <1>3 DEF DrainWriters
  <1>4. ASSUME DrainOps(t, "window_ops", "window_writers", "window_open") PROVE GateStep(t, IF ops = 0 THEN "window_open" ELSE "window_writers")
    BY <1>4 DEF DrainOps
  <1>5. ASSUME Step(t, "window_invalidate", "window_store") /\ Invalidate(t) PROVE GateStep(t, "window_store")
    BY <1>5 DEF Invalidate
  <1>6. ASSUME Step(t, "window_store", "window_publish") /\ StoreBytes(t, "window") PROVE GateStep(t, "window_publish")
    BY <1>6 DEF StoreBytes
  <1>7. ASSUME Step(t, "window_publish", "window_leave") /\ PublishEpoch PROVE GateStep(t, "window_leave")
    BY <1>7 DEF PublishEpoch
  <1>8. ASSUME WindowWritten(t) PROVE GateStep(t, "window_open")
    BY <1>8 DEF WindowWritten, Uncount
  <1>9. ASSUME WindowClose(t) PROVE GateStep(t, "window_close")
    BY <1>9 DEF WindowClose
  <1>10. ASSUME WindowClosed(t) PROVE GateStep(t, "idle")
    BY <1>10 DEF WindowClosed
  <1> HIDE DEF GateStep, Step
  <1> QED
    BY <1>1, <1>2, <1>3, <1>4, <1>5, <1>6, <1>7, <1>8, <1>9, <1>10 DEF Window

LEMMA BeginGates ==
  ASSUME TypeOK, NEW t \in Threads,
         Cancel(t) \/ \E a \in Addrs : ReserveBegin(t, a) \/ CommitBegin(t, a) \/ WriteBegin(t, a)
  PROVE  \E l : GateStep(t, l)
  <1> USE RolesAssumption DEF TypeOK, Actors, ReserveLabels, CommitLabels, WriteLabels, StoreLabels,
       WindowLabels, Reserving, Step, At, Goto, Return, local, shared, ghosts, GateStep, TicketStep,
       CoherencyStep, WriterStep, OpsStep, GuardedStep, Ticketed, Served, Counting, InReserveLabels,
       CountedLabels, Alone, Admitted, Held
  <1>1. ASSUME NEW a \in Addrs, ReserveBegin(t, a) PROVE GateStep(t, "reserve")
    BY <1>1 DEF ReserveBegin
  <1>2. ASSUME NEW a \in Addrs, CommitBegin(t, a) PROVE GateStep(t, "commit_ticket")
    BY <1>2 DEF CommitBegin
  <1>3. ASSUME NEW a \in Addrs, WriteBegin(t, a) PROVE GateStep(t, "write")
    BY <1>3 DEF WriteBegin
  <1>4. ASSUME Cancel(t) PROVE GateStep(t, "idle")
    BY <1>4 DEF Cancel
  <1> HIDE DEF GateStep
  <1> QED
    BY <1>1, <1>2, <1>3, <1>4

LEMMA WindowBeginGates ==
  ASSUME TypeOK, NEW t \in Devices, WindowBegin(t) \/ \E a \in Addrs : WindowWrite(t, a)
  PROVE  \E l : GateStep(t, l)
  <1> USE RolesAssumption DEF TypeOK, Actors, ReserveLabels, CommitLabels, WriteLabels, StoreLabels,
       WindowLabels, Reserving, Step, At, Goto, Return, local, shared, ghosts, GateStep, TicketStep,
       CoherencyStep, WriterStep, OpsStep, GuardedStep, Ticketed, Served, Counting, InReserveLabels,
       CountedLabels, Alone, Admitted, Held
  <1>1. ASSUME WindowBegin(t) PROVE GateStep(t, "window_drain")
    BY <1>1 DEF WindowBegin
  <1>2. ASSUME NEW a \in Addrs, WindowWrite(t, a) PROVE GateStep(t, "window_invalidate")
    BY <1>2 DEF WindowWrite
  <1> HIDE DEF GateStep
  <1> QED
    BY <1>1, <1>2

LEMMA NextType ==
  ASSUME TypeOK, GateIsAQueue, Next
  PROVE  TypeOK'
  <1>1. ASSUME NEW t \in Actors, pc[t] \in Ticketed PROVE gate # <<>>
    BY <1>1 DEF GateIsAQueue, TypeOK
  <1>2. ASSUME NEW t \in Threads, StoreConditional(t) PROVE TypeOK'
    <2>1. t \in Actors /\ pc[t] \in Ticketed
      BY <1>2 DEF Actors, Ticketed, CommitLabels, StoreConditional, CommitServed, DrainWriters,
         DrainOps, CommitClaim, CommitClear, CommitRelease, Step, At, Return
    <2> QED
      BY <1>1, <1>2, <2>1, CommitType
  <1>3. ASSUME NEW d \in Devices, Window(d) PROVE TypeOK'
    <2>1. d \in Actors /\ (pc[d] = "window_open" => pc[d] \in Ticketed)
      BY DEF Actors, Ticketed, WindowLabels
    <2> QED
      BY <1>1, <1>3, <2>1, WindowType
  <1> QED
    BY <1>2, <1>3, ReserveType, WriteType, BeginType DEF Next

LEMMA NextGates ==
  ASSUME TypeOK, Next
  PROVE  \E t \in Actors : \E l : GateStep(t, l)
  <1>1. ASSUME NEW t \in Threads, Reserve(t) \/ StoreConditional(t) \/ Write(t)
        PROVE  \E l : GateStep(t, l)
    BY <1>1, ReserveGates, CommitGates, WriteGates
  <1>2. ASSUME NEW t \in Threads, NEW a \in Addrs,
               Cancel(t) \/ ReserveBegin(t, a) \/ CommitBegin(t, a) \/ WriteBegin(t, a)
        PROVE  \E l : GateStep(t, l)
    BY <1>2, BeginGates
  <1>3. ASSUME NEW t \in Threads, Cancel(t) PROVE \E l : GateStep(t, l)
    BY <1>3, BeginGates
  <1>4. ASSUME NEW d \in Devices, Window(d) \/ WindowBegin(d) \/ \E a \in Addrs : WindowWrite(d, a)
        PROVE  \E l : GateStep(d, l)
    BY <1>4, WindowGates, WindowBeginGates
  <1> QED
    BY <1>1, <1>2, <1>3, <1>4 DEF Next, Actors

LEMMA TicketKeepsQueue ==
  ASSUME TypeOK, GateIsAQueue, NEW t \in Actors, NEW l, pc' = [pc EXCEPT ![t] = l], TicketStep(t, l)
  PROVE  GateIsAQueue'
  <1> USE DEF TypeOK, GateIsAQueue
  <1>1. CASE gate' = gate /\ (pc[t] \in Ticketed <=> l \in Ticketed)
             /\ (l \in Served => pc[t] \in Served \/ Head(gate) = t)
    BY <1>1 DEF Served
  <1>2. CASE gate' = Append(gate, t) /\ pc[t] \notin Ticketed /\ l \in Ticketed \ Served
    <2>1. /\ Len(gate') = Len(gate) + 1 /\ gate'[Len(gate) + 1] = t
          /\ \A i \in 1..Len(gate) : gate'[i] = gate[i] /\ gate[i] \in Actors
      BY <1>2
    <2>2. \A u \in Actors : u # t => pc'[u] = pc[u]
      OBVIOUS
    <2>3. pc'[t] = l /\ \A i \in 1..Len(gate) : gate[i] # t
      BY <1>2
    <2> QED
      BY <1>2, <2>1, <2>2, <2>3 DEF Served
  <1>3. CASE gate' = Tail(gate) /\ pc[t] \in Served /\ l \notin Ticketed
    <2>1. /\ gate # <<>> /\ gate[1] = t /\ Len(gate') = Len(gate) - 1
          /\ \A i \in 1..Len(gate') : gate'[i] = gate[i + 1] /\ gate[i + 1] # t
      BY <1>3
    <2>2. \A u \in Actors : u # t => pc'[u] = pc[u]
      OBVIOUS
    <2>3. \A u \in Actors : u # t => pc[u] \notin Served
      BY <2>1
    <2>4. pc'[t] \notin Ticketed /\ pc'[t] \notin Served
      BY <1>3 DEF Served
    <2>5. ASSUME NEW u \in Actors, pc'[u] \in Ticketed PROVE \E i \in 1..Len(gate') : gate'[i] = u
      <3>1. u # t /\ pc[u] \in Ticketed
        BY <2>2, <2>4, <2>5
      <3>2. PICK j \in 1..Len(gate) : gate[j] = u
        BY <3>1
      <3>3. j - 1 \in 1..Len(gate') /\ gate'[j - 1] = u
        BY <2>1, <3>1, <3>2
      <3> QED
        BY <3>3
    <2> QED
      BY <1>3, <2>1, <2>2, <2>3, <2>4, <2>5
  <1> QED
    BY <1>1, <1>2, <1>3 DEF TicketStep

LEMMA CoherencyIsOwned ==
  ASSUME TypeOK, WindowOwnsCoherency, NEW t \in Actors, NEW l, pc' = [pc EXCEPT ![t] = l],
         CoherencyStep(t, l)
  PROVE  WindowOwnsCoherency'
  BY ActorsAreFinite DEF TypeOK, WindowOwnsCoherency, CoherencyStep, WindowLabels

LEMMA ParticipantsStayWriters ==
  ASSUME TypeOK, ParticipantsAreWriters, NEW t \in Actors, NEW l, pc' = [pc EXCEPT ![t] = l],
         OpsStep(t, l)
  PROVE  ParticipantsAreWriters'
  <1>1. participant[t] => pc[t] \notin InReserveLabels
    BY DEF ParticipantsAreWriters, Counting, InReserveLabels, Reserving
  <1>2. participant'[t] => l \in Counting
    BY <1>1 DEF TypeOK, OpsStep, Counting, ParticipantsAreWriters
  <1>3. \A u \in Actors : u # t => participant'[u] = participant[u] /\ pc'[u] = pc[u]
    BY DEF TypeOK, OpsStep
  <1>4. pc'[t] = l
    BY DEF TypeOK
  <1> QED
    BY <1>2, <1>3, <1>4 DEF ParticipantsAreWriters

LEMMA CountersFollow ==
  ASSUME TypeOK, CountersBalanced, NEW t \in Actors, NEW l, pc' = [pc EXCEPT ![t] = l],
         ParticipantsAreWriters, WriterStep(t, l), OpsStep(t, l)
  PROVE  CountersBalanced'
  <1> DEFINE C == {u \in Actors : pc[u] \in CountedLabels}
             R == {u \in Actors : pc[u] \in InReserveLabels}
             P == {u \in Actors : participant[u]}
  <1>1. /\ Counted = C /\ InReserve = R /\ Counted' = C' /\ InReserve' = R'
    BY DEF Counted, InReserve, CountedLabels, InReserveLabels, Counting, StoreLabels
  <1>2. writers = Cardinality(C) /\ ops = Cardinality(R) + Cardinality(P)
    BY <1>1 DEF CountersBalanced
  <1>3. /\ IsFiniteSet(C) /\ IsFiniteSet(R) /\ IsFiniteSet(P)
        /\ Cardinality(C) \in Nat /\ Cardinality(R) \in Nat /\ Cardinality(P) \in Nat
    BY ActorsAreFinite
  <1>4. writers' = Cardinality(C')
    <2>1. CASE writers' = writers /\ (pc[t] \in CountedLabels <=> l \in CountedLabels)
      <3>1. C' = C
        BY <2>1 DEF TypeOK
      <3> QED
        BY <1>2, <2>1, <3>1
    <2>2. CASE writers' = writers + 1 /\ pc[t] \notin CountedLabels /\ l \in CountedLabels
      <3>1. C' = C \cup {t} /\ t \notin C
        BY <2>2 DEF TypeOK
      <3> HIDE DEF C
      <3> QED
        BY <1>2, <1>3, <2>2, <3>1, FS_AddElement
    <2>3. CASE writers' = writers - 1 /\ pc[t] \in CountedLabels /\ l \notin CountedLabels
      <3>1. C' = C \ {t} /\ t \in C
        BY <2>3 DEF TypeOK
      <3> HIDE DEF C
      <3> QED
        BY <1>2, <1>3, <2>3, <3>1, FS_RemoveElement
    <2> QED
      BY <2>1, <2>2, <2>3 DEF WriterStep
  <1>5. ops' = Cardinality(R') + Cardinality(P')
    <2>1. CASE /\ ops' = ops /\ participant' = participant
               /\ (pc[t] \in InReserveLabels <=> l \in InReserveLabels)
      <3>1. R' = R /\ P' = P
        BY <2>1 DEF TypeOK
      <3> QED
        BY <1>2, <2>1, <3>1
    <2>2. CASE /\ ops' = ops + 1 /\ participant' = participant
               /\ pc[t] \notin InReserveLabels \cup Counting /\ l \in InReserveLabels
      <3>1. R' = R \cup {t} /\ t \notin R /\ P' = P
        BY <2>2 DEF TypeOK
      <3>2. Cardinality(R') = Cardinality(R) + 1
        BY <1>3, <3>1, FS_AddElement
      <3> HIDE DEF R, P
      <3> QED
        BY <1>2, <1>3, <2>2, <3>1, <3>2
    <2>3. CASE /\ ops' = ops - 1 /\ participant' = participant
               /\ pc[t] \in InReserveLabels /\ l \notin InReserveLabels
      <3>1. R' = R \ {t} /\ t \in R /\ P' = P
        BY <2>3 DEF TypeOK
      <3>2. Cardinality(R') = Cardinality(R) - 1
        BY <1>3, <3>1, FS_RemoveElement
      <3> HIDE DEF R, P
      <3> QED
        BY <1>2, <1>3, <2>3, <3>1, <3>2
    <2>4. CASE /\ ops' = IF participant'[t] THEN ops + 1 ELSE ops
               /\ participant' = [participant EXCEPT ![t] = Granule[addr[t]] \in seen]
               /\ pc[t] = "write_seen" /\ l = "write_check"
      <3>1. R' = R /\ t \notin P
        BY <2>4 DEF TypeOK, InReserveLabels, Reserving, ParticipantsAreWriters, Counting
      <3>2. CASE participant'[t]
        <4>1. P' = P \cup {t} /\ ops' = ops + 1
          BY <2>4, <3>2 DEF TypeOK
        <4>2. Cardinality(P') = Cardinality(P) + 1
          BY <1>3, <3>1, <4>1, FS_AddElement
        <4> HIDE DEF R, P
        <4> QED
          BY <1>2, <1>3, <3>1, <4>1, <4>2
      <3>3. CASE ~participant'[t]
        <4>1. P' = P /\ ops' = ops
          BY <2>4, <3>1, <3>3 DEF TypeOK
        <4> QED
          BY <1>2, <3>1, <4>1
      <3> QED
        BY <3>2, <3>3
    <2>5. CASE /\ ops' = IF participant[t] THEN ops - 1 ELSE ops
               /\ participant' = [participant EXCEPT ![t] = FALSE]
               /\ pc[t] \notin InReserveLabels /\ l \notin InReserveLabels
      <3>1. R' = R /\ P' = P \ {t}
        BY <2>5 DEF TypeOK
      <3>2. CASE participant[t]
        <4>1. t \in P /\ ops' = ops - 1
          BY <2>5, <3>2
        <4> HIDE DEF R, P
        <4>2. Cardinality(P \ {t}) = Cardinality(P) - 1
          BY <1>3, <4>1, FS_RemoveElement
        <4> QED
          BY <1>2, <1>3, <3>1, <4>1, <4>2
      <3>3. CASE ~participant[t]
        <4>1. P \ {t} = P /\ ops' = ops
          BY <2>5, <3>3
        <4> QED
          BY <1>2, <3>1, <4>1
      <3> QED
        BY <3>2, <3>3
    <2> QED
      BY <2>1, <2>2, <2>3, <2>4, <2>5 DEF OpsStep
  <1> QED
    BY <1>1, <1>4, <1>5 DEF CountersBalanced

\* A counter read as zero means that nobody is inside.
LEMMA DrainedIsEmpty ==
  ASSUME TypeOK, CountersBalanced
  PROVE  /\ writers = 0 => \A u \in Actors : pc[u] \notin CountedLabels
         /\ ops = 0 => \A u \in Actors : pc[u] \notin InReserveLabels /\ ~participant[u]
  <1> DEFINE P == {u \in Actors : participant[u]}
  <1>1. /\ IsFiniteSet(Counted) /\ IsFiniteSet(InReserve) /\ IsFiniteSet(P)
        /\ Cardinality(Counted) \in Nat /\ Cardinality(InReserve) \in Nat /\ Cardinality(P) \in Nat
    BY ActorsAreFinite DEF Counted, InReserve
  <1>2. writers = Cardinality(Counted) /\ ops = Cardinality(InReserve) + Cardinality(P)
    BY DEF CountersBalanced
  <1>3. writers = 0 => Counted = {}
    BY <1>1, <1>2, FS_EmptySet
  <1>4. ops = 0 => InReserve = {} /\ P = {}
    <2> HIDE DEF P
    <2> QED
      BY <1>1, <1>2, FS_EmptySet
  <1> QED
    BY <1>3, <1>4 DEF Counted, InReserve, CountedLabels, InReserveLabels, Counting, StoreLabels

LEMMA DrainIsKept ==
  ASSUME Exclusion, NEW t \in Actors, NEW l, GateStep(t, l), GateIsAQueue'
  PROVE  CommitHasDrained' /\ WindowHasDrained'
  <1>1. /\ pc' = [pc EXCEPT ![t] = l] /\ pc'[t] = l
        /\ \A u \in Actors : u # t => pc'[u] = pc[u] /\ participant'[u] = participant[u]
    BY DEF Exclusion, TypeOK, GateStep, OpsStep
  <1>2. CommitHasDrained'
    <2> SUFFICES ASSUME NEW u \in Actors, NEW v \in Actors, pc'[u] \in Alone
                 PROVE  /\ pc'[v] \notin {"epoch_before", "claim", "load"} \cup Reserving
                        /\ pc'[v] \in Admitted => ~participant'[v]
      BY DEF CommitHasDrained
    <2>1. CASE u = t /\ v = t
      BY <1>1, <2>1 DEF Alone, StoreLabels, Reserving, Admitted
    <2>2. CASE u = t /\ v # t
      <3>1. pc[t] \in Alone \/ ops = 0
        BY <1>1, <2>2 DEF GateStep, GuardedStep
      <3> QED
        BY <1>1, <2>2, <3>1, DrainedIsEmpty DEF Exclusion, CommitHasDrained, InReserveLabels
    <2>3. CASE u # t /\ v = t
      <3>1. pc[u] \in Alone /\ gate # <<>>
        BY <1>1, <2>3 DEF Exclusion, GateIsAQueue, Alone, Served, Ticketed, CommitLabels, WindowLabels,
           StoreLabels
      <3>2. l \notin InReserveLabels \ {"reserve_check"}
        BY <3>1 DEF Exclusion, CommitHasDrained, InReserveLabels, GateStep, GuardedStep
      <3>3. l \in Admitted => ~participant[t]
        BY <3>1 DEF Exclusion, CommitHasDrained, GateStep, GuardedStep
      <3>4. l \in Admitted /\ ~participant[t] => ~participant'[t]
        BY DEF GateStep, OpsStep, Admitted, Exclusion, TypeOK
      <3> QED
        BY <1>1, <2>3, <3>2, <3>3, <3>4 DEF InReserveLabels, Reserving
    <2>4. CASE u # t /\ v # t
      BY <1>1, <2>4 DEF Exclusion, CommitHasDrained
    <2> QED
      BY <2>1, <2>2, <2>3, <2>4
  <1>3. WindowHasDrained'
    <2> SUFFICES ASSUME NEW u \in Actors, NEW v \in Actors, pc'[u] \in WindowLabels \ {"window_drain"}
                 PROVE  pc'[v] \notin Admitted \cup {"write_check_gate"}
      BY DEF WindowHasDrained
    <2>1. CASE u = t /\ v = t
      BY <1>1, <2>1 DEF WindowLabels, StoreLabels, Admitted
    <2>2. CASE u = t /\ v # t
      <3>1. pc[t] \in WindowLabels /\ (pc[t] = "window_drain" => writers = 0)
        BY <1>1, <2>2 DEF GateStep, GuardedStep
      <3> QED
        BY <1>1, <2>2, <3>1, DrainedIsEmpty DEF Exclusion, WindowHasDrained, CountedLabels, Counting, Admitted
    <2>3. CASE u # t /\ v = t
      <3>1. pc[u] \in WindowLabels \ {"window_drain"} /\ coherency # None
        BY <1>1, <2>3, ActorsAreFinite DEF Exclusion, WindowOwnsCoherency
      <3> QED
        BY <1>1, <2>3, <3>1 DEF Exclusion, WindowHasDrained, GateStep, GuardedStep
    <2>4. CASE u # t /\ v # t
      BY <1>1, <2>4 DEF Exclusion, WindowHasDrained
    <2> QED
      BY <2>1, <2>2, <2>3, <2>4
  <1> QED
    BY <1>2, <1>3

LEMMA ExclusionIsInductive ==
  ASSUME Exclusion, [Next]_vars
  PROVE  Exclusion'
  <1>1. CASE Next
    <2>1. PICK t \in Actors : \E l : GateStep(t, l)
      BY <1>1, NextGates DEF Exclusion
    <2>2. PICK l : GateStep(t, l)
      BY <2>1
    <2>3. TypeOK'
      BY <1>1, NextType DEF Exclusion
    <2>4. GateIsAQueue'
      BY <2>2, TicketKeepsQueue DEF Exclusion, GateStep
    <2>5. WindowOwnsCoherency' /\ ParticipantsAreWriters'
      BY <2>2, CoherencyIsOwned, ParticipantsStayWriters DEF Exclusion, GateStep
    <2>6. CountersBalanced'
      BY <2>2, CountersFollow DEF Exclusion, GateStep
    <2> QED
      BY <2>2, <2>3, <2>4, <2>5, <2>6, DrainIsKept DEF Exclusion
  <1>2. CASE UNCHANGED vars
    BY <1>2 DEF vars, local, shared, ghosts, Exclusion, TypeOK, GateIsAQueue, WindowOwnsCoherency,
       ParticipantsAreWriters, CountersBalanced, CommitHasDrained, WindowHasDrained, Counted, InReserve
  <1> QED
    BY <1>1, <1>2

LEMMA InitExclusion == Init => Exclusion
  <1> SUFFICES ASSUME Init PROVE Exclusion
    OBVIOUS
  <1>1. Counted = {} /\ InReserve = {} /\ {t \in Actors : participant[t]} = {}
    BY DEF Init, Counted, InReserve, Reserving
  <1>0. Cardinality({}) = 0
    BY FS_EmptySet
  <1>2. CountersBalanced
    <2>1. writers = 0 /\ ops = 0
      BY DEF Init
    <2> QED
      BY <1>0, <1>1, <2>1 DEF CountersBalanced
  <1>3. GateIsAQueue
    BY DEF Init, GateIsAQueue, Ticketed, Served, CommitLabels, WindowLabels, StoreLabels
  <1>4. WindowOwnsCoherency /\ ParticipantsAreWriters /\ CommitHasDrained /\ WindowHasDrained
    BY ActorsAreFinite DEF Init, WindowOwnsCoherency, ParticipantsAreWriters, CommitHasDrained,
       WindowHasDrained, WindowLabels, StoreLabels, Alone
  <1> QED
    BY <1>2, <1>3, <1>4, InitType DEF Exclusion

\* Both counters are exactly the numbers of actors inside, so that a gate that
\* waits for zero waits for everybody (enter_write, finish_write,
\* begin_reservation_operation, end_reservation_operation).
THEOREM CountersAreBalanced == Spec => []CountersBalanced
  <1>1. Exclusion => CountersBalanced
    BY DEF Exclusion
  <1> QED
    BY <1>1, InitExclusion, ExclusionIsInductive, PTL DEF Spec

\* While the physical write window is open nobody else changes guest memory or
\* takes a reservation (physical_write_window).
THEOREM WindowIsAlone == Spec => []WindowIsExclusive
  <1>1. Exclusion => WindowIsExclusive
    <2> SUFFICES ASSUME Exclusion, NEW d \in Devices, NEW u \in Actors, d # u,
                        pc[d] \in {"window_open", "window_invalidate", "window_store"}
                 PROVE  pc[u] \notin {"write_invalidate", "write_store", "commit_store", "window_store",
                                     "claim"}
      BY DEF WindowIsExclusive
    <2>1. d \in Actors /\ pc[d] \in Served /\ pc[d] \in Alone /\ pc[d] \in WindowLabels \ {"window_drain"}
      BY DEF Actors, Served, Ticketed, WindowLabels, StoreLabels, Alone
    <2>2. pc[u] \notin Served
      BY <2>1 DEF Exclusion, GateIsAQueue
    <2>3. pc[u] \notin Admitted /\ pc[u] # "claim"
      BY <2>1 DEF Exclusion, CommitHasDrained, WindowHasDrained
    <2> QED
      BY <2>2, <2>3 DEF Served, Ticketed, CommitLabels, WindowLabels, StoreLabels, Admitted
  <1> QED
    BY <1>1, InitExclusion, ExclusionIsInductive, PTL DEF Spec

-----------------------------------------------------------------------------
(* The reservations: what a step of actor t to label l does to them.       *)

StoreAt == {"write_store", "commit_store", "window_store"}
BreakAt == {"write_invalidate", "commit_invalidate", "window_invalidate"}

\* A slot that is Active may be lost.
SlotsLose ==
    \A s \in Slots : \/ slots'[s] = slots[s]
                     \/ slots'[s] = None /\ slots[s] # None /\ slots[s].status = "Active"

\* A step changes only what t itself holds, and an address for the whole
\* operation.
LocalStep(t, l) ==
    /\ pc' = [pc EXCEPT ![t] = l]
    /\ seen \subseteq seen' /\ (l = "claim" => Granule[addr[t]] \in seen')
    /\ \/ addr' = addr
       \/ /\ addr' = [addr EXCEPT ![t] = addr'[t]]
          /\ l \in {"idle", "reserve", "commit_ticket", "write", "window_invalidate", "window_open"}
    /\ \/ participant' = participant /\ (l \in Counting => pc[t] \in Counting)
       \/ participant' = [participant EXCEPT ![t] = Granule[addr[t]] \in seen] /\ l = "write_check"
       \/ participant' = [participant EXCEPT ![t] = FALSE] /\ l \notin Counting

TokenStep(t, l) ==
    LET tok == reservation[t] IN
    \/ /\ slots' = slots /\ reservation' = reservation
       /\ l \in Committing => pc[t] \in Committing
       /\ l \in CommitLabels => pc[t] \in CommitLabels \/ reservation[t] # None
       /\ l \notin StoreAt \cup {"commit_invalidate"}
       /\ pc[t] \in SettingUp => l \in SettingUp \/ writers = 0
    \/ /\ reservation' = [reservation EXCEPT ![t] = None] /\ SlotsLose
       /\ l \in {"idle", "reserve", "reserve_end"}
    \/ /\ pc[t] = "claim" /\ l = "load"
       /\ \E s \in Slots, n \in Generations \ InUse :
             /\ slots[s] = None
             /\ slots' = [slots EXCEPT ![s] = [addr |-> addr[t], gen |-> n, status |-> "Active"]]
             /\ reservation' = [reservation EXCEPT ![t] = [addr |-> addr[t], slot |-> s, gen |-> n]]
    \/ /\ pc[t] = "commit_claim" /\ l = "commit_invalidate" /\ reservation' = reservation
       /\ Names(tok, "Active") /\ slots[tok.slot].addr = addr[t]
       /\ slots' = [slots EXCEPT ![tok.slot].status = "Committing"]
    \/ /\ pc[t] = "commit_claim" /\ l = "commit_release" /\ reservation' = reservation
       /\ SlotsLose
    \/ /\ <<pc[t], l>> \in {<<"write_invalidate", "write_store">>, <<"commit_invalidate", "commit_store">>,
                            <<"window_invalidate", "window_store">>}
       /\ reservation' = reservation /\ slots' = Invalidated(Granule[addr[t]])
    \/ /\ pc[t] = "commit_clear" /\ l = "commit_release" /\ reservation' = reservation
       /\ slots' = [slots EXCEPT ![tok.slot] = None]

HistoryStep(t, l) ==
    \/ since' = since /\ last' = last /\ pc[t] \notin StoreAt \cup {"load"}
    \/ since' = [since EXCEPT ![t] = {}] /\ last' = last /\ pc[t] \notin StoreAt
    \/ /\ pc[t] = "write_store" /\ l = "write_publish" /\ StoreBytes(t, "plain")
    \/ /\ pc[t] = "commit_store" /\ l = "commit_publish" /\ StoreBytes(t, "conditional")
    \/ /\ pc[t] = "window_store" /\ l = "window_publish" /\ StoreBytes(t, "window")

MonitorStep(t, l) == LocalStep(t, l) /\ TokenStep(t, l) /\ HistoryStep(t, l)

LEMMA CancelledLoses ==
  ASSUME TypeOK, NEW t \in Actors, slots' = Cancelled(reservation[t])
  PROVE  SlotsLose
  <1>1. CASE Names(reservation[t], "Active")
    BY <1>1 DEF TypeOK, Cancelled, SlotsLose, Names, Tokens
  <1>2. CASE ~Names(reservation[t], "Active")
    BY <1>2 DEF Cancelled, SlotsLose
  <1> QED
    BY <1>1, <1>2

LEMMA ReserveMonitor ==
  ASSUME TypeOK, NEW t \in Threads, Reserve(t)
  PROVE  \E l : MonitorStep(t, l)
  <1> USE RolesAssumption DEF TypeOK, Actors, Step, At, Goto, Return, local, shared, ghosts, Reserving,
       MonitorStep, LocalStep, TokenStep, HistoryStep, Counting, Committing, CommitLabels, SettingUp, StoreAt
  <1>1. ASSUME ReserveWait(t) PROVE MonitorStep(t, "reserve_count")
    BY <1>1 DEF ReserveWait
  <1>2. ASSUME ReserveCount(t) PROVE MonitorStep(t, "reserve_check")
    BY <1>2 DEF ReserveCount
  <1>3. ASSUME ReserveCheck(t) PROVE MonitorStep(t, IF Held THEN "reserve" ELSE "epoch_before")
    BY <1>3 DEF ReserveCheck
  <1>4. ASSUME ReserveMark(t) PROVE MonitorStep(t, "claim")
    BY <1>4 DEF ReserveMark
  <1>5. ASSUME ReserveClaim(t) PROVE MonitorStep(t, "load")
    BY <1>5, ClaimTakes DEF ReserveClaim
  <1>6. ASSUME ReserveLoad(t) PROVE MonitorStep(t, "epoch_after")
    BY <1>6 DEF ReserveLoad
  <1>7. ASSUME ReserveEpoch(t) PROVE MonitorStep(t, IF moved[t] THEN "reserve_lost" ELSE "writers")
    BY <1>7 DEF ReserveEpoch
  <1>8. ASSUME ReserveWriters(t) PROVE MonitorStep(t, IF writers # 0 THEN "reserve_lost" ELSE "reserve_end")
    BY <1>8 DEF ReserveWriters
  <1>9. ASSUME ReserveLost(t) PROVE MonitorStep(t, "reserve_end")
    BY <1>9, CancelledLoses DEF ReserveLost
  <1>10. ASSUME ReserveEnd(t) PROVE MonitorStep(t, "idle")
    BY <1>10 DEF ReserveEnd
  <1> HIDE DEF MonitorStep, Step
  <1> QED
    BY <1>1, <1>2, <1>3, <1>4, <1>5, <1>6, <1>7, <1>8, <1>9, <1>10 DEF Reserve

LEMMA CommitMonitor ==
  ASSUME TypeOK, NEW t \in Threads, StoreConditional(t)
  PROVE  \E l : MonitorStep(t, l)
  <1> USE RolesAssumption DEF TypeOK, Actors, Step, At, Goto, Return, local, shared, ghosts, Reserving,
       MonitorStep, LocalStep, TokenStep, HistoryStep, Counting, Committing, CommitLabels, SettingUp, StoreAt
  <1>1. ASSUME CommitServed(t) PROVE MonitorStep(t, "commit_writers")
    BY <1>1 DEF CommitServed
  <1>2. ASSUME DrainWriters(t, "commit_writers", "commit_ops") PROVE MonitorStep(t, "commit_ops")
    BY <1>2 DEF DrainWriters
  <1>3. ASSUME DrainOps(t, "commit_ops", "commit_writers", "commit_claim") PROVE MonitorStep(t, IF ops = 0 THEN "commit_claim" ELSE "commit_writers")
    BY <1>3 DEF DrainOps
  <1>4. ASSUME CommitClaim(t) PROVE MonitorStep(t, "commit_invalidate") \/ MonitorStep(t, "commit_release")
    BY <1>4, CancelledLoses DEF CommitClaim
  <1>5. ASSUME Step(t, "commit_invalidate", "commit_store") /\ Invalidate(t) PROVE MonitorStep(t, "commit_store")
    BY <1>5 DEF Invalidate
  <1>6. ASSUME Step(t, "commit_store", "commit_publish") /\ StoreBytes(t, "conditional") PROVE MonitorStep(t, "commit_publish")
    BY <1>6 DEF StoreBytes
  <1>7. ASSUME Step(t, "commit_publish", "commit_clear") /\ PublishEpoch PROVE MonitorStep(t, "commit_clear")
    BY <1>7 DEF PublishEpoch
  <1>8. ASSUME CommitClear(t) PROVE MonitorStep(t, "commit_release")
    BY <1>8 DEF CommitClear
  <1>9. ASSUME CommitRelease(t) PROVE MonitorStep(t, "idle")
    BY <1>9 DEF CommitRelease, SlotsLose
  <1> HIDE DEF MonitorStep, Step
  <1> QED
    BY <1>1, <1>2, <1>3, <1>4, <1>5, <1>6, <1>7, <1>8, <1>9 DEF StoreConditional

LEMMA WriteMonitor ==
  ASSUME TypeOK, NEW t \in Threads, Write(t)
  PROVE  \E l : MonitorStep(t, l)
  <1> USE RolesAssumption DEF TypeOK, Actors, Step, At, Goto, Return, local, shared, ghosts, Reserving,
       MonitorStep, LocalStep, TokenStep, HistoryStep, Counting, Committing, CommitLabels, SettingUp, StoreAt
  <1>1. ASSUME WriteWait(t) PROVE MonitorStep(t, "write_count")
    BY <1>1 DEF WriteWait
  <1>2. ASSUME WriteCount(t) PROVE MonitorStep(t, "write_seen")
    BY <1>2 DEF WriteCount
  <1>3. ASSUME WriteSeen(t) PROVE MonitorStep(t, "write_check")
    BY <1>3 DEF WriteSeen
  <1>4. ASSUME WriteCheck(t) PROVE MonitorStep(t, IF coherency # None THEN "write" ELSE "write_check_gate")
    BY <1>4 DEF WriteCheck, Uncount
  <1>5. ASSUME WriteCheckGate(t) PROVE MonitorStep(t, IF participant[t] /\ Held THEN "write_blocked" ELSE "write_invalidate")
    BY <1>5 DEF WriteCheckGate, Uncount
  <1>6. ASSUME WriteBlocked(t) PROVE MonitorStep(t, "write")
    BY <1>6 DEF WriteBlocked
  <1>7. ASSUME Step(t, "write_invalidate", "write_store") /\ Invalidate(t) PROVE MonitorStep(t, "write_store")
    BY <1>7 DEF Invalidate
  <1>8. ASSUME Step(t, "write_store", "write_publish") /\ StoreBytes(t, "plain") PROVE MonitorStep(t, "write_publish")
    BY <1>8 DEF StoreBytes
  <1>9. ASSUME Step(t, "write_publish", "write_leave") /\ PublishEpoch PROVE MonitorStep(t, "write_leave")
    BY <1>9 DEF PublishEpoch
  <1>10. ASSUME WriteLeave(t) PROVE MonitorStep(t, "idle")
    BY <1>10 DEF WriteLeave, Uncount
  <1> HIDE DEF MonitorStep, Step
  <1> QED
    BY <1>1, <1>2, <1>3, <1>4, <1>5, <1>6, <1>7, <1>8, <1>9, <1>10 DEF Write

LEMMA WindowMonitor ==
  ASSUME TypeOK, NEW t \in Devices, Window(t)
  PROVE  \E l : MonitorStep(t, l)
  <1> USE RolesAssumption DEF TypeOK, Actors, Step, At, Goto, Return, local, shared, ghosts, Reserving,
       MonitorStep, LocalStep, TokenStep, HistoryStep, Counting, Committing, CommitLabels, SettingUp, StoreAt
  <1>1. ASSUME WindowTicket(t) PROVE MonitorStep(t, "window_ticket")
    BY <1>1 DEF WindowTicket
  <1>2. ASSUME WindowServed(t) PROVE MonitorStep(t, "window_writers")
    BY <1>2 DEF WindowServed
  <1>3. ASSUME DrainWriters(t, "window_writers", "window_ops") PROVE MonitorStep(t, "window_ops")
    BY <1>3 DEF DrainWriters
  <1>4. ASSUME DrainOps(t, "window_ops", "window_writers", "window_open") PROVE MonitorStep(t, IF ops = 0 THEN "window_open" ELSE "window_writers")
    BY <1>4 DEF DrainOps
  <1>5. ASSUME Step(t, "window_invalidate", "window_store") /\ Invalidate(t) PROVE MonitorStep(t, "window_store")
    BY <1>5 DEF Invalidate
  <1>6. ASSUME Step(t, "window_store", "window_publish") /\ StoreBytes(t, "window") PROVE MonitorStep(t, "window_publish")
    BY <1>6 DEF StoreBytes
  <1>7. ASSUME Step(t, "window_publish", "window_leave") /\ PublishEpoch PROVE MonitorStep(t, "window_leave")
    BY <1>7 DEF PublishEpoch
  <1>8. ASSUME WindowWritten(t) PROVE MonitorStep(t, "window_open")
    BY <1>8 DEF WindowWritten, Uncount
  <1>9. ASSUME WindowClose(t) PROVE MonitorStep(t, "window_close")
    BY <1>9 DEF WindowClose
  <1>10. ASSUME WindowClosed(t) PROVE MonitorStep(t, "idle")
    BY <1>10 DEF WindowClosed
  <1> HIDE DEF MonitorStep, Step
  <1> QED
    BY <1>1, <1>2, <1>3, <1>4, <1>5, <1>6, <1>7, <1>8, <1>9, <1>10 DEF Window

LEMMA BeginMonitor ==
  ASSUME TypeOK, NEW t \in Threads,
         Cancel(t) \/ \E a \in Addrs : ReserveBegin(t, a) \/ CommitBegin(t, a) \/ WriteBegin(t, a)
  PROVE  \E l : MonitorStep(t, l)
  <1> USE RolesAssumption DEF TypeOK, Actors, Step, At, Goto, Return, local, shared, ghosts, Reserving,
       MonitorStep, LocalStep, TokenStep, HistoryStep, Counting, Committing, CommitLabels, SettingUp, StoreAt
  <1>1. ASSUME NEW a \in Addrs, ReserveBegin(t, a) PROVE MonitorStep(t, "reserve")
    BY <1>1, CancelledLoses DEF ReserveBegin
  <1>2. ASSUME NEW a \in Addrs, CommitBegin(t, a) PROVE MonitorStep(t, "commit_ticket")
    BY <1>2 DEF CommitBegin
  <1>3. ASSUME NEW a \in Addrs, WriteBegin(t, a) PROVE MonitorStep(t, "write")
    BY <1>3 DEF WriteBegin
  <1>4. ASSUME Cancel(t) PROVE MonitorStep(t, "idle")
    BY <1>4, CancelledLoses DEF Cancel
  <1> HIDE DEF MonitorStep
  <1> QED
    BY <1>1, <1>2, <1>3, <1>4

LEMMA WindowBeginMonitor ==
  ASSUME TypeOK, NEW t \in Devices, WindowBegin(t) \/ \E a \in Addrs : WindowWrite(t, a)
  PROVE  \E l : MonitorStep(t, l)
  <1> USE RolesAssumption DEF TypeOK, Actors, Step, At, Goto, Return, local, shared, ghosts, Reserving,
       MonitorStep, LocalStep, TokenStep, HistoryStep, Counting, Committing, CommitLabels, SettingUp, StoreAt
  <1>1. ASSUME WindowBegin(t) PROVE MonitorStep(t, "window_drain")
    BY <1>1 DEF WindowBegin
  <1>2. ASSUME NEW a \in Addrs, WindowWrite(t, a) PROVE MonitorStep(t, "window_invalidate")
    BY <1>2 DEF WindowWrite
  <1> HIDE DEF MonitorStep
  <1> QED
    BY <1>1, <1>2

LEMMA NextMonitor ==
  ASSUME TypeOK, Next
  PROVE  \E t \in Actors : \E l : MonitorStep(t, l)
  <1>1. ASSUME NEW t \in Threads, Reserve(t) \/ StoreConditional(t) \/ Write(t)
        PROVE  \E l : MonitorStep(t, l)
    BY <1>1, ReserveMonitor, CommitMonitor, WriteMonitor
  <1>2. ASSUME NEW t \in Threads, NEW a \in Addrs,
               Cancel(t) \/ ReserveBegin(t, a) \/ CommitBegin(t, a) \/ WriteBegin(t, a)
        PROVE  \E l : MonitorStep(t, l)
    BY <1>2, BeginMonitor
  <1>3. ASSUME NEW t \in Threads, Cancel(t) PROVE \E l : MonitorStep(t, l)
    BY <1>3, BeginMonitor
  <1>4. ASSUME NEW d \in Devices, Window(d) \/ WindowBegin(d) \/ \E a \in Addrs : WindowWrite(d, a)
        PROVE  \E l : MonitorStep(d, l)
    BY <1>4, WindowMonitor, WindowBeginMonitor
  <1> QED
    BY <1>1, <1>2, <1>3, <1>4 DEF Next, Actors

\* The slots and tokens of the others: a token is only ever given up by its
\* owner, and becomes the name of an Active slot only when it is taken.
LEMMA LocalFacts ==
  ASSUME TypeOK, NEW t \in Actors, NEW l, MonitorStep(t, l)
  PROVE  /\ pc'[t] = l
         /\ \A u \in Actors : u # t => /\ pc'[u] = pc[u] /\ addr'[u] = addr[u]
                                       /\ participant'[u] = participant[u]
                                       /\ reservation'[u] = reservation[u]
         /\ reservation'[t] = reservation[t] \/ reservation'[t] = None \/ l = "load"
  <1>1. /\ pc'[t] = l
        /\ \A u \in Actors : u # t => /\ pc'[u] = pc[u] /\ addr'[u] = addr[u]
                                      /\ participant'[u] = participant[u]
    BY DEF TypeOK, MonitorStep, LocalStep
  <1>2. \A u \in Actors : u # t => reservation'[u] = reservation[u]
    BY DEF TypeOK, MonitorStep, TokenStep
  <1>3. reservation'[t] = reservation[t] \/ reservation'[t] = None \/ l = "load"
    BY DEF TypeOK, MonitorStep, TokenStep
  <1> QED
    BY <1>1, <1>2, <1>3

\* Every slot stays, is lost or cleared, is taken, or is claimed by its owner.
LEMMA SlotFacts ==
  ASSUME TypeOK, NEW t \in Actors, NEW l, MonitorStep(t, l), NEW s \in Slots
  PROVE  \/ slots'[s] = slots[s]
         \/ /\ slots'[s] = None /\ slots[s] # None
            /\ \/ slots[s].status = "Active"
               \/ pc[t] = "commit_clear" /\ s = reservation[t].slot
         \/ /\ pc[t] = "claim" /\ l = "load" /\ slots[s] = None /\ reservation'[t].slot = s
            /\ reservation'[t].addr = addr[t] /\ reservation'[t].gen \in Generations \ InUse
            /\ reservation'[t] # None
            /\ slots'[s] = [addr |-> addr[t], gen |-> reservation'[t].gen, status |-> "Active"]
         \/ /\ pc[t] = "commit_claim" /\ l = "commit_invalidate" /\ s = reservation[t].slot
            /\ Names(reservation[t], "Active")
            /\ slots'[s] = [slots[s] EXCEPT !.status = "Committing"]
  <1> USE DEF TypeOK
  <1>1. CASE slots' = slots \/ SlotsLose
    BY <1>1 DEF SlotsLose
  <1>2. CASE /\ pc[t] = "claim" /\ l = "load"
             /\ \E r \in Slots, n \in Generations \ InUse :
                  /\ slots[r] = None
                  /\ slots' = [slots EXCEPT ![r] = [addr |-> addr[t], gen |-> n, status |-> "Active"]]
                  /\ reservation' = [reservation EXCEPT ![t] = [addr |-> addr[t], slot |-> r, gen |-> n]]
    <2>1. PICK r \in Slots, n \in Generations \ InUse :
             /\ slots[r] = None
             /\ slots' = [slots EXCEPT ![r] = [addr |-> addr[t], gen |-> n, status |-> "Active"]]
             /\ reservation' = [reservation EXCEPT ![t] = [addr |-> addr[t], slot |-> r, gen |-> n]]
      BY <1>2
    <2>2. addr[t] \in Addrs
      BY <1>2 DEF ReserveLabels
    <2>3. [addr |-> addr[t], slot |-> r, gen |-> n] # None
      BY <2>2, NoneAssumption DEF Tokens
    <2> QED
      BY <1>2, <2>1, <2>3
  <1>3. CASE /\ pc[t] = "commit_claim" /\ l = "commit_invalidate"
             /\ Names(reservation[t], "Active")
             /\ slots' = [slots EXCEPT ![reservation[t].slot].status = "Committing"]
    BY <1>3
  <1>4. CASE slots' = Invalidated(Granule[addr[t]])
    BY <1>4 DEF Invalidated
  <1>5. CASE pc[t] = "commit_clear" /\ slots' = [slots EXCEPT ![reservation[t].slot] = None]
    BY <1>5
  <1> QED
    BY <1>1, <1>2, <1>3, <1>4, <1>5 DEF MonitorStep, TokenStep

LEMMA SeenIsKept ==
  ASSUME TypeOK, ReservedIsSeen, NEW t \in Actors, NEW l, MonitorStep(t, l)
  PROVE  ReservedIsSeen'
  <1>1. seen \subseteq seen' /\ (l = "claim" => addr' = addr /\ Granule[addr[t]] \in seen')
    BY DEF MonitorStep, LocalStep
  <1>2. ASSUME NEW s \in Slots, slots'[s] # None PROVE Granule[slots'[s].addr] \in seen'
    <2>1. slots'[s] = slots[s] => Granule[slots'[s].addr] \in seen'
      BY <1>1, <1>2 DEF ReservedIsSeen
    <2>2. ASSUME pc[t] = "claim",
                 slots'[s] = [addr |-> addr[t], gen |-> reservation'[t].gen, status |-> "Active"]
          PROVE  Granule[slots'[s].addr] \in seen'
      BY <1>1, <2>2 DEF ReservedIsSeen
    <2>3. ASSUME Names(reservation[t], "Active"), s = reservation[t].slot,
                 slots'[s] = [slots[s] EXCEPT !.status = "Committing"]
          PROVE  Granule[slots'[s].addr] \in seen'
      <3>1. slots[s] \in Entries /\ slots[s] # None
        BY <2>3 DEF TypeOK, Names
      <3>2. slots'[s].addr = slots[s].addr
        BY <2>3, <3>1 DEF Entries
      <3> QED
        BY <1>1, <3>1, <3>2 DEF ReservedIsSeen
    <2> QED
      BY <1>2, <2>1, <2>2, <2>3, SlotFacts
  <1>3. ASSUME NEW u \in Actors, reservation'[u] # None PROVE Granule[reservation'[u].addr] \in seen'
    <2>1. CASE reservation'[u] = reservation[u]
      BY <1>1, <1>3, <2>1 DEF ReservedIsSeen
    <2>2. CASE u = t /\ l = "load" /\ reservation'[u] # reservation[u]
      <3>1. pc[t] = "claim" /\ reservation'[t].addr = addr[t]
        BY <1>3, <2>2 DEF TypeOK, MonitorStep, TokenStep, StoreAt
      <3> QED
        BY <1>1, <2>2, <3>1 DEF ReservedIsSeen
    <2> QED
      BY <1>3, <2>1, <2>2, LocalFacts
  <1>4. \A u \in Actors : pc'[u] = "claim" => Granule[addr'[u]] \in seen'
    BY <1>1, LocalFacts DEF ReservedIsSeen
  <1> QED
    BY <1>2, <1>3, <1>4 DEF ReservedIsSeen

\* Nobody else holds a ticket's turn.
LEMMA ServedIsAlone ==
  ASSUME GateIsAQueue, NEW t \in Actors, NEW u \in Actors, pc[t] \in Served, pc[u] \in Served
  PROVE  t = u
  BY DEF GateIsAQueue

LEMMA TokensStayUnique ==
  ASSUME Exclusion, TokensAreUnique, NEW t \in Actors, NEW l, MonitorStep(t, l), TypeOK'
  PROVE  TokensAreUnique'
  <1> USE DEF Exclusion
  <1> DEFINE Taken == /\ pc[t] = "claim" /\ l = "load" /\ reservation'[t] # None
                      /\ reservation'[t].addr = addr[t] /\ reservation'[t].gen \notin InUse
                      /\ slots'[reservation'[t].slot] =
                           [addr |-> addr[t], gen |-> reservation'[t].gen, status |-> "Active"]
  <1>1. reservation'[t] \in {reservation[t], None} \/ Taken
    <2>1. ASSUME pc[t] = "claim", l = "load",
                 \E s \in Slots, n \in Generations \ InUse :
                    /\ slots[s] = None
                    /\ slots' = [slots EXCEPT ![s] = [addr |-> addr[t], gen |-> n, status |-> "Active"]]
                    /\ reservation' = [reservation EXCEPT ![t] = [addr |-> addr[t], slot |-> s, gen |-> n]]
          PROVE  Taken
      <3>1. PICK s \in Slots, n \in Generations \ InUse :
                    /\ slots' = [slots EXCEPT ![s] = [addr |-> addr[t], gen |-> n, status |-> "Active"]]
                    /\ reservation' = [reservation EXCEPT ![t] = [addr |-> addr[t], slot |-> s, gen |-> n]]
        BY <2>1
      <3>2. reservation'[t] = [addr |-> addr[t], slot |-> s, gen |-> n]
            /\ slots'[s] = [addr |-> addr[t], gen |-> n, status |-> "Active"]
        BY <3>1 DEF TypeOK
      <3>3. addr[t] \in Addrs
        BY <2>1 DEF TypeOK, ReserveLabels
      <3>4. [addr |-> addr[t], slot |-> s, gen |-> n] # None
        BY <3>3, NoneAssumption DEF Tokens
      <3> QED
        BY <2>1, <3>2, <3>4
    <2> HIDE DEF Taken
    <2> QED
      BY <2>1 DEF TypeOK, MonitorStep, TokenStep
  <1>2. \A u \in Actors : u # t => reservation'[u] = reservation[u]
    BY LocalFacts
  <1>3. /\ \A u \in Actors : reservation[u] # None => reservation[u].gen \in InUse
        /\ \A s \in Slots : slots[s] # None => slots[s].gen \in InUse
    BY DEF InUse, TypeOK, Actors
  <1>4. ASSUME NEW u \in Actors, NEW v \in Actors, u # v, reservation'[u] # None, reservation'[v] # None
        PROVE  reservation'[u].gen # reservation'[v].gen
    <2>1. CASE Taken
      BY <1>2, <1>3, <1>4, <2>1 DEF TokensAreUnique
    <2>2. CASE reservation'[t] \in {reservation[t], None}
      BY <1>2, <1>4, <2>2 DEF TokensAreUnique
    <2> QED
      BY <1>1, <2>1, <2>2
  <1>5. ASSUME NEW u \in Actors, reservation'[u] # None, slots'[reservation'[u].slot] # None,
               slots'[reservation'[u].slot].gen = reservation'[u].gen
        PROVE  slots'[reservation'[u].slot].addr = reservation'[u].addr
    <2> DEFINE r == reservation'[u].slot
    <2>0. r \in Slots
      BY <1>5 DEF TypeOK, Tokens
    <2>1. CASE u = t /\ Taken
      BY <2>1
    <2>2. CASE reservation'[u] = reservation[u]
      <3>1. CASE slots'[r] = slots[r]
        BY <1>5, <2>2, <3>1 DEF TokensAreUnique
      <3>2. CASE slots'[r] = [addr |-> addr[t], gen |-> reservation'[t].gen, status |-> "Active"]
                 /\ reservation'[t].gen \in Generations \ InUse
        <4>1. slots'[r].gen = reservation'[t].gen
          BY <3>2
        <4> QED
          BY <1>3, <1>5, <2>2, <3>2, <4>1
      <3>3. CASE slots'[r] = [slots[r] EXCEPT !.status = "Committing"] /\ r = reservation[t].slot
                 /\ Names(reservation[t], "Active")
        <4>1. slots[r] # None /\ slots[r] \in Entries
          BY <2>0, <3>3 DEF Names, TypeOK
        <4>2. slots'[r].gen = slots[r].gen /\ slots'[r].addr = slots[r].addr
          BY <3>3, <4>1 DEF Entries
        <4> QED
          BY <1>5, <2>2, <4>1, <4>2 DEF TokensAreUnique
      <3> QED
        BY <1>5, <2>0, <3>1, <3>2, <3>3, SlotFacts
    <2> QED
      BY <1>1, <1>2, <1>5, <2>1, <2>2
  <1>6. ASSUME NEW u \in Actors, pc'[u] \in CommitLabels PROVE reservation'[u] # None
    <2>1. CASE u # t
      BY <1>2, <1>6, <2>1, LocalFacts DEF TokensAreUnique
    <2>2. CASE u = t
      <3>1. l \in CommitLabels
        BY <1>6, <2>2, LocalFacts
      <3> QED
        BY <2>2, <3>1 DEF TokensAreUnique, MonitorStep, TokenStep, CommitLabels, BreakAt, StoreAt
    <2> QED
      BY <2>1, <2>2
  <1>7. ASSUME NEW u \in Actors, pc'[u] \in Committing
        PROVE  Names(reservation[u], "Committing")' /\ reservation'[u].addr = addr'[u]
    <2>1. CASE u # t
      <3> DEFINE r == reservation[u].slot
      <3>1. pc[u] \in Committing /\ addr'[u] = addr[u] /\ reservation'[u] = reservation[u]
        BY <1>7, <2>1, LocalFacts
      <3>2. /\ Names(reservation[u], "Committing") /\ reservation[u].addr = addr[u] /\ r \in Slots
            /\ slots[r] # None /\ slots[r].status = "Committing"
        BY <3>1 DEF TokensAreUnique, Names, TypeOK, Tokens
      <3>3. pc[t] # "commit_clear"
        BY <2>1, <3>1, ServedIsAlone DEF Committing, Served, Ticketed, CommitLabels
      <3>4. ~(Names(reservation[t], "Active") /\ r = reservation[t].slot)
        BY <3>2 DEF Names
      <3>5. slots'[r] = slots[r]
        <4>1. r \in Slots /\ slots[r] # None /\ slots[r].status # "Active"
          BY <3>2
        <4> HIDE DEF r
        <4> QED
          BY <3>3, <3>4, <4>1, SlotFacts
      <3> QED
        BY <3>1, <3>2, <3>5 DEF Names
    <2>2. CASE u = t
      <3> DEFINE tok == reservation[t]
      <3>0. l \in Committing
        BY <1>7, <2>2, LocalFacts
      <3>1. l \in Committing /\ addr' = addr
        BY <3>0 DEF MonitorStep, LocalStep, Committing
      <3>2. CASE pc[t] \in Committing /\ slots' = slots /\ reservation' = reservation
        BY <2>2, <3>1, <3>2 DEF TokensAreUnique, Names
      <3>3. CASE /\ reservation' = reservation /\ Names(tok, "Active") /\ slots[tok.slot].addr = addr[t]
                 /\ slots' = [slots EXCEPT ![tok.slot].status = "Committing"]
        <4>1. tok \in Tokens /\ tok.slot \in Slots /\ slots[tok.slot] \in Entries
          BY <3>3 DEF Names, TypeOK, Tokens
        <4>2. tok.addr = addr[t]
          BY <3>3 DEF TokensAreUnique, Names
        <4>3. slots'[tok.slot] = [slots[tok.slot] EXCEPT !.status = "Committing"]
          BY <3>3, <4>1 DEF TypeOK
        <4>4. /\ slots'[tok.slot].gen = slots[tok.slot].gen /\ slots'[tok.slot].status = "Committing"
              /\ slots'[tok.slot] \in Entries
          BY <4>1, <4>3 DEF Entries
        <4>5. slots'[tok.slot] # None
          BY <4>4, NoneAssumption
        <4> QED
          BY <2>2, <3>1, <3>3, <4>2, <4>4, <4>5 DEF Names
      <3>4. CASE /\ pc[t] = "commit_invalidate" /\ reservation' = reservation
                 /\ slots' = Invalidated(Granule[addr[t]])
        <4>1. /\ Names(tok, "Committing") /\ tok.addr = addr[t] /\ tok.slot \in Slots
              /\ slots[tok.slot].status = "Committing"
          BY <3>4 DEF TokensAreUnique, Names, TypeOK, Tokens, Committing
        <4>2. slots'[tok.slot] = slots[tok.slot]
          BY <3>4, <4>1 DEF Invalidated
        <4> QED
          BY <2>2, <3>1, <3>4, <4>1, <4>2 DEF Names
      <3> QED
        BY <3>1, <3>2, <3>3, <3>4 DEF MonitorStep, TokenStep, Committing
    <2> QED
      BY <2>1, <2>2
  <1> QED
    BY <1>4, <1>5, <1>6, <1>7 DEF TokensAreUnique

\* A token is not named by an Active slot unless it was before, or is taken now.
LEMMA NamesActive ==
  ASSUME Exclusion, TokensAreUnique, NEW t \in Actors, NEW l, MonitorStep(t, l), TypeOK',
         NEW u \in Actors, Names(reservation[u], "Active")'
  PROVE  \/ /\ u = t /\ l = "load" /\ pc[t] = "claim"
         \/ /\ Names(reservation[u], "Active") /\ reservation'[u] = reservation[u]
            /\ slots'[reservation[u].slot] = slots[reservation[u].slot]
  <1> USE DEF Exclusion
  <1> DEFINE r == reservation'[u].slot
  <1>1. /\ reservation'[u] # None /\ r \in Slots /\ slots'[r] # None
        /\ slots'[r].gen = reservation'[u].gen /\ slots'[r].status = "Active"
    BY DEF Names, TypeOK, Tokens
  <1>2. reservation'[u] = reservation[u] \/ (u = t /\ l = "load" /\ pc[t] = "claim")
    BY <1>1, LocalFacts DEF MonitorStep, TokenStep, TypeOK, StoreAt
  <1>3. CASE reservation'[u] = reservation[u]
    <2>1. CASE slots'[r] = slots[r]
      BY <1>1, <1>3, <2>1 DEF Names
    <2>2. CASE /\ slots'[r] = [addr |-> addr[t], gen |-> reservation'[t].gen, status |-> "Active"]
               /\ reservation'[t].gen \in Generations \ InUse
      <3>1. reservation[u].gen \in InUse
        BY <1>1, <1>3 DEF InUse, TypeOK, Actors
      <3>2. slots'[r].gen = reservation'[t].gen
        BY <2>2
      <3> QED
        BY <1>1, <1>3, <2>2, <3>1, <3>2
    <2>3. CASE slots'[r] = [slots[r] EXCEPT !.status = "Committing"] /\ r = reservation[t].slot
               /\ Names(reservation[t], "Active")
      <3>1. slots[r] \in Entries
        BY <1>1, <2>3 DEF Names, TypeOK
      <3>2. slots'[r].status = "Committing"
        BY <2>3, <3>1 DEF Entries
      <3> QED
        BY <1>1, <3>2
    <2> QED
      BY <1>1, <2>1, <2>2, <2>3, SlotFacts
  <1> QED
    BY <1>2, <1>3

\* A load-reserve that leaves its set-up with a token has seen no writer.
LEMMA LeavingSetUp ==
  ASSUME Exclusion, NEW t \in Actors, NEW l, MonitorStep(t, l), pc[t] \in SettingUp, l \notin SettingUp,
         reservation'[t] # None
  PROVE  \A u \in Actors : pc[u] \notin CountedLabels
  <1>1. writers = 0
    BY DEF MonitorStep, TokenStep, SettingUp, Exclusion, TypeOK
  <1> QED
    BY <1>1, DrainedIsEmpty DEF Exclusion

LEMMA LateReservationsStaySetUp ==
  ASSUME Exclusion, ReservedIsSeen, LateReservationsAreSetUp, NEW t \in Actors, NEW l, MonitorStep(t, l)
  PROVE  LateReservationsAreSetUp'
  <1> SUFFICES ASSUME NEW v \in Actors, NEW u \in Actors, pc'[u] \in Counting, ~participant'[u],
                      reservation'[v] # None, Granule[reservation'[v].addr] = Granule[addr'[u]]
               PROVE  pc'[v] \in SettingUp
    BY DEF LateReservationsAreSetUp
  <1> USE DEF Exclusion
  <1>1. CASE v = t /\ l = "load"
    BY <1>1, LocalFacts DEF SettingUp
  <1>2. CASE reservation'[v] = reservation[v]
    <2>1. pc[u] \in Counting /\ ~participant[u] /\ addr'[u] = addr[u]
      <3>1. CASE u # t
        BY <3>1, LocalFacts
      <3>2. CASE u = t
        <4>1. l \in Counting /\ addr' = addr
          BY <3>2, LocalFacts, ZenonT(30) DEF MonitorStep, LocalStep, Counting
        <4>2. ASSUME participant' = [participant EXCEPT ![t] = Granule[addr[t]] \in seen] PROVE FALSE
          BY <1>2, <3>2, <4>1, <4>2 DEF TypeOK, ReservedIsSeen
        <4> QED
          BY <3>2, <4>1, <4>2 DEF MonitorStep, LocalStep
      <3> QED
        BY <3>1, <3>2
    <2>2. pc[v] \in SettingUp
      BY <1>2, <2>1 DEF LateReservationsAreSetUp
    <2>3. CASE v = t /\ l \notin SettingUp
      BY <2>1, <2>2, <2>3, LeavingSetUp DEF CountedLabels
    <2> QED
      BY <2>2, <2>3, LocalFacts
  <1> QED
    BY <1>1, <1>2, LocalFacts

LEMMA StoresHaveBroken ==
  ASSUME Exclusion, ReservedIsSeen, TokensAreUnique, StoreHasBroken, NEW t \in Actors, NEW l,
         MonitorStep(t, l), TypeOK'
  PROVE  StoreHasBroken'
  <1> SUFFICES ASSUME NEW v \in Actors, NEW u \in Actors, pc'[u] = "write_store",
                      Names(reservation[v], "Active")', Granule[reservation'[v].addr] = Granule[addr'[u]]
               PROVE  pc'[v] \in SettingUp
    BY DEF StoreHasBroken
  <1>1. CASE v = t /\ l = "load"
    BY <1>1, LocalFacts DEF SettingUp, Exclusion
  <1>2. CASE /\ Names(reservation[v], "Active") /\ reservation'[v] = reservation[v]
             /\ slots'[reservation[v].slot] = slots[reservation[v].slot]
    <2>1. CASE u = t
      <3> DEFINE r == reservation[v].slot
      <3>0. l = "write_store"
        BY <2>1, LocalFacts DEF Exclusion
      <3>1. slots' = Invalidated(Granule[addr[t]]) /\ addr' = addr
        BY <3>0 DEF MonitorStep, TokenStep, LocalStep, StoreAt
      <3>2. /\ r \in Slots /\ slots[r] # None /\ slots[r].status = "Active"
            /\ slots[r].addr = reservation[v].addr /\ Granule[reservation[v].addr] \in seen
        BY <1>2 DEF Names, TokensAreUnique, ReservedIsSeen, Exclusion, TypeOK, Tokens
      <3>3. slots'[r] = None
        BY <1>2, <2>1, <3>1, <3>2 DEF Invalidated
      <3> QED
        BY <1>2, <3>2, <3>3
    <2>2. CASE u # t
      <3>1. pc[u] = "write_store" /\ addr'[u] = addr[u]
        BY <2>2, LocalFacts DEF Exclusion
      <3>2. pc[v] \in SettingUp
        BY <1>2, <3>1 DEF StoreHasBroken
      <3>3. CASE v = t /\ l \notin SettingUp
        <4>1. reservation'[t] # None
          BY <3>3 DEF Names
        <4> QED
          BY <3>1, <3>2, <3>3, <4>1, LeavingSetUp DEF CountedLabels, Counting
      <3> QED
        BY <3>2, <3>3, LocalFacts DEF Exclusion
    <2> QED
      BY <2>1, <2>2
  <1> QED
    BY <1>1, <1>2, NamesActive

LEMMA ExclusivesHaveBroken ==
  ASSUME Exclusion, ReservedIsSeen, TokensAreUnique, ExclusiveHasBroken, NEW t \in Actors, NEW l,
         MonitorStep(t, l), TypeOK'
  PROVE  ExclusiveHasBroken'
  <1> SUFFICES ASSUME NEW u \in Actors, NEW s \in Slots, pc'[u] \in {"commit_store", "window_store"},
                      slots'[s] # None, slots'[s].status = "Active"
               PROVE  Granule[slots'[s].addr] # Granule[addr'[u]]
    BY DEF ExclusiveHasBroken
  <1>1. CASE u = t
    <2>1. slots' = Invalidated(Granule[addr[t]]) /\ addr' = addr
      BY <1>1, LocalFacts, ZenonT(30) DEF MonitorStep, TokenStep, LocalStep, StoreAt, Exclusion, Committing, CommitLabels
    <2>2. slots'[s] = slots[s] /\ Granule[slots[s].addr] \in seen
      BY <2>1 DEF Invalidated, ReservedIsSeen
    <2> QED
      BY <1>1, <2>1, <2>2 DEF Invalidated
  <1>2. CASE u # t
    <2>1. pc[u] \in {"commit_store", "window_store"} /\ addr'[u] = addr[u]
      BY <1>2, LocalFacts DEF Exclusion
    <2>2. pc[t] # "claim"
      BY <2>1 DEF Exclusion, CommitHasDrained, Alone, StoreLabels
    <2>3. ASSUME slots'[s] = [slots[s] EXCEPT !.status = "Committing"], s = reservation[t].slot,
                 Names(reservation[t], "Active")
          PROVE  FALSE
      <3>1. slots[s] \in Entries
        BY <2>3 DEF Names, Exclusion, TypeOK
      <3> QED
        BY <2>3, <3>1 DEF Entries
    <2>4. slots'[s] = slots[s]
      BY <2>2, <2>3, SlotFacts, ZenonT(30) DEF Exclusion
    <2> QED
      BY <2>1, <2>4 DEF ExclusiveHasBroken
  <1> QED
    BY <1>1, <1>2

\* Who stands where a store's bytes change: a store's kind, and whose
\* reservations it can meet.
LEMMA StoreMeets ==
  ASSUME Exclusion, Monitor, NEW t \in Actors, NEW u \in Actors, pc[t] \in StoreAt, Linked(u), u # t,
         reservation[u] # None, Granule[reservation[u].addr] = Granule[addr[t]]
  PROVE  pc[t] = "write_store" /\ pc[u] \in SettingUp
  <1> USE DEF Exclusion, Monitor
  <1>1. CASE pc[t] \in {"commit_store", "window_store"}
    <2>1. pc[u] \notin {"commit_invalidate", "commit_store"}
      BY <1>1, ServedIsAlone DEF Served, Ticketed, CommitLabels, WindowLabels, StoreLabels
    <2>2. Names(reservation[u], "Active")
      BY <2>1 DEF Linked
    <2>3. /\ reservation[u].slot \in Slots /\ slots[reservation[u].slot] # None
          /\ slots[reservation[u].slot].status = "Active"
          /\ slots[reservation[u].slot].addr = reservation[u].addr
      BY <2>2 DEF Names, TokensAreUnique, TypeOK, Tokens
    <2> QED
      BY <1>1, <2>3 DEF ExclusiveHasBroken
  <1>2. CASE pc[t] = "write_store"
    <2>1. CASE Names(reservation[u], "Active")
      BY <1>2, <2>1 DEF StoreHasBroken
    <2>2. CASE pc[u] \in {"commit_invalidate", "commit_store"}
      <3>1. ~participant[t]
        BY <1>2, <2>2 DEF CommitHasDrained, Alone, Admitted
      <3> QED
        BY <1>2, <3>1 DEF LateReservationsAreSetUp, Counting
    <2> QED
      BY <1>2, <2>1, <2>2 DEF Linked
  <1> QED
    BY <1>1, <1>2 DEF StoreAt

\* Only a load-reserve that takes its token makes a link.
LEMMA LinkedBefore ==
  ASSUME Exclusion, TokensAreUnique, NEW t \in Actors, NEW l, MonitorStep(t, l), TypeOK',
         NEW u \in Actors, Linked(u)'
  PROVE  \/ u = t /\ l = "load" /\ pc[t] = "claim"
         \/ Linked(u) /\ reservation'[u] = reservation[u]
  <1>1. CASE Names(reservation[u], "Active")'
    BY <1>1, NamesActive DEF Linked
  <1>2. CASE pc'[u] \in {"commit_invalidate", "commit_store"}
    <2>1. CASE u # t
      BY <1>2, <2>1, LocalFacts DEF Linked, Exclusion
    <2>2. CASE u = t
      <3>1. l \in {"commit_invalidate", "commit_store"}
        BY <1>2, <2>2, LocalFacts DEF Exclusion
      <3>2. reservation' = reservation /\ (Names(reservation[t], "Active") \/ pc[t] = "commit_invalidate")
        BY <3>1 DEF MonitorStep, TokenStep, StoreAt
      <3> QED
        BY <2>2, <3>2 DEF Linked
    <2> QED
      BY <2>1, <2>2
  <1> QED
    BY <1>1, <1>2 DEF Linked

LEMMA LinkedHaveSeen ==
  ASSUME Exclusion, Monitor, NEW t \in Actors, NEW l, MonitorStep(t, l), TypeOK'
  PROVE  LinkedHasSeen'
  <1> SUFFICES ASSUME NEW u \in Actors, Linked(u)', pc'[u] # "load"
               PROVE  since'[u] \subseteq {"overlapping"}
    BY DEF LinkedHasSeen
  <1> USE DEF Exclusion, Monitor
  <1>1. Linked(u) /\ reservation'[u] = reservation[u]
    BY LinkedBefore, LocalFacts
  <1>2. reservation[u] # None
    BY <1>1 DEF Linked, Names, TokensAreUnique, CommitLabels
  <1>3. CASE since' = since /\ pc[t] \notin StoreAt \cup {"load"}
    <2>1. pc[u] # "load"
      BY <1>3, LocalFacts
    <2> QED
      BY <1>1, <1>3, <2>1 DEF LinkedHasSeen
  <1>4. CASE since' = [since EXCEPT ![t] = {}]
    <2>1. u # t => pc[u] # "load"
      BY LocalFacts
    <2> QED
      BY <1>1, <1>4, <2>1 DEF LinkedHasSeen, TypeOK
  <1>5. ASSUME NEW how, StoreBytes(t, how), pc[t] \in StoreAt, how = "plain" <=> pc[t] = "write_store",
               l \notin {"commit_invalidate", "commit_store", "load"}
        PROVE  since'[u] \subseteq {"overlapping"}
    <2>0. pc[u] # "load"
      BY <1>5, LocalFacts DEF StoreAt
    <2>1. CASE u # t /\ Granule[reservation[u].addr] = Granule[addr[t]]
      <3>1. pc[t] = "write_store" /\ pc[u] \in Reserving
        BY <1>1, <1>2, <1>5, <2>0, <2>1, StoreMeets DEF SettingUp, Reserving
      <3>2. since'[u] = since[u] \cup {"overlapping"}
        BY <1>2, <1>5, <2>1, <3>1 DEF StoreBytes
      <3> QED
        BY <1>1, <2>0, <3>2 DEF LinkedHasSeen
    <2>2. CASE Granule[reservation[u].addr] # Granule[addr[t]]
      <3>1. since'[u] = since[u]
        BY <1>5, <2>2 DEF StoreBytes
      <3> QED
        BY <1>1, <2>0, <3>1 DEF LinkedHasSeen
    <2>3. CASE u = t /\ Granule[reservation[u].addr] = Granule[addr[t]]
      <3>1. Names(reservation[t], "Active")' /\ slots' = slots /\ reservation' = reservation
        BY <1>5, <2>3, LocalFacts DEF Linked, StoreBytes, shared, local
      <3>2. Names(reservation[t], "Active")
        BY <3>1 DEF Names
      <3>3. pc[t] # "window_store"
        BY <1>2, <2>3 DEF TypeOK, Actors, WindowLabels, StoreLabels
      <3>4. pc[t] # "commit_store"
        BY <3>2 DEF TokensAreUnique, Committing, Names
      <3>5. pc[t] # "write_store"
        BY <2>3, <3>2 DEF StoreHasBroken, SettingUp
      <3> QED
        BY <1>5, <3>3, <3>4, <3>5 DEF StoreAt
    <2> QED
      BY <2>1, <2>2, <2>3
  <1>6. CASE pc[t] = "write_store" /\ l = "write_publish" /\ StoreBytes(t, "plain")
    BY <1>5, <1>6 DEF StoreAt
  <1>7. CASE pc[t] = "commit_store" /\ l = "commit_publish" /\ StoreBytes(t, "conditional")
    BY <1>5, <1>7 DEF StoreAt
  <1>8. CASE pc[t] = "window_store" /\ l = "window_publish" /\ StoreBytes(t, "window")
    BY <1>5, <1>8 DEF StoreAt
  <1> QED
    BY <1>3, <1>4, <1>6, <1>7, <1>8 DEF MonitorStep, HistoryStep

IInv == Exclusion /\ Monitor

LEMMA InitIInv == Init => IInv
  <1> SUFFICES ASSUME Init PROVE Monitor
    BY InitExclusion DEF IInv
  <1>1. \A t \in Actors : pc[t] = "idle" /\ reservation[t] = None
    BY DEF Init
  <1>2. \A s \in Slots : slots[s] = None
    BY DEF Init
  <1> QED
    BY <1>1, <1>2 DEF Monitor, ReservedIsSeen, TokensAreUnique, LateReservationsAreSetUp, StoreHasBroken,
       ExclusiveHasBroken, LinkedHasSeen, Linked, Names, CommitLabels, Committing, Counting

LEMMA IInvIsInductive ==
  ASSUME IInv, [Next]_vars
  PROVE  IInv'
  <1> USE DEF IInv
  <1>1. Exclusion'
    BY ExclusionIsInductive
  <1>2. CASE Next
    <2>1. PICK t \in Actors : \E l : MonitorStep(t, l)
      BY <1>2, NextMonitor DEF Exclusion
    <2>2. PICK l : MonitorStep(t, l)
      BY <2>1
    <2>3. TypeOK /\ TypeOK'
      BY <1>1 DEF Exclusion
    <2>4. ReservedIsSeen' /\ TokensAreUnique' /\ LateReservationsAreSetUp'
      BY <2>2, <2>3, SeenIsKept, TokensStayUnique, LateReservationsStaySetUp DEF Monitor
    <2>5. StoreHasBroken' /\ ExclusiveHasBroken' /\ LinkedHasSeen'
      BY <2>2, <2>3, StoresHaveBroken, ExclusivesHaveBroken, LinkedHaveSeen DEF Monitor
    <2> QED
      BY <1>1, <2>4, <2>5 DEF Monitor
  <1>3. CASE UNCHANGED vars
    <2>1. Monitor'
      BY <1>3 DEF vars, local, shared, ghosts, Monitor, ReservedIsSeen, TokensAreUnique,
         LateReservationsAreSetUp, StoreHasBroken, ExclusiveHasBroken, LinkedHasSeen, Linked, Names
    <2> QED
      BY <1>1, <2>1
  <1> QED
    BY <1>2, <1>3

\* While a conditional store commits, nobody is between taking a reservation
\* and returning it, nobody else commits, and no ordinary store to the granule
\* is past its gate check, also when the granule was first reserved after that
\* store had looked at the bitmap (ReservationCommitGate::acquire,
\* enter_write).
THEOREM CommitIsAlone == Spec => []CommitIsExclusive
  <1>1. IInv => CommitIsExclusive
    <2> SUFFICES ASSUME IInv, NEW t \in Actors, NEW u \in Actors, t # u,
                        pc[t] \in {"commit_invalidate", "commit_store", "commit_publish"}
                 PROVE  /\ pc[u] \notin {"epoch_before", "claim", "load"} \cup Reserving
                        /\ pc[u] \notin {"commit_invalidate", "commit_store", "commit_publish",
                                         "window_store", "window_publish"}
                        /\ pc[u] \in {"write_invalidate", "write_store"}
                              => Granule[addr[u]] # Granule[addr[t]]
      BY DEF CommitIsExclusive
    <2> USE DEF IInv, Exclusion, Monitor
    <2>1. pc[u] \notin {"epoch_before", "claim", "load"} \cup Reserving
      BY DEF CommitHasDrained, Alone
    <2>2. pc[u] \notin Served
      BY ServedIsAlone DEF Served, Ticketed, CommitLabels
    <2>3. ASSUME pc[u] \in {"write_invalidate", "write_store"} PROVE Granule[addr[u]] # Granule[addr[t]]
      <3>1. ~participant[u]
        BY <2>3 DEF CommitHasDrained, Alone, Admitted
      <3>2. reservation[t] # None /\ reservation[t].addr = addr[t]
        BY DEF TokensAreUnique, Committing, Names
      <3> QED
        BY <2>3, <3>1, <3>2 DEF LateReservationsAreSetUp, Counting, SettingUp
    <2> QED
      BY <2>1, <2>2, <2>3 DEF Served, Ticketed, CommitLabels, WindowLabels, StoreLabels
  <1> QED
    BY <1>1, InitIInv, IInvIsInductive, PTL DEF Spec

\* No conditional store overwrites a conditional store, a window store or a
\* finished ordinary store that it has not seen, whatever the interleaving of
\* the load-reserve, the stores and the commit (claim_store_conditional).
THEOREM NoStoreIsLost == Spec => []NoLostStore
  <1>1. IInv => NoLostStore
    BY DEF IInv, Monitor, LinkedHasSeen, Linked, NoLostStore, At, Actors
  <1> QED
    BY <1>1, InitIInv, IInvIsInductive, PTL DEF Spec

-----------------------------------------------------------------------------
(* The monitor implements the abstract cells.                              *)

\* The refinement mapping of Cells.
LinkOf(t) == IF Linked(t) THEN Granule[reservation[t].addr] ELSE None
Links == [t \in Actors |-> LinkOf(t)]

LEMMA LinkIsGranule ==
  ASSUME IInv, NEW t \in Actors
  PROVE  /\ Linked(t) => reservation[t] # None /\ LinkOf(t) = Granule[reservation[t].addr]
                         /\ LinkOf(t) # None /\ LinkOf(t) \in Granules
         /\ ~Linked(t) => LinkOf(t) = None
  <1>1. Linked(t) => reservation[t] # None
    BY DEF IInv, Monitor, Linked, Names, TokensAreUnique, CommitLabels
  <1>2. reservation[t] # None => reservation[t].addr \in Addrs
    BY DEF IInv, Exclusion, TypeOK, Tokens
  <1> QED
    BY <1>1, <1>2, GranuleAssumption DEF LinkOf, Granules

LEMMA StoreRefines ==
  ASSUME IInv, NEW t \in Actors, NEW l, MonitorStep(t, l), NEW how, StoreBytes(t, how),
         <<pc[t], l, how>> \in {<<"write_store", "write_publish", "plain">>,
                               <<"commit_store", "commit_publish", "conditional">>,
                               <<"window_store", "window_publish", "window">>}
  PROVE  Cells!Next
  <1> DEFINE g == Granule[addr[t]]
  <1> USE DEF IInv, Exclusion, Monitor
  <1>1. /\ last' = [last EXCEPT ![g] = how] /\ slots' = slots /\ reservation' = reservation
        /\ g \in Granules /\ g # None /\ pc[t] \in StoreAt
    BY GranuleAssumption DEF StoreBytes, shared, local, TypeOK, Granules, WriteLabels, CommitLabels, StoreLabels,
       StoreAt
  <1>2. \A u \in Actors : u # t => LinkOf(u)' = LinkOf(u)
    BY <1>1, LocalFacts DEF LinkOf, Linked, Names
  <1>3. \A u \in Actors : u # t /\ LinkOf(u) = g => pc[t] = "write_store"
    BY <1>1, LinkIsGranule, StoreMeets
  <1>4. CASE pc[t] = "write_store" /\ l = "write_publish" /\ how = "plain"
    <2>1. ~Names(reservation[t], "Active") \/ Granule[reservation[t].addr] # g
      BY <1>4 DEF StoreHasBroken, SettingUp
    <2>2. LinkOf(t) # g
      BY <1>1, <1>4, <2>1 DEF LinkOf, Linked
    <2>3. LinkOf(t)' = LinkOf(t)
      BY <1>1, <1>4, LocalFacts DEF LinkOf, Linked, Names
    <2>4. Links' = Links /\ Links[t] # g
      BY <1>2, <2>2, <2>3 DEF Links
    <2>5. Cells!PlainStore(t, g)
      BY <1>1, <1>4, <2>4 DEF Cells!PlainStore, Links, LinkOf
    <2> QED
      BY <1>1, <2>5 DEF Cells!Next
  <1>5. CASE pc[t] = "commit_store" /\ l = "commit_publish" /\ how = "conditional"
    <2>1. Names(reservation[t], "Committing") /\ reservation[t].addr = addr[t]
      BY <1>5 DEF TokensAreUnique, Committing
    <2>2. LinkOf(t) = g
      BY <1>5, <2>1 DEF LinkOf, Linked
    <2>3. LinkOf(t)' = None
      BY <1>1, <1>5, <2>1, LocalFacts DEF LinkOf, Linked, Names
    <2>4. Links' = [Links EXCEPT ![t] = None] /\ Links[t] = g
      BY <1>2, <2>2, <2>3 DEF Links
    <2>5. {u \in Actors : Links[u] = g} = {t}
      BY <1>3, <1>5, <2>2 DEF Links
    <2>6. Cells!StoreConditional(t)
      BY <1>1, <1>5, <2>4, <2>5 DEF Cells!StoreConditional, Cells!LinkedTo, Links, LinkOf
    <2> QED
      BY <2>6 DEF Cells!Next
  <1>6. CASE pc[t] = "window_store" /\ l = "window_publish" /\ how = "window"
    <2>1. reservation[t] = None
      BY <1>6 DEF TypeOK, Actors, WindowLabels, StoreLabels
    <2>2. LinkOf(t) = None /\ LinkOf(t)' = None
      BY <1>1, <1>6, <2>1, LocalFacts DEF LinkOf, Linked, Names
    <2>3. Links' = Links
      BY <1>2, <2>2 DEF Links
    <2>4. {u \in Actors : Links[u] = g} = {}
      BY <1>1, <1>3, <1>6, <2>2 DEF Links
    <2>5. Cells!ExclusiveStore(g)
      BY <1>1, <1>6, <2>3, <2>4 DEF Cells!ExclusiveStore, Cells!LinkedTo, Links, LinkOf
    <2> QED
      BY <1>1, <2>5 DEF Cells!Next
  <1> QED
    BY <1>4, <1>5, <1>6

LEMMA TakeRefines ==
  ASSUME IInv, IInv', NEW t \in Actors, NEW l, MonitorStep(t, l), pc[t] = "claim", l = "load", last' = last,
         Linked(t)'
  PROVE  Cells!Next
  <1> USE DEF IInv, Exclusion, Monitor
  <1>1. \A u \in Actors : u # t => LinkOf(u)' = LinkOf(u)
    <2> SUFFICES ASSUME NEW u \in Actors, u # t PROVE LinkOf(u)' = LinkOf(u)
      OBVIOUS
    <2>1. pc'[u] = pc[u] /\ reservation'[u] = reservation[u]
      BY LocalFacts
    <2>2. Linked(u)' => Linked(u)
      BY LinkedBefore
    <2>3. ASSUME Names(reservation[u], "Active") PROVE Names(reservation[u], "Active")'
      <3> DEFINE r == reservation[u].slot
      <3>1. r \in Slots /\ slots[r] # None
        BY <2>3 DEF Names, TypeOK, Tokens
      <3>2. slots'[r] = slots[r]
        BY <3>1 DEF MonitorStep, TokenStep, TypeOK, StoreAt
      <3> QED
        BY <2>1, <2>3, <3>2 DEF Names
    <2> QED
      BY <2>1, <2>2, <2>3 DEF LinkOf, Linked
  <1>2. PICK g \in Granules : LinkOf(t)' = g
    <2>1. reservation'[t] # None
      BY DEF Linked, Names, TokensAreUnique, CommitLabels
    <2>2. reservation'[t].addr \in Addrs
      BY <2>1 DEF TypeOK, Tokens
    <2> QED
      BY <2>2 DEF LinkOf, Granules
  <1>3. Links' = [Links EXCEPT ![t] = g]
    BY <1>1, <1>2 DEF Links
  <1>4. Cells!Link(t, g)
    BY <1>3 DEF Cells!Link, Links, LinkOf
  <1> QED
    BY <1>4 DEF Cells!Next

LEMMA StepRefines ==
  ASSUME IInv, IInv', Next
  PROVE  Cells!Next
  <1> USE DEF IInv, Exclusion, Monitor
  <1>1. PICK t \in Actors : \E l : MonitorStep(t, l)
    BY NextMonitor
  <1>2. PICK l : MonitorStep(t, l)
    BY <1>1
  <1>3. CASE pc[t] \in StoreAt
    <2>1. \E how : StoreBytes(t, how) /\ <<pc[t], l, how>> \in
             {<<"write_store", "write_publish", "plain">>, <<"commit_store", "commit_publish", "conditional">>,
              <<"window_store", "window_publish", "window">>}
      BY <1>2, <1>3 DEF MonitorStep, HistoryStep
    <2> HIDE DEF IInv
    <2> QED
      BY <1>2, <2>1, StoreRefines
  <1>4. CASE pc[t] \notin StoreAt
    <2>1. last' = last
      BY <1>2, <1>4 DEF MonitorStep, HistoryStep, StoreAt
    <2>2. CASE pc[t] = "claim" /\ l = "load" /\ Linked(t)'
      <3> HIDE DEF IInv
      <3> QED
        BY <1>2, <2>1, <2>2, TakeRefines
    <2>3. CASE ~(pc[t] = "claim" /\ l = "load" /\ Linked(t)')
      <3>1. \A u \in Actors : Linked(u)' => Linked(u) /\ reservation'[u] = reservation[u]
        BY <1>2, <2>3, LinkedBefore
      <3>2. PICK S \in SUBSET Actors : S = {u \in Actors : ~Linked(u)'}
        OBVIOUS
      <3>3. \A u \in Actors : LinkOf(u)' = IF u \in S THEN None ELSE LinkOf(u)
        BY <3>1, <3>2 DEF LinkOf
      <3>4. Links' = [u \in Actors |-> IF u \in S THEN None ELSE Links[u]]
        BY <3>3 DEF Links
      <3>5. Cells!Unlink(S)
        BY <2>1, <3>4 DEF Cells!Unlink, Links, LinkOf
      <3> QED
        BY <3>5 DEF Cells!Next
    <2> QED
      BY <2>2, <2>3
  <1> QED
    BY <1>3, <1>4

LEMMA StutterRefines ==
  ASSUME UNCHANGED vars
  PROVE  UNCHANGED Cells!vars
  <1>1. \A t \in Actors : LinkOf(t)' = LinkOf(t)
    BY DEF LinkOf, Linked, Names, vars, local, shared, ghosts
  <1>2. Links' = Links /\ last' = last
    BY <1>1 DEF Links, vars, ghosts
  <1> QED
    BY <1>2 DEF Cells!vars, Links, LinkOf

\* What the guest sees of lwarx/stwcx. is that of the abstract cells: of the
\* threads that loaded one version of a granule at most one stores
\* conditionally, in one step, and a window store meets no live reservation
\* (the monitor of include/xenon/cpu/memory_port.hpp as a whole).
THEOREM MonitorImplementsCells == Spec => ImplementsCells
  <1>1. Init => Cells!Init
    <2> SUFFICES ASSUME Init PROVE Cells!Init
      OBVIOUS
    <2>1. \A t \in Actors : LinkOf(t) = None
      BY DEF Init, LinkOf, Linked, Names
    <2>2. Links = [t \in Actors |-> None] /\ last = [g \in Granules |-> "initial"]
      BY <2>1 DEF Links, Init
    <2> QED
      BY <2>2 DEF Cells!Init, Links, LinkOf
  <1>2. ASSUME IInv, IInv', [Next]_vars PROVE [Cells!Next]_(Cells!vars)
    BY <1>2, StepRefines, StutterRefines
  <1> QED
    BY <1>1, <1>2, InitIInv, IInvIsInductive, PTL DEF Spec, ImplementsCells, Cells!Spec
=============================================================================
