----------------------------- MODULE GuestPages -----------------------------
(***************************************************************************)
(* The guest page table and the physical pages behind it (AddressSpace in  *)
(* src/memory/guest): reserving, committing, decommitting, releasing and   *)
(* protecting guest pages, explicit physical allocations, the hot          *)
(* translation table that accesses read without a lock, the host aperture, *)
(* and the grace period before a physical page is used again.              *)
(*                                                                         *)
(* mutex_ serialises the management operations, so there is one manager.   *)
(* What it changes under mutex_ is one step; what an access reads without  *)
(* mutex_ (hot entries, reclaim_pending_, active_fast_readers_, and the    *)
(* host mapping behind the aperture) changes one step at a time.           *)
(*                                                                         *)
(* A guest page is a number.  Protections are access or no access.  Left   *)
(* out: page contents, executable-page generations, MMIO pages, the        *)
(* permanent guard and system pages, and reset() after initialize().       *)
(***************************************************************************)
EXTENDS Integers, Sequences, FiniteSets

CONSTANTS
  Virtual,    \* pages of the virtual heaps
  Xex,        \* pages of the XEX views
  Alias,      \* Xex: the page of the other view with the same backing
  Mappable,   \* pages for which can_map_page() holds
  Phys,       \* physical pages that can be allocated
  Ranges,     \* the page ranges that callers name
  Runs,       \* the physical runs that callers name
  Asks,       \* bound: the protections that callers ask for with new memory
  Readers,    \* threads that access guest memory (strict access)
  None

Guest == Virtual \cup Xex
Protects == {"access", "none"}

ASSUME PagesAreNumbers ==
  /\ Guest \subseteq Nat /\ Phys \subseteq Nat
  /\ Virtual \cap Xex = {} /\ None \notin Phys
  /\ Mappable \subseteq Guest
  /\ Alias \in [Xex -> Xex]
  /\ \A g \in Xex : Alias[g] # g /\ Alias[Alias[g]] = g
  /\ \A R \in Ranges : R \subseteq Virtual \/ R \subseteq Xex
  /\ \A T \in Runs : T \subseteq Phys
  /\ \A R \in Ranges \cup Runs : \E first, last \in R : R = first .. last
  /\ Asks \subseteq Protects

VARIABLES
  page,       \* pages_
  own,        \* physical_page_used_, and the allocator's free and retired ranges
  maps,       \* physical_reverse_mappings_, counted by physical_mapping_refs_
  lease,      \* physical_page_metadata_: the explicit allocation and protection
  hot,        \* hot_pages_ of Guest
  view,       \* the protection in hot_pages_ of the physical views
  aperture,   \* mapped_physical_pages_: what the host maps at a guest page
  pending,    \* reclaim_pending_
  mgr,        \* the thread that holds mutex_
  rd          \* an access in progress

tables == <<page, own, maps, lease>>
published == <<hot, view, aperture>>
vars == <<tables, published, pending, mgr, rd>>

FreePage == [state |-> "free", phys |-> None, protect |-> "none",
             explicit |-> FALSE, alloc |-> {}]
NoLease == [alloc |-> {}, protect |-> "access"]
NoEntry == [phys |-> None, protect |-> "none", direct |-> FALSE]

Idle == [at |-> "idle", next |-> "idle", range |-> {}, target |-> {},
         protect |-> "none", fresh |-> {}, left |-> {}, change |-> {},
         jobs |-> <<>>, views |-> {}]
Away == [at |-> "away", page |-> None, phys |-> None, direct |-> FALSE]

MutexFree == mgr.at = "idle"
Least(S) == CHOOSE x \in S : \A y \in S : x <= y
Aliases(R) == {Alias[g] : g \in R \cap Xex}
\* The pages of R and their twins in the other XEX view.
WithAliases(R) == R \cup Aliases(R)

\* active_fast_readers_ # 0: every access holds a ScopedReadGuard.
ReadersActive == \E r \in Readers : rd[r].at # "away"
Retired == {p \in Phys : own[p] = "retired"}

Init ==
  /\ page = [g \in Guest |-> FreePage]
  /\ own = [p \in Phys |-> "free"]
  /\ maps = [p \in Phys |-> {}]
  /\ lease = [p \in Phys |-> NoLease]
  /\ hot = [g \in Guest |-> NoEntry]
  /\ view = [p \in Phys |-> "access"]
  /\ aperture = [g \in Guest |-> None]
  /\ pending = FALSE
  /\ mgr = Idle
  /\ rd = [r \in Readers |-> Away]

-----------------------------------------------------------------------------
(* Publication: publish_hot_range(), publish_hot_page() and                *)
(* publish_physical_alias_range().                                         *)

MakeHotEntry(g) ==
  IF page[g].state = "committed"
    THEN [phys |-> page[g].phys, protect |-> page[g].protect, direct |-> FALSE]
    ELSE NoEntry

Eligible(g) == g \in Mappable /\ MakeHotEntry(g).phys # None
Matches(g) == Eligible(g) /\ aperture[g] = page[g].phys

\* The ranges to publish, one after the other, then the physical views; the
\* operation goes on at next.
Publish(jobs, views, next) ==
  [mgr EXCEPT !.at = "publish", !.next = next, !.left = Head(jobs),
              !.change = {}, !.jobs = Tail(jobs), !.views = views]

\* The range, then the same range of the other XEX view.
BothViews(R) == IF R \subseteq Xex THEN <<R, Aliases(R)>> ELSE <<R>>

\* An entry that needs another host mapping is published without the aperture.
PublishEntry ==
  /\ mgr.at = "publish" /\ mgr.left # {}
  /\ LET g == Least(mgr.left) IN
       /\ hot' = [hot EXCEPT ![g] = [MakeHotEntry(g) EXCEPT !.direct = Matches(g)]]
       /\ mgr' = [mgr EXCEPT
                    !.left = @ \ {g},
                    !.change = IF ~Matches(g) /\ (Eligible(g) \/ aperture[g] # None)
                                 THEN @ \cup {g} ELSE @]
  /\ UNCHANGED <<tables, view, aperture, pending, rd>>

NextJob ==
  IF mgr.jobs # <<>>
    THEN [mgr EXCEPT !.at = "publish", !.left = Head(mgr.jobs), !.change = {},
                     !.jobs = Tail(mgr.jobs)]
    ELSE [mgr EXCEPT !.at = "views", !.change = {}]

\* Host mappings change only when no access that began before is under way.
MayRemap == mgr.change # {} /\ ~ReadersActive
PublishedRange ==
  /\ mgr.at = "publish" /\ mgr.left = {}
  /\ mgr' = IF MayRemap THEN [mgr EXCEPT !.at = "remap"] ELSE NextJob
  /\ UNCHANGED <<tables, published, pending, rd>>

\* map_run() or clear_run(); the host may refuse either.
Remap ==
  /\ mgr.at = "remap" /\ mgr.change # {}
  /\ LET g == Least(mgr.change) IN
       /\ \/ /\ Eligible(g)
             /\ aperture' = [aperture EXCEPT ![g] = page[g].phys]
             /\ hot' = [hot EXCEPT ![g] = [MakeHotEntry(g) EXCEPT !.direct = TRUE]]
          \/ /\ ~Eligible(g)
             /\ aperture' = [aperture EXCEPT ![g] = None]
             /\ UNCHANGED hot
          \/ UNCHANGED <<aperture, hot>>
       /\ mgr' = [mgr EXCEPT !.change = @ \ {g}]
  /\ UNCHANGED <<tables, view, pending, rd>>

Remapped ==
  /\ mgr.at = "remap" /\ mgr.change = {}
  /\ mgr' = NextJob
  /\ UNCHANGED <<tables, published, pending, rd>>

PublishView ==
  /\ mgr.at = "views" /\ mgr.views # {}
  /\ LET p == Least(mgr.views) IN
       /\ view' = [view EXCEPT ![p] = lease[p].protect]
       /\ mgr' = [mgr EXCEPT !.views = @ \ {p}]
  /\ UNCHANGED <<tables, hot, aperture, pending, rd>>

Published ==
  /\ mgr.at = "views" /\ mgr.views = {}
  /\ mgr' = IF mgr.next = "idle" THEN Idle
            ELSE [mgr EXCEPT !.at = mgr.next, !.next = "idle", !.left = mgr.range]
  /\ UNCHANGED <<tables, published, pending, rd>>

-----------------------------------------------------------------------------
(* reclaim_retired_physical_pages(), before every physical allocation.     *)

ReclaimThen(next) ==
  /\ pending' = (Retired # {})
  /\ mgr' = [mgr EXCEPT !.at = IF Retired # {} THEN "drain" ELSE next, !.next = next]

DrainedAnyway == mgr.at = "drain"
\* active_fast_readers_ is seen to be 0.
Drained == mgr.at = "drain" /\ ~ReadersActive
Drain ==
  /\ Drained
  /\ mgr' = [mgr EXCEPT !.at = "take"]
  /\ UNCHANGED <<tables, published, pending, rd>>

\* kMaxDrainSpins polls saw accesses under way.
GiveUp ==
  /\ mgr.at = "drain" /\ ReadersActive
  /\ pending' = FALSE
  /\ mgr' = [mgr EXCEPT !.at = mgr.next]
  /\ UNCHANGED <<tables, published, rd>>

TakeRetired ==
  /\ mgr.at = "take"
  /\ own' = [p \in Phys |-> IF p \in Retired THEN "free" ELSE own[p]]
  /\ lease' = [p \in Phys |-> IF p \in Retired THEN NoLease ELSE lease[p]]
  /\ pending' = FALSE
  /\ mgr' = [mgr EXCEPT !.at = mgr.next]
  /\ UNCHANGED <<page, maps, published, rd>>

-----------------------------------------------------------------------------
(* reserve_pages() and commit_pages(), for reserve_fixed(), commit_fixed() *)
(* and allocate().                                                         *)

Reservable(R) == \A g \in WithAliases(R) : page[g].state = "free"
ReservePages(R, protect) ==
  page' = [g \in Guest |->
             IF g \in WithAliases(R)
               THEN [state |-> "reserved", phys |-> None, protect |-> protect,
                     explicit |-> FALSE, alloc |-> IF g \in R THEN R ELSE Aliases(R)]
               ELSE page[g]]

Reserve(R, protect) ==
  /\ MutexFree /\ Reservable(R)
  /\ ReservePages(R, protect)
  /\ mgr' = Publish(BothViews(R), {}, "idle")
  /\ UNCHANGED <<own, maps, lease, published, pending, rd>>

\* Reserves first when every page is free.
CommitFree(R, protect) ==
  /\ MutexFree /\ Reservable(R)
  /\ ReservePages(R, protect)
  /\ mgr' = [Publish(BothViews(R), {}, "commit") EXCEPT !.range = R, !.protect = protect]
  /\ UNCHANGED <<own, maps, lease, published, pending, rd>>

CommitReserved(R, protect) ==
  /\ MutexFree /\ \A g \in R : page[g].state # "free"
  /\ mgr' = [Idle EXCEPT !.at = "commit", !.range = R, !.left = R, !.protect = protect]
  /\ UNCHANGED <<tables, published, pending, rd>>

\* The next page: one that is committed gets the new protection, any other one
\* a physical page.
CommitPage ==
  /\ mgr.at = "commit" /\ mgr.left # {}
  /\ LET g == Least(mgr.left) IN
       IF page[g].state = "committed"
         THEN /\ page' = [h \in Guest |-> IF h \in WithAliases({g})
                                           THEN [page[h] EXCEPT !.protect = mgr.protect]
                                           ELSE page[h]]
              /\ mgr' = [mgr EXCEPT !.left = @ \ {g}]
              /\ UNCHANGED pending
         ELSE ReclaimThen("backing") /\ UNCHANGED page
  /\ UNCHANGED <<own, maps, lease, published, rd>>

CommitBacking(p) ==
  /\ mgr.at = "backing" /\ own[p] = "free"
  /\ LET g == Least(mgr.left) IN
       /\ page' = [h \in Guest |->
                     IF h \in WithAliases({g})
                       THEN [page[h] EXCEPT !.state = "committed", !.phys = p,
                                            !.protect = mgr.protect]
                       ELSE page[h]]
       /\ maps' = [maps EXCEPT ![p] = @ \cup WithAliases({g})]
       /\ mgr' = [mgr EXCEPT !.at = "commit", !.left = @ \ {g}, !.fresh = @ \cup {g}]
  /\ own' = [own EXCEPT ![p] = "anonymous"]
  /\ UNCHANGED <<lease, published, pending, rd>>

\* What is left of the mappings of p without the pages of R.
MapsWithout(p, R) == maps[p] \ WithAliases(R)

RollbackNothing == {}
\* The pages that a failed commit gives back.
Rollback == mgr.fresh
CommitFails ==
  /\ mgr.at = "backing" /\ \A p \in Phys : own[p] # "free"
  /\ page' = [g \in Guest |->
                IF g \in WithAliases(Rollback)
                  THEN [page[g] EXCEPT !.state = "reserved", !.phys = None]
                  ELSE page[g]]
  /\ maps' = [p \in Phys |-> MapsWithout(p, Rollback)]
  /\ own' = [p \in Phys |-> IF \E g \in Rollback : page[g].phys = p THEN "retired"
                            ELSE own[p]]
  /\ mgr' = Idle
  /\ UNCHANGED <<lease, published, pending, rd>>

Committed ==
  /\ mgr.at = "commit" /\ mgr.left = {}
  /\ mgr' = Publish(BothViews(mgr.range), {}, "idle")
  /\ UNCHANGED <<tables, published, pending, rd>>

-----------------------------------------------------------------------------
(* decommit(), release() and protect().                                    *)

FreedAtOnce(p, R) ==
  IF \E g \in R : page[g].phys = p /\ ~page[g].explicit THEN "retired" ELSE own[p]
\* remove_physical_mapping_ref() and free_physical_page(): a page that was
\* backing R is retired with its last mapping.
FreedWith(p, R) ==
  IF /\ own[p] \in {"anonymous", "pending"} /\ maps[p] # MapsWithout(p, R)
     /\ own[p] = "pending" \/ \E g \in R : page[g].phys = p /\ ~page[g].explicit
    THEN IF MapsWithout(p, R) = {} THEN "retired" ELSE "pending"
    ELSE own[p]

Unmap(R, state) ==
  /\ own' = [p \in Phys |-> FreedWith(p, R)]
  /\ maps' = [p \in Phys |-> MapsWithout(p, R)]
  /\ page' = [g \in Guest |->
                IF g \notin WithAliases(R) THEN page[g]
                ELSE IF state = "free" THEN FreePage
                ELSE [page[g] EXCEPT !.state = state, !.phys = None, !.explicit = FALSE]]

Decommit(R) ==
  /\ MutexFree /\ \A g \in R : page[g].state # "free"
  /\ Unmap(R, "reserved")
  /\ mgr' = Publish(BothViews(R), {}, "idle")
  /\ UNCHANGED <<lease, published, pending, rd>>

Release(R) ==
  /\ MutexFree /\ page[Least(R)].alloc = R
  /\ Unmap(R, "free")
  /\ mgr' = Publish(BothViews(R), {}, "idle")
  /\ UNCHANGED <<lease, published, pending, rd>>

\* The pages of R in order, each followed by its twin in the other XEX view.
PageByPage(R) ==
  LET nth(i) == Least(R) + i
  IN  IF R \subseteq Xex
        THEN [i \in 1..2 * Cardinality(R) |->
                IF i % 2 = 1 THEN {nth(i \div 2)} ELSE {Alias[nth(i \div 2 - 1)]}]
        ELSE [i \in 1..Cardinality(R) |-> {nth(i - 1)}]

Protect(R, protect) ==
  /\ MutexFree
  /\ \A g \in R : page[g].state = "committed" /\ page[g].alloc = page[Least(R)].alloc
  /\ page' = [g \in Guest |-> IF g \in WithAliases(R)
                                THEN [page[g] EXCEPT !.protect = protect] ELSE page[g]]
  /\ mgr' = Publish(PageByPage(R), {}, "idle")
  /\ UNCHANGED <<own, maps, lease, published, pending, rd>>

-----------------------------------------------------------------------------
(* Explicit physical memory: allocate_physical(), free_physical(),         *)
(* protect_physical() and map_virtual_to_physical().                       *)

LeaseTo(T, protect) ==
  lease' = [p \in Phys |-> IF p \in T THEN [alloc |-> T, protect |-> protect] ELSE lease[p]]
PublishViews(T) ==
  [Idle EXCEPT !.at = "views", !.views = T]

AllocatePhysical(T) ==
  /\ MutexFree
  /\ pending' = (Retired # {})
  /\ mgr' = [Idle EXCEPT !.at = IF Retired # {} THEN "drain" ELSE "run",
                         !.next = "run", !.target = T, !.protect = "access"]
  /\ UNCHANGED <<tables, published, rd>>

\* reserve_physical_run() finds a free run of that length, or fails.
AllocateRun(T) ==
  /\ mgr.at = "run" /\ Cardinality(T) = Cardinality(mgr.target)
  /\ \A p \in T : own[p] = "free"
  /\ own' = [p \in Phys |-> IF p \in T THEN "explicit" ELSE own[p]]
  /\ LeaseTo(T, mgr.protect)
  /\ mgr' = PublishViews(T)
  /\ UNCHANGED <<page, maps, published, pending, rd>>

NoRun ==
  /\ mgr.at = "run"
  /\ \A T \in Runs : Cardinality(T) = Cardinality(mgr.target) =>
                       \E p \in T : own[p] # "free"
  /\ mgr' = Idle
  /\ UNCHANGED <<tables, published, pending, rd>>

FreePhysical(T) ==
  /\ MutexFree
  /\ \A p \in T : own[p] = "explicit" /\ lease[p].alloc = T /\ maps[p] = {}
  /\ own' = [p \in Phys |-> IF p \in T THEN "retired" ELSE own[p]]
  /\ lease' = [p \in Phys |-> IF p \in T THEN NoLease ELSE lease[p]]
  /\ mgr' = PublishViews(T)
  /\ UNCHANGED <<page, maps, published, pending, rd>>

ProtectPhysical(T, protect) ==
  /\ MutexFree /\ T \subseteq lease[Least(T)].alloc
  /\ lease' = [p \in Phys |-> IF p \in T THEN [lease[p] EXCEPT !.protect = protect]
                              ELSE lease[p]]
  /\ mgr' = PublishViews(T)
  /\ UNCHANGED <<page, own, maps, published, pending, rd>>

MapVirtual(R, T, protect) ==
  /\ MutexFree /\ R \subseteq Virtual /\ Cardinality(R) = Cardinality(T)
  /\ \A g \in R : page[g].state = "free"
  /\ pending' = (Retired # {})
  /\ mgr' = [Idle EXCEPT !.at = IF Retired # {} THEN "drain" ELSE "map",
                         !.next = "map", !.range = R, !.target = T, !.protect = protect]
  /\ UNCHANGED <<tables, published, rd>>

\* The free pages of T next to p, which become one explicit allocation.
FreeRun(p, T) ==
  {q \in T : \A x \in T : (p <= x /\ x <= q) \/ (q <= x /\ x <= p) => own[x] = "free"}

MapPages ==
  LET R == mgr.range
      T == mgr.target
      to(g) == g - Least(R) + Least(T)
  IN  /\ mgr.at = "map" /\ \A p \in T : own[p] # "retired"
      /\ own' = [p \in Phys |-> IF p \in T /\ own[p] = "free" THEN "explicit" ELSE own[p]]
      /\ lease' = [p \in Phys |->
                     IF p \in T /\ own[p] = "free"
                       THEN [alloc |-> FreeRun(p, T), protect |-> mgr.protect]
                       ELSE lease[p]]
      /\ page' = [g \in Guest |->
                    IF g \in R
                      THEN [state |-> "committed", phys |-> to(g),
                            protect |-> mgr.protect, explicit |-> TRUE, alloc |-> R]
                      ELSE page[g]]
      /\ maps' = [p \in Phys |-> maps[p] \cup {g \in R : to(g) = p}]
      /\ mgr' = Publish(<<R>>, T, "idle")
      /\ UNCHANGED <<published, pending, rd>>

MapFails ==
  /\ mgr.at = "map" /\ \E p \in mgr.target : own[p] = "retired"
  /\ mgr' = Idle
  /\ UNCHANGED <<tables, published, pending, rd>>

-----------------------------------------------------------------------------
(* An access: resolve_fast() under a ScopedReadGuard, or the locked path.  *)

AccessBegin(r, g) ==
  /\ rd[r] = Away
  /\ rd' = [rd EXCEPT ![r] = [Away EXCEPT !.at = "guard", !.page = g]]
  /\ UNCHANGED <<tables, published, pending, mgr>>

AccessTest(r) ==
  /\ rd[r].at = "guard"
  /\ rd' = [rd EXCEPT ![r].at = IF pending THEN "slow" ELSE "load"]
  /\ UNCHANGED <<tables, published, pending, mgr>>

\* kMapped and the permission of the access.
Accessible(entry) == entry.phys # None /\ entry.protect = "access"

AccessLoad(r) ==
  /\ rd[r].at = "load"
  /\ LET entry == hot[rd[r].page] IN
       rd' = [rd EXCEPT ![r] =
                IF Accessible(entry)
                  THEN [@ EXCEPT !.at = "touch", !.phys = entry.phys,
                                 !.direct = entry.direct]
                  ELSE [@ EXCEPT !.at = "slow"]]
  /\ UNCHANGED <<tables, published, pending, mgr>>

AccessTouch(r) ==
  /\ rd[r].at = "touch"
  /\ rd' = [rd EXCEPT ![r] = Away]
  /\ UNCHANGED <<tables, published, pending, mgr>>

\* The access is made, or faults, under mutex_; the guard is held throughout.
AccessSlow(r) ==
  /\ rd[r].at = "slow" /\ MutexFree
  /\ rd' = [rd EXCEPT ![r] = Away]
  /\ UNCHANGED <<tables, published, pending, mgr>>

-----------------------------------------------------------------------------
Call ==
  \/ \E R \in Ranges, protect \in Asks :
       \/ Reserve(R, protect) \/ CommitFree(R, protect) \/ CommitReserved(R, protect)
       \/ \E T \in Runs : MapVirtual(R, T, protect)
  \/ \E R \in Ranges, protect \in Protects : Protect(R, protect)
  \/ \E R \in Ranges : Decommit(R) \/ Release(R)
  \/ \E T \in Runs :
       \/ AllocatePhysical(T) \/ FreePhysical(T)
       \/ \E protect \in Protects : ProtectPhysical(T, protect)

Manager ==
  \/ Call
  \/ PublishEntry \/ PublishedRange \/ Remap \/ Remapped \/ PublishView \/ Published
  \/ Drain \/ GiveUp \/ TakeRetired
  \/ CommitPage \/ CommitFails \/ Committed
  \/ \E p \in Phys : CommitBacking(p)
  \/ \E T \in Runs : AllocateRun(T)
  \/ NoRun \/ MapPages \/ MapFails

Access(r) ==
  \/ \E g \in Guest : AccessBegin(r, g)
  \/ AccessTest(r) \/ AccessLoad(r) \/ AccessTouch(r) \/ AccessSlow(r)

Next == Manager \/ \E r \in Readers : Access(r)
Spec == Init /\ [][Next]_vars

-----------------------------------------------------------------------------
(* What is shown.                                                          *)

\* validate_invariants(), which holds whenever mutex_ is free: every mapping is
\* counted on the physical page that backs it, an anonymous page lives exactly
\* as long as its mappings, an explicit one as long as its allocation, and the
\* two XEX views agree.
OwnershipConsistent ==
  MutexFree =>
    /\ \A p \in Phys :
         /\ maps[p] = {g \in Guest : page[g].phys = p}
         /\ own[p] \in {"free", "retired"} => maps[p] = {}
         /\ own[p] \in {"anonymous", "pending"} => maps[p] # {}
         /\ (own[p] = "explicit") = (lease[p].alloc # {})
         /\ \A q \in lease[p].alloc : lease[q].alloc = lease[p].alloc
    /\ \A g \in Guest :
         /\ (page[g].state = "committed") = (page[g].phys # None)
         /\ page[g].explicit => page[g].state = "committed"
    /\ \A g \in Xex :
         /\ page[Alias[g]].state = page[g].state
         /\ page[Alias[g]].phys = page[g].phys
         /\ page[Alias[g]].protect = page[g].protect

\* A physical page that an access is about to touch is not free, and so not in
\* another allocation's hands: it was not reclaimed since the access loaded the
\* hot entry (the guards against reclaim_retired_physical_pages()).
NoRecycledAccess ==
  \A r \in Readers : rd[r].at = "touch" => own[rd[r].phys] # "free"

\* An access touches the physical page that its hot entry named, through the
\* host aperture too, and that page was not recycled, whatever was remapped or
\* reclaimed since it loaded the entry.
AccessesAreExact ==
  /\ NoRecycledAccess
  /\ \A r \in Readers :
        rd[r].at = "touch" /\ rd[r].direct => aperture[rd[r].page] = rd[r].phys

\* While mutex_ is free every hot entry translates as the page table does, in
\* each XEX view, and every physical view has its page's protection.
TranslationIsPublished ==
  MutexFree =>
    /\ \A g \in Guest : hot[g].phys = page[g].phys
    /\ \A p \in Phys : view[p] = lease[p].protect

\* "Hot page entries are release-published after mapping/protection changes"
\* (MEMORY_V2.md): while mutex_ is free a hot entry has its page's protection.
ProtectionIsPublished ==
  MutexFree => \A g \in Guest : page[g].state = "committed" =>
                                  hot[g].protect = page[g].protect

=============================================================================
