------------------------------ MODULE PageProofs ------------------------------
(***************************************************************************)
(* Theorems about GuestPages, for any number of guest and physical pages,  *)
(* ranges and accesses under way: the page table and the physical pages    *)
(* agree, what is published translates as the page table does, and no      *)
(* access touches a page that has been recycled.                           *)
(***************************************************************************)
EXTENDS GuestPages, FiniteSetTheorems, WellFoundedInduction, TLAPS

PageRecord == [state : {"free", "reserved", "committed"}, phys : Phys \cup {None},
               protect : Protects, explicit : BOOLEAN, alloc : SUBSET Guest]
LeaseRecord == [alloc : SUBSET Phys, protect : Protects]
Entry == [phys : Phys \cup {None}, protect : Protects, direct : BOOLEAN]
Operation == [at : {"idle", "publish", "remap", "views", "drain", "take", "commit", "backing", "run", "map"},
              next : {"idle", "commit", "backing", "run", "map"},
              range : SUBSET Guest, target : SUBSET Phys, protect : Protects,
              fresh : SUBSET Guest, left : SUBSET Guest, change : SUBSET Guest,
              jobs : Seq(SUBSET Guest), views : SUBSET Phys]
AccessRecord == [at : {"away", "guard", "slow", "load", "touch"}, page : Guest \cup {None},
                 phys : Phys \cup {None}, direct : BOOLEAN]

TablesType ==
  /\ page \in [Guest -> PageRecord]
  /\ own \in [Phys -> {"free", "retired", "anonymous", "pending", "explicit"}]
  /\ maps \in [Phys -> SUBSET Guest]
  /\ lease \in [Phys -> LeaseRecord]

PublishedType ==
  /\ hot \in [Guest -> Entry]
  /\ view \in [Phys -> Protects]
  /\ aperture \in [Guest -> Phys \cup {None}]

AccessType ==
  /\ rd \in [Readers -> AccessRecord]
  /\ \A r \in Readers : /\ rd[r].at # "away" => rd[r].page \in Guest
                        /\ rd[r].at = "touch" => rd[r].phys \in Phys

-----------------------------------------------------------------------------
\* What validate_invariants() checks, at every step of an operation.
MapsAreExact ==
  \A p \in Phys : maps[p] = {g \in Guest : page[g].phys = p}

OwnersAreExact ==
  \A p \in Phys :
    /\ own[p] \in {"free", "retired"} => maps[p] = {}
    /\ own[p] = "anonymous" => \E g \in maps[p] : ~page[g].explicit
    /\ own[p] = "pending" => maps[p] # {}

LeasesAreExact ==
  \A p \in Phys :
    /\ own[p] # "explicit" => lease[p] = NoLease
    /\ own[p] = "explicit" => p \in lease[p].alloc
    /\ \A q \in lease[p].alloc : lease[q].alloc = lease[p].alloc

PagesAreSound ==
  /\ \A g \in Guest :
       /\ page[g].state = "committed" <=> page[g].phys # None
       /\ page[g].explicit => page[g].state = "committed"
  /\ \A g \in Xex :
       /\ page[Alias[g]].state = page[g].state
       /\ page[Alias[g]].phys = page[g].phys
       /\ page[Alias[g]].protect = page[g].protect
       /\ ~page[g].explicit

TablesInv == TablesType /\ MapsAreExact /\ OwnersAreExact /\ LeasesAreExact /\ PagesAreSound

-----------------------------------------------------------------------------
\* The operations that a manager is in, reclaiming before an allocation too.
In(op) == mgr.at = op \/ (mgr.at \in {"drain", "take"} /\ mgr.next = op)
Committing == mgr.at = "commit" \/ In("backing")
Publishing == mgr.at \in {"publish", "remap", "views"}

\* A commit has backed its fresh pages, each with a physical page of its own.
CommitInv ==
  /\ Committing =>
       /\ mgr.range \in Ranges /\ mgr.left \subseteq mgr.range /\ mgr.fresh \subseteq mgr.range
       /\ \A g \in mgr.fresh :
            /\ page[g].phys \in Phys /\ own[page[g].phys] = "anonymous"
            /\ maps[page[g].phys] = WithAliases({g})
  /\ In("backing") => mgr.left # {} /\ page[Least(mgr.left)].state # "committed"

OperationInv ==
  /\ mgr \in Operation
  /\ mgr.at = "idle" => mgr = Idle
  /\ ~Publishing => mgr.views = {}
  /\ Publishing => mgr.next \in {"idle", "commit"}
  /\ Publishing /\ mgr.next = "commit" => mgr.fresh = {} /\ mgr.range \in Ranges
  /\ mgr.at \in {"drain", "take"} => mgr.next \in {"backing", "run", "map"}
  /\ In("map") =>
       /\ mgr.range \in Ranges /\ mgr.range \subseteq Virtual /\ mgr.target \in Runs
       /\ Cardinality(mgr.range) = Cardinality(mgr.target)
       /\ \A g \in mgr.range : page[g].state = "free"

-----------------------------------------------------------------------------
\* The pages whose hot entries the operation has yet to publish.
JobPages(jobs) == UNION {jobs[i] : i \in DOMAIN jobs}
Stale ==
  IF mgr.at = "publish" THEN mgr.left \cup JobPages(mgr.jobs)
  ELSE IF mgr.at = "remap" THEN JobPages(mgr.jobs)
  ELSE IF Committing THEN WithAliases(mgr.fresh) ELSE {}

EntriesInv ==
  /\ \A g \in Guest : g \notin Stale => hot[g].phys = page[g].phys
  /\ Committing => \A g \in WithAliases(mgr.fresh) : hot[g].phys = None

ViewsInv ==
  \A p \in Phys : p \notin mgr.views => view[p] = lease[p].protect

\* No entry names a physical page that may be allocated.
BackedInv ==
  \A g \in Guest : hot[g].phys # None => own[hot[g].phys] # "free"

\* An entry that uses the aperture finds its own page there.
DirectInv ==
  \A g \in Guest : hot[g].direct => hot[g].phys # None /\ aperture[g] = hot[g].phys

\* The aperture is changed only for pages that no entry and no access uses it
\* for.
RemapInv ==
  /\ mgr.at \in {"publish", "remap"} =>
       mgr.change \cap mgr.left = {} /\ \A g \in mgr.change : ~hot[g].direct
  /\ mgr.at = "remap" =>
       /\ mgr.left = {}
       /\ \A r \in Readers : rd[r].at = "touch" /\ rd[r].direct => rd[r].page \notin mgr.change

\* Physical pages are freed while no access has loaded an entry.
ReclaimInv ==
  /\ mgr.at \in {"drain", "take"} => pending
  /\ mgr.at = "take" => \A r \in Readers : rd[r].at \notin {"load", "touch"}

\* What the operation under way has done so far, and what accesses rely on.
ProgressInv == OperationInv /\ CommitInv /\ EntriesInv /\ ViewsInv /\ RemapInv /\ ReclaimInv
AccessInv == PublishedType /\ AccessType /\ BackedInv /\ DirectInv /\ AccessesAreExact

PageInv == TablesInv /\ ProgressInv /\ AccessInv

-----------------------------------------------------------------------------
(* Pages, ranges and the ranges to publish.                                *)

LEMMA LeastIsLeast ==
  ASSUME NEW S \in SUBSET Nat, S # {}
  PROVE  Least(S) \in S /\ \A y \in S : Least(S) <= y
  <1>1. PICK x \in S : \A y \in S : ~(<<y, x>> \in OpToRel(<, Nat))
    BY NatLessThanWellFounded, WFMin, Zenon
  <1>2. \A y \in S : ~(y < x)
    BY <1>1 DEF OpToRel
  <1>3. \A y \in S : x <= y
    BY <1>2
  <1> QED
    BY <1>3 DEF Least

LEMMA RangeFacts ==
  ASSUME NEW R \in Ranges
  PROVE  /\ R \in SUBSET Guest /\ R # {} /\ Least(R) \in R
         /\ R \subseteq Virtual \/ R \subseteq Xex
         /\ \E n \in Nat \ {0} : R = Least(R) .. (Least(R) + n - 1) /\ Cardinality(R) = n
  <1>1. R \in SUBSET Guest /\ Guest \subseteq Nat /\ (R \subseteq Virtual \/ R \subseteq Xex)
    BY PagesAreNumbers DEF Guest
  <1>2. PICK first \in R, last \in R : R = first .. last
    BY PagesAreNumbers
  <1>3. Least(R) \in R /\ \A y \in R : Least(R) <= y
    BY <1>1, <1>2, LeastIsLeast
  <1>4. first \in Nat /\ last \in Nat /\ Least(R) \in Nat
    BY <1>1, <1>3
  <1>5. first <= last /\ Least(R) = first
    BY <1>2, <1>3, <1>4
  <1>6. Cardinality(R) = last - first + 1
    BY <1>2, <1>4, <1>5, FS_Interval
  <1>7. last - first + 1 \in Nat \ {0} /\ R = Least(R) .. (Least(R) + (last - first + 1) - 1)
    BY <1>2, <1>4, <1>5
  <1> QED
    BY <1>1, <1>2, <1>3, <1>6, <1>7

LEMMA RunFacts ==
  ASSUME NEW T \in Runs
  PROVE  /\ T \in SUBSET Phys /\ T # {} /\ Least(T) \in T
         /\ \E n \in Nat \ {0} : T = Least(T) .. (Least(T) + n - 1) /\ Cardinality(T) = n
  <1>1. T \in SUBSET Phys /\ Phys \subseteq Nat
    BY PagesAreNumbers
  <1>2. PICK first \in T, last \in T : T = first .. last
    BY PagesAreNumbers
  <1>3. Least(T) \in T /\ \A y \in T : Least(T) <= y
    BY <1>1, <1>2, LeastIsLeast
  <1>4. first \in Nat /\ last \in Nat /\ Least(T) \in Nat
    BY <1>1, <1>3
  <1>5. first <= last /\ Least(T) = first
    BY <1>2, <1>3, <1>4
  <1>6. Cardinality(T) = last - first + 1
    BY <1>2, <1>4, <1>5, FS_Interval
  <1>7. last - first + 1 \in Nat \ {0} /\ T = Least(T) .. (Least(T) + (last - first + 1) - 1)
    BY <1>2, <1>4, <1>5
  <1> QED
    BY <1>1, <1>2, <1>3, <1>6, <1>7

\* The two XEX views are closed together.
LEMMA AliasFacts ==
  ASSUME NEW R \in SUBSET Guest
  PROVE  /\ WithAliases(R) \in SUBSET Guest /\ R \subseteq WithAliases(R)
         /\ \A g \in Xex : /\ Alias[g] \in Xex /\ g \in Guest /\ Alias[g] \in Guest
                           /\ Alias[Alias[g]] = g
                           /\ Alias[g] \in WithAliases(R) <=> g \in WithAliases(R)
         /\ \A h \in WithAliases(R) : h \in R \/ (h \in Xex /\ Alias[h] \in R)
         /\ R \subseteq Virtual => WithAliases(R) = R
  BY PagesAreNumbers DEF WithAliases, Aliases, Guest

LEMMA WithAliasesGrows ==
  ASSUME NEW R \in SUBSET Guest, NEW S \in SUBSET Guest
  PROVE  /\ WithAliases(R \cup S) = WithAliases(R) \cup WithAliases(S)
         /\ WithAliases({}) = {}
         /\ R \subseteq S => WithAliases(R) \subseteq WithAliases(S)
  BY DEF WithAliases, Aliases

LEMMA JobFacts ==
  ASSUME NEW jobs \in Seq(SUBSET Guest)
  PROVE  /\ jobs # <<>> => /\ Head(jobs) \in SUBSET Guest
                           /\ Tail(jobs) \in Seq(SUBSET Guest)
                           /\ JobPages(jobs) = Head(jobs) \cup JobPages(Tail(jobs))
         /\ jobs = <<>> => JobPages(jobs) = {}
  <1>1. jobs = <<>> => JobPages(jobs) = {}
    BY DEF JobPages
  <1>2. ASSUME jobs # <<>>
        PROVE  /\ Head(jobs) \in SUBSET Guest
               /\ Tail(jobs) \in Seq(SUBSET Guest)
               /\ JobPages(jobs) = Head(jobs) \cup JobPages(Tail(jobs))
    <2>1. /\ Head(jobs) = jobs[1] /\ Head(jobs) \in SUBSET Guest /\ Tail(jobs) \in Seq(SUBSET Guest)
          /\ Len(Tail(jobs)) = Len(jobs) - 1 /\ Len(jobs) \in Nat /\ Len(jobs) >= 1
          /\ DOMAIN jobs = 1 .. Len(jobs) /\ DOMAIN Tail(jobs) = 1 .. (Len(jobs) - 1)
          /\ \A i \in 1 .. (Len(jobs) - 1) : Tail(jobs)[i] = jobs[i + 1]
      BY <1>2
    <2>2. ASSUME NEW x \in JobPages(jobs)
          PROVE  x \in Head(jobs) \cup JobPages(Tail(jobs))
      <3>1. PICK i \in 1 .. Len(jobs) : x \in jobs[i]
        BY <2>1, <2>2 DEF JobPages
      <3>2. CASE i = 1
        BY <2>1, <3>1, <3>2
      <3>3. CASE i # 1
        <4>1. i - 1 \in DOMAIN Tail(jobs) /\ x \in Tail(jobs)[i - 1]
          BY <2>1, <3>1, <3>3
        <4> QED
          BY <4>1 DEF JobPages
      <3> QED
        BY <3>2, <3>3
    <2>3. ASSUME NEW x \in JobPages(Tail(jobs))
          PROVE  x \in JobPages(jobs)
      <3>1. PICK i \in 1 .. (Len(jobs) - 1) : x \in Tail(jobs)[i]
        BY <2>1, <2>3 DEF JobPages
      <3>2. i + 1 \in DOMAIN jobs /\ x \in jobs[i + 1]
        BY <2>1, <3>1
      <3> QED
        BY <3>2 DEF JobPages
    <2>4. 1 \in DOMAIN jobs /\ Head(jobs) \subseteq JobPages(jobs)
      BY <2>1 DEF JobPages
    <2> QED
      BY <2>1, <2>2, <2>3, <2>4
  <1> QED
    BY <1>1, <1>2

\* publish_hot_range() in both views publishes every page and its twin.
LEMMA BothViewsCover ==
  ASSUME NEW R \in Ranges
  PROVE  /\ BothViews(R) \in Seq(SUBSET Guest) /\ BothViews(R) # <<>>
         /\ Head(BothViews(R)) \cup JobPages(Tail(BothViews(R))) = WithAliases(R)
  <1>1. R \in SUBSET Guest /\ (R \subseteq Virtual \/ R \subseteq Xex)
    BY RangeFacts
  <1>2. Aliases(R) \in SUBSET Guest
    BY <1>1, AliasFacts DEF WithAliases
  <1>3. CASE R \subseteq Xex
    <2>1. BothViews(R) = <<R, Aliases(R)>>
      BY <1>3 DEF BothViews
    <2>2. /\ BothViews(R) \in Seq(SUBSET Guest) /\ BothViews(R) # <<>> /\ Head(BothViews(R)) = R
          /\ Tail(BothViews(R)) = <<Aliases(R)>>
      BY <1>1, <1>2, <2>1
    <2>3. JobPages(<<Aliases(R)>>) = Aliases(R)
      BY DEF JobPages
    <2> QED
      BY <2>2, <2>3 DEF WithAliases
  <1>4. CASE ~(R \subseteq Xex)
    <2>1. BothViews(R) = <<R>>
      BY <1>4 DEF BothViews
    <2>2. /\ BothViews(R) \in Seq(SUBSET Guest) /\ BothViews(R) # <<>> /\ Head(BothViews(R)) = R
          /\ Tail(BothViews(R)) = <<>>
      BY <1>1, <2>1
    <2>3. JobPages(<<>>) = {}
      BY DEF JobPages
    <2>4. R \subseteq Virtual
      BY <1>1, <1>4
    <2>5. WithAliases(R) = R
      BY <1>1, <2>4, AliasFacts
    <2> QED
      BY <2>2, <2>3, <2>5
  <1> QED
    BY <1>3, <1>4

LEMMA PageByPageIsSound ==
  ASSUME NEW R \in Ranges
  PROVE  PageByPage(R) \in Seq(SUBSET Guest) /\ PageByPage(R) # <<>>
  <1>1. PICK n \in Nat \ {0} : R = Least(R) .. (Least(R) + n - 1) /\ Cardinality(R) = n
    BY RangeFacts
  <1>2. R \in SUBSET Guest /\ Least(R) \in R /\ Guest \subseteq Nat
    BY RangeFacts, PagesAreNumbers
  <1>3. PICK m : m = Least(R)
    OBVIOUS
  <1>4. \A i \in 0 .. (n - 1) : m + i \in R
    <2>1. m \in Nat /\ R = m .. (m + n - 1)
      BY <1>1, <1>2, <1>3
    <2>2. \A i \in 0 .. (n - 1) : m + i \in m .. (m + n - 1)
      BY <2>1
    <2> QED
      BY <2>1, <2>2
  <1>5. CASE R \subseteq Xex
    <2>1. \A i \in 1 .. 2 * n : i % 2 = 1 => i \div 2 \in 0 .. (n - 1)
      OBVIOUS
    <2>2. \A i \in 1 .. 2 * n : i % 2 # 1 => i \div 2 - 1 \in 0 .. (n - 1)
      OBVIOUS
    <2>3. \A g \in R : Alias[g] \in Guest
      BY <1>2, <1>5, AliasFacts
    <2>4. PageByPage(R) = [i \in 1 .. 2 * n |->
             IF i % 2 = 1 THEN {m + i \div 2} ELSE {Alias[m + (i \div 2 - 1)]}]
      BY <1>1, <1>3, <1>5 DEF PageByPage
    <2>5. \A i \in 1 .. 2 * n :
             (IF i % 2 = 1 THEN {m + i \div 2} ELSE {Alias[m + (i \div 2 - 1)]}) \in SUBSET Guest
      BY <1>2, <1>4, <2>1, <2>2, <2>3
    <2>6. PageByPage(R) \in [1 .. 2 * n -> SUBSET Guest]
      BY <2>4, <2>5
    <2>7. 2 * n \in Nat /\ 1 \in 1 .. 2 * n
      OBVIOUS
    <2> QED
      BY <2>6, <2>7
  <1>6. CASE ~(R \subseteq Xex)
    <2>1. PageByPage(R) = [i \in 1 .. n |-> {m + (i - 1)}]
      BY <1>1, <1>3, <1>6 DEF PageByPage
    <2>2. \A i \in 1 .. n : i - 1 \in 0 .. (n - 1)
      OBVIOUS
    <2>3. \A i \in 1 .. n : m + (i - 1) \in Guest
      BY <1>2, <1>4, <2>2
    <2>4. PageByPage(R) \in [1 .. n -> SUBSET Guest] /\ 1 \in 1 .. n
      BY <2>1, <2>3
    <2> QED
      BY <2>4
  <1> QED
    BY <1>5, <1>6

\* FreeRun() divides the free pages of T.
LEMMA FreeRuns ==
  ASSUME NEW T \in SUBSET Phys, NEW p \in T, own[p] = "free"
  PROVE  /\ p \in FreeRun(p, T) /\ FreeRun(p, T) \in SUBSET Phys
         /\ \A q \in FreeRun(p, T) :
              q \in T /\ own[q] = "free" /\ FreeRun(q, T) = FreeRun(p, T)
  <1>1. T \subseteq Int
    BY PagesAreNumbers
  <1>2. p \in FreeRun(p, T) /\ FreeRun(p, T) \in SUBSET Phys
    <2>1. \A x \in T : (p <= x /\ x <= p) \/ (p <= x /\ x <= p) => x = p
      BY <1>1
    <2> QED
      BY <2>1 DEF FreeRun
  <1>3. ASSUME NEW q \in FreeRun(p, T)
        PROVE  q \in T /\ own[q] = "free" /\ FreeRun(q, T) = FreeRun(p, T)
    <2>1. q \in T /\ p \in Int /\ q \in Int
      BY <1>1, <1>3 DEF FreeRun
    <2>2. \A x \in T : (p <= x /\ x <= q) \/ (q <= x /\ x <= p) => own[x] = "free"
      BY <1>3 DEF FreeRun
    <2>3. p <= q \/ q <= p
      BY <2>1
    <2>4. own[q] = "free"
      BY <2>1, <2>2, <2>3
    <2>5. ASSUME NEW s \in T, NEW x \in T, (q <= x /\ x <= s) \/ (s <= x /\ x <= q)
          PROVE  \/ (p <= x /\ x <= q) \/ (q <= x /\ x <= p)
                 \/ (p <= x /\ x <= s) \/ (s <= x /\ x <= p)
      BY <1>1, <2>1, <2>5
    <2>6. ASSUME NEW s \in T, NEW x \in T, (p <= x /\ x <= s) \/ (s <= x /\ x <= p)
          PROVE  \/ (p <= x /\ x <= q) \/ (q <= x /\ x <= p)
                 \/ (q <= x /\ x <= s) \/ (s <= x /\ x <= q)
      BY <1>1, <2>1, <2>6
    <2>7. \A s \in T : s \in FreeRun(p, T) => s \in FreeRun(q, T)
      BY <2>2, <2>5 DEF FreeRun
    <2>8. \A s \in T : s \in FreeRun(q, T) => s \in FreeRun(p, T)
      BY <2>2, <2>6 DEF FreeRun
    <2>9. FreeRun(p, T) \subseteq T /\ FreeRun(q, T) \subseteq T
      BY DEF FreeRun
    <2> QED
      BY <2>1, <2>4, <2>7, <2>8, <2>9
  <1> QED
    BY <1>2, <1>3

-----------------------------------------------------------------------------
(* The page table and the physical pages.                                  *)

\* A change of states and protections that maps and unmaps nothing.
LEMMA TablesAreKept ==
  ASSUME TablesInv, page' \in [Guest -> PageRecord], UNCHANGED <<own, maps, lease>>,
         \A g \in Guest :
           /\ page'[g].phys = page[g].phys /\ page'[g].explicit = page[g].explicit
           /\ page'[g].state = "committed" <=> page[g].state = "committed",
         \A g \in Xex :
           /\ page'[Alias[g]].state = page'[g].state
           /\ page'[Alias[g]].protect = page'[g].protect
  PROVE  TablesInv'
  <1>1. TablesType'
    BY DEF TablesInv, TablesType
  <1>2. MapsAreExact'
    BY DEF TablesInv, MapsAreExact
  <1>3. OwnersAreExact'
    <2>1. \A p \in Phys : maps[p] \subseteq Guest
      BY DEF TablesInv, TablesType
    <2> QED
      BY <2>1 DEF TablesInv, OwnersAreExact
  <1>4. LeasesAreExact'
    BY DEF TablesInv, LeasesAreExact
  <1>5. PagesAreSound'
    <2>1. \A g \in Xex : g \in Guest /\ Alias[g] \in Guest
      BY AliasFacts
    <2> QED
      BY <2>1 DEF TablesInv, PagesAreSound
  <1> QED
    BY <1>1, <1>2, <1>3, <1>4, <1>5 DEF TablesInv

LEMMA ReserveKeepsTables ==
  ASSUME TablesInv, NEW R \in Ranges, NEW protect \in Protects,
         Reservable(R), ReservePages(R, protect), UNCHANGED <<own, maps, lease>>
  PROVE  TablesInv' /\ \A g \in Guest : page'[g].phys = page[g].phys
  <1>1. R \in SUBSET Guest /\ WithAliases(R) \in SUBSET Guest /\ Aliases(R) \in SUBSET Guest
    BY RangeFacts, AliasFacts DEF WithAliases
  <1>2. PICK W \in SUBSET Guest : W = WithAliases(R)
    BY <1>1
  <1>3. \A g \in W : page[g].state = "free" /\ page[g].phys = None /\ page[g].explicit = FALSE
    <2>1. \A g \in W : page[g].state = "free" /\ page[g] \in PageRecord
      BY <1>2 DEF Reservable, TablesInv, TablesType
    <2> QED
      BY <2>1 DEF TablesInv, PagesAreSound, PageRecord
  <1>4. page' = [g \in Guest |->
                   IF g \in W
                     THEN [state |-> "reserved", phys |-> None, protect |-> protect,
                           explicit |-> FALSE, alloc |-> IF g \in R THEN R ELSE Aliases(R)]
                     ELSE page[g]]
    BY <1>2 DEF ReservePages
  <1>5. page' \in [Guest -> PageRecord]
    BY <1>1, <1>4 DEF TablesInv, TablesType, PageRecord
  <1>6. \A g \in Guest :
          /\ page'[g].phys = page[g].phys /\ page'[g].explicit = page[g].explicit
          /\ page'[g].state = "committed" <=> page[g].state = "committed"
    BY <1>3, <1>4
  <1>7. \A g \in Xex :
          /\ page'[Alias[g]].state = page'[g].state
          /\ page'[Alias[g]].protect = page'[g].protect
    <2>1. \A g \in Xex : g \in Guest /\ Alias[g] \in Guest /\ (Alias[g] \in W <=> g \in W)
      BY <1>1, <1>2, AliasFacts
    <2> QED
      BY <1>4, <2>1 DEF TablesInv, PagesAreSound
  <1> QED
    BY <1>5, <1>6, <1>7, TablesAreKept

LEMMA ProtectKeepsTables ==
  ASSUME TablesInv, NEW R \in SUBSET Guest, NEW protect \in Protects,
         page' = [g \in Guest |-> IF g \in WithAliases(R)
                                    THEN [page[g] EXCEPT !.protect = protect] ELSE page[g]],
         UNCHANGED <<own, maps, lease>>
  PROVE  TablesInv' /\ \A g \in Guest : page'[g].phys = page[g].phys /\ page'[g].state = page[g].state
  <1>1. \A g \in Guest : page[g] \in PageRecord
    BY DEF TablesInv, TablesType
  <1>2. page' \in [Guest -> PageRecord]
    BY <1>1 DEF PageRecord
  <1>3. \A g \in Guest :
          /\ page'[g].phys = page[g].phys /\ page'[g].explicit = page[g].explicit
          /\ page'[g].state = page[g].state
          /\ page'[g].protect = IF g \in WithAliases(R) THEN protect ELSE page[g].protect
    BY <1>1 DEF PageRecord
  <1>4. \A g \in Xex :
          /\ page'[Alias[g]].state = page'[g].state
          /\ page'[Alias[g]].protect = page'[g].protect
    <2>1. \A g \in Xex : /\ g \in Guest /\ Alias[g] \in Guest
                         /\ Alias[g] \in WithAliases(R) <=> g \in WithAliases(R)
      BY AliasFacts
    <2> QED
      BY <1>3, <2>1 DEF TablesInv, PagesAreSound
  <1> QED
    BY <1>2, <1>3, <1>4, TablesAreKept

\* reclaim, allocate_physical(), free_physical() and protect_physical() map and
\* unmap nothing.
LEMMA LeaseTables ==
  ASSUME TablesInv, UNCHANGED <<page, maps>>,
         own' \in [Phys -> {"free", "retired", "anonymous", "pending", "explicit"}],
         lease' \in [Phys -> LeaseRecord],
         \A p \in Phys : own'[p] # own[p] => maps[p] = {} /\ own'[p] \notin {"anonymous", "pending"},
         LeasesAreExact'
  PROVE  TablesInv'
  <1>1. TablesType' /\ MapsAreExact' /\ PagesAreSound'
    BY DEF TablesInv, TablesType, MapsAreExact, PagesAreSound
  <1>2. OwnersAreExact'
    BY DEF TablesInv, OwnersAreExact
  <1> QED
    BY <1>1, <1>2 DEF TablesInv

LEMMA TakeRetiredKeepsTables ==
  ASSUME TablesInv, TakeRetired
  PROVE  TablesInv'
  <1>1. /\ own' = [p \in Phys |-> IF own[p] = "retired" THEN "free" ELSE own[p]]
        /\ lease' = [p \in Phys |-> IF own[p] = "retired" THEN NoLease ELSE lease[p]]
        /\ UNCHANGED <<page, maps>>
    BY DEF TakeRetired, Retired
  <1>2. NoLease \in LeaseRecord
    BY DEF NoLease, LeaseRecord, Protects
  <1>3. own' \in [Phys -> {"free", "retired", "anonymous", "pending", "explicit"}]
    BY <1>1 DEF TablesInv, TablesType
  <1>4. lease' = lease
    <2>1. \A p \in Phys : own[p] = "retired" => lease[p] = NoLease
      BY DEF TablesInv, LeasesAreExact
    <2> QED
      BY <1>1, <2>1 DEF TablesInv, TablesType
  <1>5. LeasesAreExact'
    BY <1>1, <1>4 DEF TablesInv, LeasesAreExact
  <1>6. \A p \in Phys : own'[p] # own[p] => maps[p] = {} /\ own'[p] \notin {"anonymous", "pending"}
    BY <1>1 DEF TablesInv, OwnersAreExact
  <1>7. lease' \in [Phys -> LeaseRecord]
    BY <1>4 DEF TablesInv, TablesType
  <1> QED
    BY <1>1, <1>3, <1>5, <1>6, <1>7, LeaseTables

LEMMA AllocateRunKeepsTables ==
  ASSUME TablesInv, mgr.protect \in Protects, NEW T \in Runs, AllocateRun(T)
  PROVE  TablesInv'
  <1>1. T \in SUBSET Phys /\ (\A p \in T : own[p] = "free")
    BY RunFacts DEF AllocateRun
  <1>2. PICK new \in LeaseRecord : new = [alloc |-> T, protect |-> mgr.protect]
    BY <1>1 DEF LeaseRecord
  <1>3. /\ own' = [p \in Phys |-> IF p \in T THEN "explicit" ELSE own[p]]
        /\ lease' = [p \in Phys |-> IF p \in T THEN new ELSE lease[p]]
        /\ UNCHANGED <<page, maps>> /\ new.alloc = T
    BY <1>2 DEF AllocateRun, LeaseTo
  <1>4. /\ own' \in [Phys -> {"free", "retired", "anonymous", "pending", "explicit"}]
        /\ lease' \in [Phys -> LeaseRecord]
    BY <1>3 DEF TablesInv, TablesType
  <1>5. \A p \in Phys : \A q \in lease[p].alloc : q \in Phys /\ q \notin T
    <2>1. \A p \in Phys : lease[p].alloc \subseteq Phys
      BY DEF TablesInv, TablesType, LeaseRecord
    <2>2. \A p \in T : lease[p].alloc = {}
      BY <1>1 DEF TablesInv, LeasesAreExact, NoLease
    <2> QED
      BY <2>1, <2>2 DEF TablesInv, LeasesAreExact
  <1>6. LeasesAreExact'
    <2>1. \A p \in Phys : /\ own'[p] # "explicit" => lease'[p] = NoLease
                          /\ own'[p] = "explicit" => p \in lease'[p].alloc
      BY <1>3 DEF TablesInv, LeasesAreExact
    <2>2. \A p \in Phys : \A q \in lease'[p].alloc : lease'[q].alloc = lease'[p].alloc
      BY <1>1, <1>3, <1>5 DEF TablesInv, LeasesAreExact
    <2> QED
      BY <2>1, <2>2 DEF LeasesAreExact
  <1>7. \A p \in Phys : own'[p] # own[p] => maps[p] = {} /\ own'[p] \notin {"anonymous", "pending"}
    BY <1>1, <1>3 DEF TablesInv, OwnersAreExact
  <1> QED
    BY <1>3, <1>4, <1>6, <1>7, LeaseTables

LEMMA FreePhysicalKeepsTables ==
  ASSUME TablesInv, NEW T \in Runs, FreePhysical(T)
  PROVE  TablesInv'
  <1>1. /\ T \in SUBSET Phys
        /\ \A p \in T : own[p] = "explicit" /\ lease[p].alloc = T /\ maps[p] = {}
    BY RunFacts DEF FreePhysical
  <1>2. NoLease \in LeaseRecord /\ NoLease.alloc = {}
    BY DEF NoLease, LeaseRecord, Protects
  <1>3. /\ own' = [p \in Phys |-> IF p \in T THEN "retired" ELSE own[p]]
        /\ lease' = [p \in Phys |-> IF p \in T THEN NoLease ELSE lease[p]]
        /\ UNCHANGED <<page, maps>>
    BY DEF FreePhysical
  <1>4. /\ own' \in [Phys -> {"free", "retired", "anonymous", "pending", "explicit"}]
        /\ lease' \in [Phys -> LeaseRecord]
    BY <1>2, <1>3 DEF TablesInv, TablesType
  <1>5. ASSUME NEW p \in Phys, p \notin T, NEW q \in lease[p].alloc
        PROVE  q \in Phys /\ q \notin T
    <2>1. q \in Phys
      BY DEF TablesInv, TablesType, LeaseRecord
    <2>2. p \in lease[p].alloc
      BY <1>2 DEF TablesInv, LeasesAreExact
    <2>3. lease[q].alloc = lease[p].alloc
      BY DEF TablesInv, LeasesAreExact
    <2> QED
      BY <1>1, <1>5, <2>1, <2>2, <2>3
  <1>6. LeasesAreExact'
    <2>1. \A p \in Phys : /\ own'[p] # "explicit" => lease'[p] = NoLease
                          /\ own'[p] = "explicit" => p \in lease'[p].alloc
      BY <1>3 DEF TablesInv, LeasesAreExact
    <2>2. \A p \in Phys : \A q \in lease'[p].alloc : lease'[q].alloc = lease'[p].alloc
      BY <1>2, <1>3, <1>5 DEF TablesInv, LeasesAreExact
    <2> QED
      BY <2>1, <2>2 DEF LeasesAreExact
  <1>7. \A p \in Phys : own'[p] # own[p] => maps[p] = {} /\ own'[p] \notin {"anonymous", "pending"}
    BY <1>1, <1>3
  <1> QED
    BY <1>3, <1>4, <1>6, <1>7, LeaseTables

LEMMA ProtectPhysicalKeepsTables ==
  ASSUME TablesInv, NEW T \in Runs, NEW protect \in Protects, ProtectPhysical(T, protect)
  PROVE  TablesInv'
  <1>1. T \in SUBSET Phys /\ Least(T) \in T /\ T \subseteq lease[Least(T)].alloc
    BY RunFacts DEF ProtectPhysical
  <1>2. \A p \in Phys : lease[p] \in LeaseRecord
    BY DEF TablesInv, TablesType
  <1>3. /\ lease' = [p \in Phys |-> IF p \in T THEN [lease[p] EXCEPT !.protect = protect]
                                    ELSE lease[p]]
        /\ UNCHANGED <<page, maps, own>>
    BY DEF ProtectPhysical
  <1>4. /\ lease' \in [Phys -> LeaseRecord]
        /\ \A p \in Phys : lease'[p].alloc = lease[p].alloc /\ (p \notin T => lease'[p] = lease[p])
    BY <1>2, <1>3 DEF LeaseRecord
  <1>5. \A p \in T : own[p] = "explicit"
    <2>1. \A p \in T : p \in lease[p].alloc
      BY <1>1 DEF TablesInv, LeasesAreExact
    <2> QED
      BY <1>1, <2>1 DEF TablesInv, LeasesAreExact, NoLease
  <1>6. \A p \in Phys : lease[p].alloc \subseteq Phys
    BY <1>2 DEF LeaseRecord
  <1>7. LeasesAreExact'
    BY <1>3, <1>4, <1>5, <1>6 DEF TablesInv, LeasesAreExact
  <1> QED
    BY <1>3, <1>4, <1>7, LeaseTables DEF TablesInv, TablesType

\* The two addresses of an XEX page have one state and one backing.
LEMMA TwinsAgree ==
  ASSUME TablesInv, NEW R \in SUBSET Guest, NEW h \in WithAliases(R)
  PROVE  /\ h \in Guest
         /\ \E g \in R : /\ page[h].phys = page[g].phys /\ page[h].state = page[g].state
                         /\ h = g \/ (h \in Xex /\ ~page[h].explicit /\ ~page[g].explicit)
  <1>1. h \in Guest /\ (h \in R \/ (h \in Xex /\ Alias[h] \in R /\ Alias[h] \in Xex))
    BY AliasFacts
  <1>2. CASE h \in R
    BY <1>1, <1>2
  <1>3. CASE h \in Xex /\ Alias[h] \in R /\ Alias[h] \in Xex
    BY <1>1, <1>3 DEF TablesInv, PagesAreSound
  <1> QED
    BY <1>1, <1>2, <1>3

LEMMA PageUnbacked ==
  ASSUME NEW e \in PageRecord
  PROVE  LET f == [e EXCEPT !.state = "reserved", !.phys = None]
         IN  /\ f \in PageRecord /\ f.state = "reserved" /\ f.phys = None
             /\ f.protect = e.protect /\ f.explicit = e.explicit
  BY DEF PageRecord

LEMMA PageUnmapped ==
  ASSUME NEW e \in PageRecord, NEW state \in {"free", "reserved", "committed"}
  PROVE  LET f == [e EXCEPT !.state = state, !.phys = None, !.explicit = FALSE]
         IN  /\ f \in PageRecord /\ f.state = state /\ f.phys = None
             /\ f.protect = e.protect /\ f.explicit = FALSE
  BY DEF PageRecord

LEMMA CommitBackingKeepsTables ==
  ASSUME TablesInv, NEW p \in Phys, NEW g \in Guest, page[g].state # "committed", own[p] = "free",
         NEW W, W = WithAliases({g}),
         page' \in [Guest -> PageRecord],
         \A h \in W : /\ page'[h].state = "committed" /\ page'[h].phys = p
                      /\ page'[h].protect = mgr.protect /\ page'[h].explicit = page[h].explicit,
         \A h \in Guest : h \notin W => page'[h] = page[h],
         maps' = [maps EXCEPT ![p] = @ \cup W],
         own' = [own EXCEPT ![p] = "anonymous"], lease' = lease
  PROVE  TablesInv'
  <1>1. W \in SUBSET Guest
    BY AliasFacts
  <1>2. /\ g \in W
        /\ \A h \in Xex : h \in Guest /\ Alias[h] \in Guest /\ (Alias[h] \in W <=> h \in W)
    BY AliasFacts
  <1>3. ASSUME NEW h \in W
        PROVE  page[h].phys = None /\ ~page[h].explicit
    <2>1. h \in WithAliases({g}) /\ {g} \in SUBSET Guest
      OBVIOUS
    <2>2. h \in Guest /\ \E k \in {g} : page[h].state = page[k].state
      BY <2>1, TwinsAgree
    <2>3. page[h].state # "committed"
      BY <2>2
    <2> QED
      BY <2>2, <2>3 DEF TablesInv, PagesAreSound
  <1>4. maps[p] = {} /\ lease[p] = NoLease /\ None \notin Phys
    BY PagesAreNumbers DEF TablesInv, OwnersAreExact, LeasesAreExact
  <1>5. /\ \A q \in Phys : maps'[q] = IF q = p THEN W ELSE maps[q]
        /\ \A q \in Phys : own'[q] = IF q = p THEN "anonymous" ELSE own[q]
        /\ maps' \in [Phys -> SUBSET Guest]
        /\ own' \in [Phys -> {"free", "retired", "anonymous", "pending", "explicit"}]
    BY <1>1, <1>4 DEF TablesInv, TablesType
  <1>6. TablesType'
    BY <1>5 DEF TablesInv, TablesType
  <1>7. ASSUME NEW q \in Phys, NEW h \in maps[q]
        PROVE  h \in Guest /\ page[h].phys = q /\ h \notin W
    BY <1>3, <1>4, ZenonT(30) DEF TablesInv, MapsAreExact
  <1>8. MapsAreExact'
    <2>1. \A q \in Phys : \A h \in Guest : page[h].phys = q => h \in maps[q]
      BY DEF TablesInv, MapsAreExact
    <2>2. ASSUME NEW q \in Phys, NEW h \in Guest
          PROVE  h \in maps'[q] <=> page'[h].phys = q
      <3>1. CASE h \in W
        <4>1. page'[h].phys = p
          BY <3>1
        <4>2. q # p => h \notin maps[q]
          BY <1>7, <3>1
        <4> QED
          BY <1>5, <3>1, <4>1, <4>2
      <3>2. CASE h \notin W
        <4>1. page'[h] = page[h]
          BY <3>2
        <4>2. page[h].phys = q <=> h \in maps[q]
          BY <1>7, <2>1
        <4> QED
          BY <1>4, <1>5, <3>2, <4>1, <4>2
      <3> QED
        BY <3>1, <3>2
    <2>3. ASSUME NEW q \in Phys
          PROVE  maps'[q] = {h \in Guest : page'[h].phys = q}
      <3>1. maps'[q] \subseteq Guest
        BY <1>5
      <3>2. \A h \in Guest : h \in maps'[q] <=> page'[h].phys = q
        BY <2>2
      <3> QED
        BY <3>1, <3>2, Zenon
    <2> QED
      BY <2>3 DEF MapsAreExact
  <1>9. OwnersAreExact'
    <2>1. ASSUME NEW q \in Phys, q # p
          PROVE  /\ own'[q] \in {"free", "retired"} => maps'[q] = {}
                 /\ own'[q] = "anonymous" => \E h \in maps'[q] : ~page'[h].explicit
                 /\ own'[q] = "pending" => maps'[q] # {}
      <3>1. own'[q] = own[q] /\ maps'[q] = maps[q] /\ \A h \in maps[q] : page'[h] = page[h]
        BY <1>5, <1>7, <2>1
      <3> QED
        BY <3>1 DEF TablesInv, OwnersAreExact
    <2>2. own'[p] = "anonymous" /\ maps'[p] = W /\ ~page'[g].explicit
      BY <1>2, <1>3, <1>5
    <2> QED
      BY <1>2, <2>1, <2>2 DEF OwnersAreExact
  <1>10. LeasesAreExact'
    <2>1. \A q \in Phys : /\ own[q] # "explicit" => lease[q] = NoLease
                          /\ own[q] = "explicit" => q \in lease[q].alloc
                          /\ \A s \in lease[q].alloc : lease[s].alloc = lease[q].alloc
      BY DEF TablesInv, LeasesAreExact
    <2> QED
      BY <1>4, <1>5, <2>1 DEF LeasesAreExact
  <1>11. PagesAreSound'
    <2>1. ASSUME NEW h \in Guest
          PROVE  /\ page'[h].state = "committed" <=> page'[h].phys # None
                 /\ page'[h].explicit => page'[h].state = "committed"
      <3>1. CASE h \in W
        <4>1. page'[h].state = "committed" /\ page'[h].phys = p
          BY <3>1
        <4> QED
          BY <1>4, <4>1
      <3>2. CASE h \notin W
        <4>1. page'[h] = page[h]
          BY <3>2
        <4> QED
          BY <4>1 DEF TablesInv, PagesAreSound
      <3> QED
        BY <3>1, <3>2
    <2>2. ASSUME NEW h \in Xex
          PROVE  /\ page'[Alias[h]].state = page'[h].state
                 /\ page'[Alias[h]].phys = page'[h].phys
                 /\ page'[Alias[h]].protect = page'[h].protect
                 /\ ~page'[h].explicit
      <3>1. /\ page[Alias[h]].state = page[h].state
            /\ page[Alias[h]].phys = page[h].phys
            /\ page[Alias[h]].protect = page[h].protect
            /\ ~page[h].explicit
        BY DEF TablesInv, PagesAreSound
      <3>2. CASE h \in W
        <4>1. Alias[h] \in W /\ ~page[h].explicit
          BY <1>2, <3>1, <3>2
        <4>2. /\ page'[h].state = "committed" /\ page'[h].phys = p
              /\ page'[h].protect = mgr.protect /\ page'[h].explicit = page[h].explicit
          BY <3>2
        <4>3. /\ page'[Alias[h]].state = "committed" /\ page'[Alias[h]].phys = p
              /\ page'[Alias[h]].protect = mgr.protect
          BY <4>1
        <4> QED
          BY <4>1, <4>2, <4>3
      <3>3. CASE h \notin W
        <4>1. Alias[h] \notin W /\ h \in Guest /\ Alias[h] \in Guest
          BY <1>2, <3>3
        <4>2. page'[h] = page[h] /\ page'[Alias[h]] = page[Alias[h]]
          BY <3>3, <4>1
        <4> QED
          BY <3>1, <4>2
      <3> QED
        BY <3>2, <3>3
    <2> QED
      BY <2>1, <2>2 DEF PagesAreSound
  <1> QED
    BY <1>6, <1>8, <1>9, <1>10, <1>11 DEF TablesInv

\* Taking the backing of the pages of R away, with no mapping left behind.
LEMMA UnmapTables ==
  ASSUME TablesInv, NEW R \in SUBSET Guest, page' \in [Guest -> PageRecord],
         \A g \in Guest : g \notin WithAliases(R) => page'[g] = page[g],
         \A g \in WithAliases(R) :
           page'[g].phys = None /\ page'[g].state # "committed" /\ ~page'[g].explicit,
         \A g \in Xex : g \in WithAliases(R) =>
           page'[Alias[g]].state = page'[g].state /\ page'[Alias[g]].protect = page'[g].protect,
         maps' = [p \in Phys |-> MapsWithout(p, R)],
         own' \in [Phys -> {"free", "retired", "anonymous", "pending", "explicit"}],
         lease' = lease,
         \A p \in Phys : own'[p] = "explicit" <=> own[p] = "explicit",
         OwnersAreExact'
  PROVE  TablesInv'
  <1>1. PICK W \in SUBSET Guest : W = WithAliases(R)
    BY AliasFacts
  <1>2. \A p \in Phys : maps'[p] = maps[p] \ W
    BY <1>1 DEF MapsWithout
  <1>3. TablesType'
    BY <1>1, <1>2 DEF TablesInv, TablesType, MapsWithout
  <1>4. MapsAreExact'
    <2>1. \A p \in Phys : None # p /\ maps[p] = {g \in Guest : page[g].phys = p}
      BY PagesAreNumbers DEF TablesInv, MapsAreExact
    <2> QED
      BY <1>1, <1>2, <2>1 DEF MapsAreExact
  <1>5. LeasesAreExact'
    BY DEF TablesInv, LeasesAreExact
  <1>6. PagesAreSound'
    <2>1. \A g \in Xex : /\ g \in Guest /\ Alias[g] \in Guest
                         /\ Alias[g] \in WithAliases(R) <=> g \in WithAliases(R)
      BY AliasFacts
    <2>2. \A g \in Guest : /\ page'[g].state = "committed" <=> page'[g].phys # None
                           /\ page'[g].explicit => page'[g].state = "committed"
      BY DEF TablesInv, PagesAreSound
    <2>3. \A g \in Xex :
            /\ page'[Alias[g]].state = page'[g].state
            /\ page'[Alias[g]].phys = page'[g].phys
            /\ page'[Alias[g]].protect = page'[g].protect
            /\ ~page'[g].explicit
      BY <2>1 DEF TablesInv, PagesAreSound
    <2> QED
      BY <2>2, <2>3 DEF PagesAreSound
  <1> QED
    BY <1>3, <1>4, <1>5, <1>6 DEF TablesInv

LEMMA CommitFailsKeepsTables ==
  ASSUME TablesInv, mgr.fresh \in SUBSET Guest, CommitFails,
         \A g \in mgr.fresh :
            /\ page[g].phys \in Phys /\ own[page[g].phys] = "anonymous"
            /\ maps[page[g].phys] = WithAliases({g})
  PROVE  /\ TablesInv'
         /\ \A g \in Guest : page'[g].phys = IF g \in WithAliases(mgr.fresh) THEN None ELSE page[g].phys
         /\ \A p \in Phys : own'[p] = "free" <=> own[p] = "free"
  <1>1. PICK F \in SUBSET Guest : F = mgr.fresh
    OBVIOUS
  <1>2. PICK W \in SUBSET Guest : W = WithAliases(F)
    BY AliasFacts
  <1>3. \A g \in Guest : page[g] \in PageRecord
    BY DEF TablesInv, TablesType
  <1>4. /\ page' = [g \in Guest |-> IF g \in W THEN [page[g] EXCEPT !.state = "reserved", !.phys = None]
                                    ELSE page[g]]
        /\ maps' = [p \in Phys |-> MapsWithout(p, F)]
        /\ own' = [p \in Phys |-> IF \E g \in F : page[g].phys = p THEN "retired" ELSE own[p]]
        /\ lease' = lease
    BY <1>1, <1>2 DEF CommitFails, Rollback
  <1>5. page' \in [Guest -> PageRecord]
    <2>1. \A g \in Guest : [page[g] EXCEPT !.state = "reserved", !.phys = None] \in PageRecord
      BY <1>3, PageUnbacked
    <2> QED
      BY <1>3, <1>4, <2>1
  <1>6. ASSUME NEW g \in F
        PROVE  ~page[g].explicit
    <2>1. PICK h \in WithAliases({g}) : ~page[h].explicit
      BY <1>1 DEF TablesInv, OwnersAreExact
    <2> QED
      BY <2>1, TwinsAgree
  <1>7. \A g \in W : ~page[g].explicit
    BY <1>2, <1>6, TwinsAgree
  <1>8. /\ \A g \in W : /\ page'[g].state = "reserved" /\ page'[g].phys = None
                        /\ ~page'[g].explicit /\ page'[g].protect = page[g].protect
        /\ \A g \in Guest : g \notin W => page'[g] = page[g]
    <2>1. \A g \in W : LET f == [page[g] EXCEPT !.state = "reserved", !.phys = None]
                       IN  /\ f.state = "reserved" /\ f.phys = None
                           /\ f.explicit = page[g].explicit /\ f.protect = page[g].protect
      BY <1>3, PageUnbacked
    <2> QED
      BY <1>4, <1>7, <2>1
  <1>9. \A g \in Xex : /\ g \in Guest /\ Alias[g] \in Guest
                       /\ Alias[g] \in W <=> g \in W
    BY <1>2, AliasFacts
  <1>10. \A g \in Xex : g \in W =>
           page'[Alias[g]].state = page'[g].state /\ page'[Alias[g]].protect = page'[g].protect
    BY <1>8, <1>9 DEF TablesInv, PagesAreSound
  <1>11. /\ own' \in [Phys -> {"free", "retired", "anonymous", "pending", "explicit"}]
         /\ \A p \in Phys : own'[p] = "explicit" <=> own[p] = "explicit"
         /\ \A p \in Phys : own'[p] = "free" <=> own[p] = "free"
    BY <1>1, <1>4 DEF TablesInv, TablesType
  <1>12. \A p \in Phys : maps'[p] = maps[p] \ W
    BY <1>2, <1>4 DEF MapsWithout
  <1>13. OwnersAreExact'
    <2>1. ASSUME NEW p \in Phys, NEW g \in F, page[g].phys = p
          PROVE  own'[p] = "retired" /\ maps'[p] = {}
      <3>1. WithAliases({g}) \subseteq W
        BY <1>2, WithAliasesGrows
      <3> QED
        BY <1>1, <1>4, <1>12, <2>1, <3>1
    <2>2. ASSUME NEW p \in Phys, \A g \in F : page[g].phys # p
          PROVE  /\ own'[p] = own[p] /\ maps'[p] = maps[p]
                 /\ \A h \in maps[p] : page'[h] = page[h]
      <3>1. \A h \in maps[p] : h \in Guest /\ page[h].phys = p
        BY DEF TablesInv, MapsAreExact
      <3>2. \A h \in maps[p] : h \notin W
        BY <1>2, <2>2, <3>1, TwinsAgree
      <3> QED
        BY <1>4, <1>8, <1>12, <2>2, <3>1, <3>2
    <2>3. ASSUME NEW p \in Phys
          PROVE  /\ own'[p] \in {"free", "retired"} => maps'[p] = {}
                 /\ own'[p] = "anonymous" => \E g \in maps'[p] : ~page'[g].explicit
                 /\ own'[p] = "pending" => maps'[p] # {}
      BY <2>1, <2>2 DEF TablesInv, OwnersAreExact
    <2> QED
      BY <2>3 DEF OwnersAreExact
  <1>14. TablesInv'
    BY <1>2, <1>4, <1>5, <1>8, <1>10, <1>11, <1>13, UnmapTables
  <1> QED
    BY <1>1, <1>2, <1>8, <1>11, <1>14

LEMMA UnmapKeepsTables ==
  ASSUME TablesInv, NEW R \in Ranges, NEW state \in {"free", "reserved"},
         Unmap(R, state), lease' = lease
  PROVE  /\ TablesInv'
         /\ \A g \in Guest : page'[g].phys = IF g \in WithAliases(R) THEN None ELSE page[g].phys
         /\ \A p \in Phys : own'[p] = "free" <=> own[p] = "free"
  <1>1. R \in SUBSET Guest
    BY RangeFacts
  <1>2. PICK W \in SUBSET Guest : W = WithAliases(R)
    BY <1>1, AliasFacts
  <1>3. \A g \in Guest : page[g] \in PageRecord
    BY DEF TablesInv, TablesType
  <1>4. /\ page' = [g \in Guest |->
                      IF g \notin W THEN page[g]
                      ELSE IF state = "free" THEN FreePage
                      ELSE [page[g] EXCEPT !.state = state, !.phys = None, !.explicit = FALSE]]
        /\ maps' = [p \in Phys |-> MapsWithout(p, R)]
        /\ own' = [p \in Phys |-> FreedWith(p, R)]
    BY <1>2 DEF Unmap
  <1>5. FreePage \in PageRecord
    BY DEF FreePage, PageRecord, Protects
  <1>6. page' \in [Guest -> PageRecord]
    <2>1. \A g \in Guest : [page[g] EXCEPT !.state = state, !.phys = None, !.explicit = FALSE] \in PageRecord
      BY <1>3, PageUnmapped
    <2> QED
      BY <1>3, <1>4, <1>5, <2>1
  <1>7. /\ \A g \in W : /\ page'[g].state = state /\ page'[g].phys = None
                        /\ ~page'[g].explicit
                        /\ page'[g].protect = IF state = "free" THEN "none" ELSE page[g].protect
        /\ \A g \in Guest : g \notin W => page'[g] = page[g]
    <2>1. \A g \in W : LET f == [page[g] EXCEPT !.state = state, !.phys = None, !.explicit = FALSE]
                       IN  /\ f.state = state /\ f.phys = None
                           /\ f.explicit = FALSE /\ f.protect = page[g].protect
      <3>1. ASSUME NEW g \in W
            PROVE  LET f == [page[g] EXCEPT !.state = state, !.phys = None, !.explicit = FALSE]
                   IN  /\ f.state = state /\ f.phys = None
                       /\ f.explicit = FALSE /\ f.protect = page[g].protect
        <4>1. page[g] \in PageRecord
          BY <1>3
        <4> QED
          BY <4>1, PageUnmapped, ZenonT(30)
      <3> QED
        BY <3>1
    <2>2. /\ FreePage.state = "free" /\ FreePage.phys = None
          /\ FreePage.explicit = FALSE /\ FreePage.protect = "none"
      BY DEF FreePage
    <2>3. \A g \in W : page'[g] = IF state = "free" THEN FreePage
                         ELSE [page[g] EXCEPT !.state = state, !.phys = None, !.explicit = FALSE]
      BY <1>4
    <2>4. \A g \in Guest : g \notin W => page'[g] = page[g]
      BY <1>4
    <2> QED
      BY <2>1, <2>2, <2>3, <2>4
  <1>8. \A g \in Xex : /\ g \in Guest /\ Alias[g] \in Guest
                       /\ Alias[g] \in W <=> g \in W
    BY <1>1, <1>2, AliasFacts
  <1>9. \A g \in Xex : g \in W =>
           page'[Alias[g]].state = page'[g].state /\ page'[Alias[g]].protect = page'[g].protect
    BY <1>7, <1>8 DEF TablesInv, PagesAreSound
  <1>10. \A p \in Phys : MapsWithout(p, R) = maps[p] \ W /\ maps'[p] = maps[p] \ W
    BY <1>2, <1>4 DEF MapsWithout
  <1>11. /\ own' \in [Phys -> {"free", "retired", "anonymous", "pending", "explicit"}]
         /\ \A p \in Phys : own'[p] = "explicit" <=> own[p] = "explicit"
         /\ \A p \in Phys : own'[p] = "free" <=> own[p] = "free"
    BY <1>4 DEF TablesInv, TablesType, FreedWith
  <1>12. OwnersAreExact'
    <2>1. SUFFICES ASSUME NEW p \in Phys
                   PROVE  /\ own'[p] \in {"free", "retired"} => maps'[p] = {}
                          /\ own'[p] = "anonymous" => \E g \in maps'[p] : ~page'[g].explicit
                          /\ own'[p] = "pending" => maps'[p] # {}
      BY DEF OwnersAreExact
    <2>2. \A h \in maps[p] : h \in Guest /\ page[h].phys = p
      BY DEF TablesInv, MapsAreExact
    <2>3. CASE /\ own[p] \in {"anonymous", "pending"} /\ maps[p] # maps[p] \ W
               /\ own[p] = "pending" \/ \E g \in R : page[g].phys = p /\ ~page[g].explicit
      <3>1. own'[p] = IF maps[p] \ W = {} THEN "retired" ELSE "pending"
        BY <1>4, <1>10, <2>3 DEF FreedWith
      <3> QED
        BY <1>10, <3>1
    <2>4. CASE ~(/\ own[p] \in {"anonymous", "pending"} /\ maps[p] # maps[p] \ W
                 /\ own[p] = "pending" \/ \E g \in R : page[g].phys = p /\ ~page[g].explicit)
      <3>1. own'[p] = own[p]
        BY <1>4, <1>10, <2>4 DEF FreedWith
      <3>2. own[p] \in {"free", "retired"} => maps'[p] = {}
        BY <1>10 DEF TablesInv, OwnersAreExact
      <3>3. own[p] = "pending" => maps'[p] # {}
        BY <1>10, <2>4 DEF TablesInv, OwnersAreExact
      <3>4. ASSUME own[p] = "anonymous"
            PROVE  \E g \in maps'[p] : ~page'[g].explicit
        <4>1. PICK h \in maps[p] : ~page[h].explicit
          BY <3>4 DEF TablesInv, OwnersAreExact
        <4>2. h \notin W
          <5>1. SUFFICES ASSUME h \in W PROVE FALSE
            OBVIOUS
          <5>2. maps[p] # maps[p] \ W
            BY <4>1, <5>1
          <5>3. PICK g \in R : page[h].phys = page[g].phys /\ (h = g \/ ~page[g].explicit)
            BY <1>1, <1>2, <5>1, TwinsAgree
          <5> QED
            BY <2>2, <2>4, <3>4, <4>1, <5>2, <5>3
        <4> QED
          BY <1>7, <1>10, <2>2, <4>1, <4>2
      <3> QED
        BY <3>1, <3>2, <3>3, <3>4
    <2> QED
      BY <2>3, <2>4
  <1>13. TablesInv'
    <2>1. \A g \in W : page'[g].phys = None /\ page'[g].state # "committed" /\ ~page'[g].explicit
      BY <1>7
    <2> QED
      BY <1>1, <1>2, <1>4, <1>6, <1>7, <1>9, <1>11, <1>12, <2>1, UnmapTables
  <1> QED
    BY <1>2, <1>7, <1>11, <1>13

LEMMA MapPagesKeepsTables ==
  ASSUME TablesInv, mgr.range \in Ranges, mgr.range \subseteq Virtual, mgr.target \in Runs,
         Cardinality(mgr.range) = Cardinality(mgr.target), mgr.protect \in Protects,
         \A g \in mgr.range : page[g].state = "free", MapPages
  PROVE  /\ TablesInv'
         /\ \A g \in Guest : g \notin mgr.range => page'[g].phys = page[g].phys
         /\ \A p \in Phys : own'[p] = "free" => own[p] = "free"
         /\ \A p \in Phys : p \notin mgr.target => lease'[p] = lease[p]
  <1>1. PICK R \in Ranges : R = mgr.range
    OBVIOUS
  <1>2. PICK T \in Runs : T = mgr.target
    OBVIOUS
  <1>3. R \in SUBSET Guest /\ T \in SUBSET Phys /\ R \subseteq Virtual
    BY <1>1, RangeFacts, RunFacts
  <1>4. PICK to : to = [g \in R |-> g - Least(R) + Least(T)]
    OBVIOUS
  <1>5. to \in [R -> T]
    <2>1. PICK n \in Nat \ {0} : R = Least(R) .. (Least(R) + n - 1) /\ Cardinality(R) = n
      BY RangeFacts
    <2>2. PICK m \in Nat \ {0} : T = Least(T) .. (Least(T) + m - 1) /\ Cardinality(T) = m
      BY RunFacts
    <2>3. PICK a, b : a = Least(R) /\ b = Least(T)
      OBVIOUS
    <2>4. a \in R /\ b \in T
      BY <2>3, RangeFacts, RunFacts
    <2>5. a \in Nat /\ b \in Nat /\ n = m
      BY <1>1, <1>2, <1>3, <2>1, <2>2, <2>4, PagesAreNumbers
    <2>6. \A x \in a .. (a + n - 1) : x - a + b \in b .. (b + n - 1)
      BY <2>5
    <2>7. \A g \in R : g - a + b \in T
      BY <2>1, <2>2, <2>3, <2>5, <2>6
    <2> QED
      BY <1>4, <2>3, <2>7
  <1>6. /\ \A p \in T : own[p] # "retired"
        /\ own' = [p \in Phys |-> IF p \in T /\ own[p] = "free" THEN "explicit" ELSE own[p]]
        /\ lease' = [p \in Phys |->
                       IF p \in T /\ own[p] = "free"
                         THEN [alloc |-> FreeRun(p, T), protect |-> mgr.protect]
                         ELSE lease[p]]
        /\ page' = [g \in Guest |->
                      IF g \in R
                        THEN [state |-> "committed", phys |-> to[g],
                              protect |-> mgr.protect, explicit |-> TRUE, alloc |-> R]
                        ELSE page[g]]
        /\ maps' = [p \in Phys |-> maps[p] \cup {g \in R : to[g] = p}]
    <2>1. \A g \in R : to[g] = g - Least(R) + Least(T)
      BY <1>4
    <2>2. page' = [g \in Guest |->
                      IF g \in R
                        THEN [state |-> "committed", phys |-> g - Least(R) + Least(T),
                              protect |-> mgr.protect, explicit |-> TRUE, alloc |-> R]
                        ELSE page[g]]
      BY <1>1, <1>2 DEF MapPages
    <2>3. maps' = [p \in Phys |-> maps[p] \cup {g \in R : g - Least(R) + Least(T) = p}]
      BY <1>1, <1>2 DEF MapPages
    <2>4. \A p \in Phys : {g \in R : g - Least(R) + Least(T) = p} = {g \in R : to[g] = p}
      BY <2>1
    <2>5. /\ \A p \in T : own[p] # "retired"
          /\ own' = [p \in Phys |-> IF p \in T /\ own[p] = "free" THEN "explicit" ELSE own[p]]
          /\ lease' = [p \in Phys |->
                       IF p \in T /\ own[p] = "free"
                         THEN [alloc |-> FreeRun(p, T), protect |-> mgr.protect]
                         ELSE lease[p]]
      BY <1>2 DEF MapPages
    <2> QED
      BY <2>1, <2>2, <2>3, <2>4, <2>5
  <1>7. \A g \in R : page[g].phys = None
    BY <1>1, <1>3 DEF TablesInv, PagesAreSound
  <1>8. /\ page' \in [Guest -> PageRecord]
        /\ \A g \in R : page'[g].state = "committed" /\ page'[g].phys = to[g] /\ page'[g].phys \in Phys
        /\ \A g \in Guest : g \notin R => page'[g] = page[g]
    <2>1. \A g \in R : [state |-> "committed", phys |-> to[g],
                        protect |-> mgr.protect, explicit |-> TRUE, alloc |-> R] \in PageRecord
      BY <1>3, <1>5 DEF PageRecord
    <2>2. \A g \in Guest : page[g] \in PageRecord
      BY DEF TablesInv, TablesType
    <2> QED
      BY <1>3, <1>5, <1>6, <2>1, <2>2
  <1>9. /\ \A p \in Phys : own'[p] = IF p \in T /\ own[p] = "free" THEN "explicit" ELSE own[p]
        /\ \A p \in Phys : p \in T /\ own[p] = "free" => lease'[p].alloc = FreeRun(p, T)
        /\ \A p \in Phys : ~(p \in T /\ own[p] = "free") => lease'[p] = lease[p]
        /\ \A p \in Phys : maps'[p] = maps[p] \cup {g \in R : to[g] = p}
    BY <1>6
  <1>10. TablesType'
    <2>1. own' \in [Phys -> {"free", "retired", "anonymous", "pending", "explicit"}]
      BY <1>6 DEF TablesInv, TablesType
    <2>2. maps' \in [Phys -> SUBSET Guest]
      BY <1>3, <1>6 DEF TablesInv, TablesType
    <2>3. \A p \in T : own[p] = "free" => [alloc |-> FreeRun(p, T), protect |-> mgr.protect] \in LeaseRecord
      BY <1>3, FreeRuns DEF LeaseRecord
    <2>4. lease' \in [Phys -> LeaseRecord]
      BY <1>6, <2>3 DEF TablesInv, TablesType
    <2> QED
      BY <1>8, <2>1, <2>2, <2>4 DEF TablesType
  <1>11. ASSUME NEW p \in Phys, NEW h \in maps[p]
         PROVE  h \in Guest /\ h \notin R /\ page'[h] = page[h] /\ page[h].phys = p
    <2>1. h \in Guest /\ page[h].phys = p /\ p # None
      BY PagesAreNumbers DEF TablesInv, MapsAreExact
    <2>2. h \notin R
      BY <1>7, <2>1
    <2> QED
      BY <1>8, <2>1, <2>2
  <1>12. MapsAreExact'
    <2>1. ASSUME NEW p \in Phys, NEW h \in Guest
          PROVE  h \in maps'[p] <=> page'[h].phys = p
      <3>1. CASE h \in R
        <4>1. h \notin maps[p] /\ page'[h].phys = to[h]
          BY <1>8, <1>11, <3>1
        <4> QED
          BY <1>9, <3>1, <4>1
      <3>2. CASE h \notin R
        <4>1. page[h].phys = p <=> h \in maps[p]
          BY DEF TablesInv, MapsAreExact
        <4>2. page'[h] = page[h]
          BY <1>8, <3>2
        <4> QED
          BY <1>9, <3>2, <4>1, <4>2
      <3> QED
        BY <3>1, <3>2
    <2>2. ASSUME NEW p \in Phys
          PROVE  maps'[p] = {h \in Guest : page'[h].phys = p}
      <3>1. maps'[p] \subseteq Guest
        BY <1>10 DEF TablesType
      <3>2. \A h \in Guest : h \in maps'[p] <=> page'[h].phys = p
        BY <2>1
      <3> QED
        BY <3>1, <3>2, Zenon
    <2> QED
      BY <2>2 DEF MapsAreExact
  <1>13. OwnersAreExact'
    <2>1. ASSUME NEW p \in Phys
          PROVE  /\ own'[p] \in {"free", "retired"} => maps'[p] = {}
                 /\ own'[p] = "anonymous" => \E h \in maps'[p] : ~page'[h].explicit
                 /\ own'[p] = "pending" => maps'[p] # {}
      <3>1. own'[p] \in {"free", "retired"} => maps'[p] = {}
        <4>1. own'[p] \in {"free", "retired"} => own[p] = own'[p] /\ p \notin T
          BY <1>6, <1>9
        <4>2. p \notin T => {g \in R : to[g] = p} = {}
          BY <1>5
        <4> QED
          BY <1>9, <4>1, <4>2 DEF TablesInv, OwnersAreExact
      <3>2. own'[p] \in {"anonymous", "pending"} => own[p] = own'[p]
        BY <1>9
      <3>3. maps[p] \subseteq maps'[p] /\ \A h \in maps[p] : page'[h] = page[h]
        BY <1>9, <1>11
      <3>4. /\ own[p] = "anonymous" => \E h \in maps[p] : ~page[h].explicit
            /\ own[p] = "pending" => maps[p] # {}
        BY DEF TablesInv, OwnersAreExact
      <3> QED
        BY <3>1, <3>2, <3>3, <3>4
    <2> QED
      BY <2>1 DEF OwnersAreExact
  <1>14. LeasesAreExact'
    <2>1. ASSUME NEW p \in Phys
          PROVE  /\ own[p] # "explicit" => lease[p].alloc = {} /\ lease[p] = NoLease
                 /\ own[p] = "explicit" => p \in lease[p].alloc
                 /\ lease[p].alloc \subseteq Phys
                 /\ \A q \in lease[p].alloc : lease[q].alloc = lease[p].alloc
      BY DEF TablesInv, LeasesAreExact, NoLease, TablesType, LeaseRecord
    <2>2. ASSUME NEW p \in Phys, p \in T, own[p] = "free"
          PROVE  /\ own'[p] = "explicit" /\ p \in lease'[p].alloc
                 /\ \A q \in lease'[p].alloc : lease'[q].alloc = lease'[p].alloc
      <3>1. /\ p \in FreeRun(p, T)
            /\ \A q \in FreeRun(p, T) : q \in T /\ own[q] = "free" /\ FreeRun(q, T) = FreeRun(p, T)
        BY <1>3, <2>2, FreeRuns
      <3> QED
        BY <1>3, <1>9, <2>2, <3>1
    <2>3. ASSUME NEW p \in Phys, ~(p \in T /\ own[p] = "free")
          PROVE  /\ own'[p] # "explicit" => lease'[p] = NoLease
                 /\ own'[p] = "explicit" => p \in lease'[p].alloc
                 /\ \A q \in lease'[p].alloc : lease'[q].alloc = lease'[p].alloc
      <3>1. own'[p] = own[p] /\ lease'[p] = lease[p]
        BY <1>9, <2>3
      <3>2. \A q \in lease[p].alloc : q \in Phys /\ own[q] # "free"
        BY <2>1
      <3>3. \A q \in lease[p].alloc : lease'[q] = lease[q]
        BY <1>9, <3>2
      <3> QED
        BY <2>1, <3>1, <3>3
    <2> QED
      BY <2>2, <2>3 DEF LeasesAreExact
  <1>15. PagesAreSound'
    <2>1. ASSUME NEW h \in Guest
          PROVE  /\ page'[h].state = "committed" <=> page'[h].phys # None
                 /\ page'[h].explicit => page'[h].state = "committed"
      <3>1. CASE h \in R
        BY <1>8, <3>1, PagesAreNumbers
      <3>2. CASE h \notin R
        BY <1>8, <3>2 DEF TablesInv, PagesAreSound
      <3> QED
        BY <3>1, <3>2
    <2>2. ASSUME NEW h \in Xex
          PROVE  /\ page'[Alias[h]].state = page'[h].state
                 /\ page'[Alias[h]].phys = page'[h].phys
                 /\ page'[Alias[h]].protect = page'[h].protect
                 /\ ~page'[h].explicit
      <3>1. /\ h \in Guest /\ Alias[h] \in Guest /\ h \notin R /\ Alias[h] \notin R
        BY <1>3, AliasFacts, PagesAreNumbers, ZenonT(30)
      <3>2. page'[h] = page[h] /\ page'[Alias[h]] = page[Alias[h]]
        BY <1>8, <3>1
      <3> QED
        BY <3>2 DEF TablesInv, PagesAreSound
    <2> QED
      BY <2>1, <2>2 DEF PagesAreSound
  <1>16. TablesInv'
    BY <1>10, <1>12, <1>13, <1>14, <1>15 DEF TablesInv
  <1> QED
    BY <1>1, <1>2, <1>8, <1>9, <1>16

-----------------------------------------------------------------------------
(* The operation under way.                                                *)

LEMMA IdleFacts ==
  /\ Idle \in Operation
  /\ Idle.at = "idle" /\ Idle.next = "idle" /\ Idle.range = {} /\ Idle.target = {}
  /\ Idle.protect = "none" /\ Idle.fresh = {} /\ Idle.left = {} /\ Idle.change = {}
  /\ Idle.jobs = <<>> /\ Idle.views = {}
  BY DEF Idle, Operation, Protects

LEMMA PublishFacts ==
  ASSUME mgr \in Operation, NEW jobs \in Seq(SUBSET Guest), jobs # <<>>,
         NEW views \in SUBSET Phys, NEW next \in {"idle", "commit"}, NEW m,
         m = Publish(jobs, views, next)
  PROVE  /\ m \in Operation /\ m.at = "publish" /\ m.next = next /\ m.left = Head(jobs)
         /\ m.change = {} /\ m.jobs = Tail(jobs) /\ m.views = views
         /\ m.range = mgr.range /\ m.fresh = mgr.fresh
  <1>1. Head(jobs) \in SUBSET Guest /\ Tail(jobs) \in Seq(SUBSET Guest)
    BY JobFacts
  <1> QED
    BY <1>1 DEF Publish, Operation

\* An operation that begins to publish, or goes on publishing.
LEMMA StartsPublishing ==
  ASSUME mgr' \in Operation, mgr'.at = "publish", mgr'.next \in {"idle", "commit"},
         mgr'.change \cap mgr'.left = {}, \A g \in mgr'.change : ~hot'[g].direct,
         mgr'.next = "commit" => mgr'.fresh = {} /\ mgr'.range \in Ranges,
         \A g \in Guest : g \notin mgr'.left \cup JobPages(mgr'.jobs) => hot'[g].phys = page'[g].phys,
         \A p \in Phys : p \notin mgr'.views => view'[p] = lease'[p].protect
  PROVE  ProgressInv'
  <1>1. ~In("map")' /\ ~In("backing")' /\ ~Committing' /\ Publishing'
    BY DEF In, Committing, Publishing
  <1>2. Stale' = mgr'.left \cup JobPages(mgr'.jobs)
    BY DEF Stale, JobPages
  <1>3. OperationInv' /\ CommitInv'
    BY <1>1 DEF OperationInv, CommitInv
  <1>4. EntriesInv' /\ ViewsInv' /\ RemapInv' /\ ReclaimInv'
    BY <1>1, <1>2 DEF EntriesInv, ViewsInv, RemapInv, ReclaimInv
  <1> QED
    BY <1>3, <1>4 DEF ProgressInv

LEMMA StartsViews ==
  ASSUME mgr' \in Operation, mgr'.at = "views", mgr'.next \in {"idle", "commit"},
         mgr'.next = "commit" => mgr'.fresh = {} /\ mgr'.range \in Ranges,
         \A g \in Guest : hot'[g].phys = page'[g].phys,
         \A p \in Phys : p \notin mgr'.views => view'[p] = lease'[p].protect
  PROVE  ProgressInv'
  <1>1. ~In("map")' /\ ~In("backing")' /\ ~Committing' /\ Publishing'
    BY DEF In, Committing, Publishing
  <1>2. OperationInv' /\ CommitInv'
    BY <1>1 DEF OperationInv, CommitInv
  <1>3. EntriesInv' /\ ViewsInv' /\ RemapInv' /\ ReclaimInv'
    BY <1>1 DEF EntriesInv, ViewsInv, RemapInv, ReclaimInv
  <1> QED
    BY <1>2, <1>3 DEF ProgressInv

LEMMA EndsIdle ==
  ASSUME mgr' = Idle, \A g \in Guest : hot'[g].phys = page'[g].phys,
         \A p \in Phys : view'[p] = lease'[p].protect
  PROVE  ProgressInv'
  <1>1. mgr' \in Operation /\ mgr'.at = "idle" /\ mgr'.views = {}
    BY IdleFacts
  <1>2. ~In("map")' /\ ~In("backing")' /\ ~Committing' /\ ~Publishing'
    BY <1>1 DEF In, Committing, Publishing
  <1>3. OperationInv' /\ CommitInv'
    BY <1>1, <1>2 DEF OperationInv, CommitInv
  <1>4. EntriesInv' /\ ViewsInv' /\ RemapInv' /\ ReclaimInv'
    BY <1>1, <1>2 DEF EntriesInv, ViewsInv, RemapInv, ReclaimInv
  <1> QED
    BY <1>3, <1>4 DEF ProgressInv

\* While mutex_ is free everything is published.
LEMMA IdleIsPublished ==
  ASSUME ProgressInv, MutexFree
  PROVE  /\ mgr = Idle /\ mgr \in Operation /\ mgr.range = {} /\ mgr.fresh = {}
         /\ \A g \in Guest : hot[g].phys = page[g].phys
         /\ \A p \in Phys : view[p] = lease[p].protect
  <1>1. mgr = Idle /\ mgr.at = "idle"
    BY DEF MutexFree, ProgressInv, OperationInv
  <1>2. mgr \in Operation /\ mgr.range = {} /\ mgr.fresh = {} /\ mgr.views = {}
    BY <1>1, IdleFacts
  <1>3. Stale = {}
    BY <1>1 DEF Stale, Committing, In
  <1> QED
    BY <1>1, <1>2, <1>3 DEF ProgressInv, EntriesInv, ViewsInv

\* A step that no access sees.
LEMMA AccessesAreKept ==
  ASSUME AccessInv, UNCHANGED <<published, rd>>,
         \A p \in Phys : own'[p] = "free" => own[p] = "free"
  PROVE  AccessInv'
  <1>1. PublishedType' /\ AccessType' /\ DirectInv'
    BY DEF AccessInv, published, PublishedType, AccessType, DirectInv
  <1>2. BackedInv'
    <2>1. \A g \in Guest : hot[g].phys # None => hot[g].phys \in Phys
      BY DEF AccessInv, PublishedType, Entry
    <2> QED
      BY <2>1 DEF AccessInv, BackedInv, published
  <1>3. AccessesAreExact'
    BY DEF AccessInv, AccessType, AccessesAreExact, NoRecycledAccess, published
  <1> QED
    BY <1>1, <1>2, <1>3 DEF AccessInv

-----------------------------------------------------------------------------
(* reserve, decommit, release and protect.                                 *)

LEMMA ReserveKeeps ==
  ASSUME PageInv, NEW R \in Ranges, NEW protect \in Asks, Reserve(R, protect)
  PROVE  PageInv'
  <1>1. protect \in Protects
    BY PagesAreNumbers
  <1>2. TablesInv' /\ \A g \in Guest : page'[g].phys = page[g].phys
    BY <1>1, ReserveKeepsTables DEF PageInv, Reserve
  <1>3. AccessInv'
    BY AccessesAreKept DEF PageInv, Reserve
  <1>4. ProgressInv'
    <2>1. /\ mgr \in Operation
          /\ \A g \in Guest : hot[g].phys = page[g].phys
          /\ \A p \in Phys : view[p] = lease[p].protect
      BY IdleIsPublished DEF PageInv, Reserve
    <2>2. mgr' = Publish(BothViews(R), {}, "idle") /\ hot' = hot /\ view' = view /\ lease' = lease
      BY DEF Reserve, published
    <2>3. mgr' \in Operation /\ mgr'.at = "publish" /\ mgr'.next = "idle" /\ mgr'.change = {}
      BY <2>1, <2>2, BothViewsCover, PublishFacts
    <2> QED
      BY <1>2, <2>1, <2>2, <2>3, StartsPublishing
  <1> QED
    BY <1>2, <1>3, <1>4 DEF PageInv

LEMMA CommitFreeKeeps ==
  ASSUME PageInv, NEW R \in Ranges, NEW protect \in Asks, CommitFree(R, protect)
  PROVE  PageInv'
  <1>1. protect \in Protects /\ R \in SUBSET Guest
    BY PagesAreNumbers, RangeFacts
  <1>2. TablesInv' /\ \A g \in Guest : page'[g].phys = page[g].phys
    BY <1>1, ReserveKeepsTables DEF PageInv, CommitFree
  <1>3. AccessInv'
    BY AccessesAreKept DEF PageInv, CommitFree
  <1>4. ProgressInv'
    <2>1. /\ mgr \in Operation /\ mgr.fresh = {}
          /\ \A g \in Guest : hot[g].phys = page[g].phys
          /\ \A p \in Phys : view[p] = lease[p].protect
      BY IdleIsPublished DEF PageInv, CommitFree
    <2>2. PICK m : m = Publish(BothViews(R), {}, "commit")
      OBVIOUS
    <2>3. /\ m \in Operation /\ m.at = "publish" /\ m.next = "commit" /\ m.change = {}
          /\ m.fresh = {}
      BY <2>1, <2>2, BothViewsCover, PublishFacts
    <2>4. mgr' = [m EXCEPT !.range = R, !.protect = protect]
      BY <2>2 DEF CommitFree
    <2>5. /\ mgr' \in Operation /\ mgr'.at = "publish" /\ mgr'.next = "commit" /\ mgr'.change = {}
          /\ mgr'.fresh = {} /\ mgr'.range = R
      BY <1>1, <2>3, <2>4 DEF Operation
    <2>6. hot' = hot /\ view' = view /\ lease' = lease
      BY DEF CommitFree, published
    <2> QED
      BY <1>2, <2>1, <2>5, <2>6, StartsPublishing
  <1> QED
    BY <1>2, <1>3, <1>4 DEF PageInv

LEMMA UnmapKeeps ==
  ASSUME PageInv, NEW R \in Ranges, NEW state \in {"free", "reserved"}, MutexFree,
         Unmap(R, state), mgr' = Publish(BothViews(R), {}, "idle"),
         UNCHANGED <<lease, published, pending, rd>>
  PROVE  PageInv'
  <1>1. /\ TablesInv'
        /\ \A g \in Guest : page'[g].phys = IF g \in WithAliases(R) THEN None ELSE page[g].phys
        /\ \A p \in Phys : own'[p] = "free" <=> own[p] = "free"
    BY UnmapKeepsTables DEF PageInv
  <1>2. AccessInv'
    BY <1>1, AccessesAreKept DEF PageInv
  <1>3. ProgressInv'
    <2>1. /\ mgr \in Operation
          /\ \A g \in Guest : hot[g].phys = page[g].phys
          /\ \A p \in Phys : view[p] = lease[p].protect
      BY IdleIsPublished DEF PageInv
    <2>2. hot' = hot /\ view' = view /\ lease' = lease
      BY DEF published
    <2>3. /\ mgr' \in Operation /\ mgr'.at = "publish" /\ mgr'.next = "idle" /\ mgr'.change = {}
          /\ mgr'.left \cup JobPages(mgr'.jobs) = WithAliases(R)
      <3>1. /\ BothViews(R) \in Seq(SUBSET Guest) /\ BothViews(R) # <<>>
            /\ Head(BothViews(R)) \cup JobPages(Tail(BothViews(R))) = WithAliases(R)
        BY BothViewsCover
      <3>2. /\ mgr' \in Operation /\ mgr'.at = "publish" /\ mgr'.next = "idle" /\ mgr'.change = {}
            /\ mgr'.left = Head(BothViews(R)) /\ mgr'.jobs = Tail(BothViews(R))
        BY <2>1, <3>1, PublishFacts
      <3> QED
        BY <3>1, <3>2
    <2>4. \A g \in Guest : g \notin mgr'.left \cup JobPages(mgr'.jobs) => hot'[g].phys = page'[g].phys
      BY <1>1, <2>1, <2>2, <2>3
    <2> QED
      BY <2>1, <2>2, <2>3, <2>4, StartsPublishing
  <1> QED
    BY <1>1, <1>2, <1>3 DEF PageInv

LEMMA ProtectKeeps ==
  ASSUME PageInv, NEW R \in Ranges, NEW protect \in Protects, Protect(R, protect)
  PROVE  PageInv'
  <1>1. R \in SUBSET Guest
    BY RangeFacts
  <1>2. TablesInv' /\ \A g \in Guest : page'[g].phys = page[g].phys
    BY <1>1, ProtectKeepsTables DEF PageInv, Protect
  <1>3. AccessInv'
    BY AccessesAreKept DEF PageInv, Protect
  <1>4. ProgressInv'
    <2>1. /\ mgr \in Operation
          /\ \A g \in Guest : hot[g].phys = page[g].phys
          /\ \A p \in Phys : view[p] = lease[p].protect
      BY IdleIsPublished DEF PageInv, Protect
    <2>2. mgr' = Publish(PageByPage(R), {}, "idle") /\ hot' = hot /\ view' = view /\ lease' = lease
      BY DEF Protect, published
    <2>3. mgr' \in Operation /\ mgr'.at = "publish" /\ mgr'.next = "idle" /\ mgr'.change = {}
      BY <2>1, <2>2, PageByPageIsSound, PublishFacts
    <2> QED
      BY <1>2, <2>1, <2>2, <2>3, StartsPublishing
  <1> QED
    BY <1>2, <1>3, <1>4 DEF PageInv

-----------------------------------------------------------------------------
(* Publication.                                                            *)

LEMMA EntryFacts ==
  ASSUME TablesInv, NEW g \in Guest, NEW direct \in BOOLEAN
  PROVE  LET entry == [MakeHotEntry(g) EXCEPT !.direct = direct]
         IN  /\ entry \in Entry /\ entry.phys = page[g].phys /\ entry.direct = direct
             /\ MakeHotEntry(g).phys = page[g].phys
  <1>1. page[g] \in PageRecord /\ (page[g].state = "committed" <=> page[g].phys # None)
    BY DEF TablesInv, TablesType, PagesAreSound
  <1>2. CASE page[g].state = "committed"
    <2>1. MakeHotEntry(g) = [phys |-> page[g].phys, protect |-> page[g].protect, direct |-> FALSE]
      BY <1>2 DEF MakeHotEntry
    <2> QED
      BY <1>1, <2>1 DEF Entry, PageRecord
  <1>3. CASE page[g].state # "committed"
    <2>1. MakeHotEntry(g) = [phys |-> None, protect |-> "none", direct |-> FALSE]
      BY <1>3 DEF MakeHotEntry, NoEntry
    <2> QED
      BY <1>1, <1>3, <2>1 DEF Entry, Protects
  <1> QED
    BY <1>2, <1>3

\* A page that backs another one is in use.
LEMMA BackingIsUsed ==
  ASSUME TablesInv, NEW g \in Guest, page[g].phys # None
  PROVE  page[g].phys \in Phys /\ own[page[g].phys] \notin {"free", "retired"}
  <1>1. page[g].phys \in Phys
    BY DEF TablesInv, TablesType, PageRecord
  <1>2. g \in maps[page[g].phys]
    BY <1>1 DEF TablesInv, MapsAreExact
  <1> QED
    BY <1>1, <1>2 DEF TablesInv, OwnersAreExact

LEMMA PublishEntryKeeps ==
  ASSUME PageInv, PublishEntry
  PROVE  PageInv'
  <1>1. /\ mgr \in Operation /\ mgr.at = "publish" /\ mgr.left # {} /\ mgr.left \in SUBSET Guest
        /\ mgr.next \in {"idle", "commit"} /\ TablesInv
        /\ mgr.next = "commit" => mgr.fresh = {} /\ mgr.range \in Ranges
        /\ mgr.jobs \in Seq(SUBSET Guest) /\ mgr.change \in SUBSET Guest
    BY DEF PageInv, ProgressInv, OperationInv, Publishing, PublishEntry, Operation
  <1>2. PICK g : g = Least(mgr.left)
    OBVIOUS
  <1>3. g \in mgr.left /\ g \in Guest
    <2>1. mgr.left \in SUBSET Nat
      BY <1>1, PagesAreNumbers
    <2> QED
      BY <1>1, <1>2, <2>1, LeastIsLeast
  <1>4. PICK b \in BOOLEAN : b = Matches(g)
    BY DEF Matches, Eligible
  <1>5. PICK entry : entry = [MakeHotEntry(g) EXCEPT !.direct = b]
    OBVIOUS
  <1>6. /\ hot' = [hot EXCEPT ![g] = entry]
        /\ mgr' = [mgr EXCEPT !.left = @ \ {g},
                      !.change = IF ~b /\ (Eligible(g) \/ aperture[g] # None)
                                   THEN @ \cup {g} ELSE @]
        /\ UNCHANGED <<page, own, maps, lease, view, aperture, pending, rd>>
    BY <1>2, <1>4, <1>5 DEF PublishEntry, tables
  <1>7. entry \in Entry /\ entry.phys = page[g].phys /\ entry.direct = b
    BY <1>1, <1>3, <1>5, EntryFacts
  <1>8. /\ hot' \in [Guest -> Entry] /\ hot'[g] = entry
        /\ \A h \in Guest : h # g => hot'[h] = hot[h]
    BY <1>3, <1>6, <1>7 DEF PageInv, AccessInv, PublishedType
  <1>9. PICK c : c = IF ~b /\ (Eligible(g) \/ aperture[g] # None)
                          THEN mgr.change \cup {g} ELSE mgr.change
    OBVIOUS
  <1>10. c \in SUBSET Guest /\ c \subseteq mgr.change \cup {g} /\ (g \in c => g \in mgr.change \/ ~b)
    BY <1>1, <1>3, <1>9
  <1>11. /\ mgr' \in Operation /\ mgr'.at = "publish" /\ mgr'.next = mgr.next
         /\ mgr'.left = mgr.left \ {g} /\ mgr'.change = c /\ mgr'.jobs = mgr.jobs
         /\ mgr'.fresh = mgr.fresh /\ mgr'.range = mgr.range /\ mgr'.views = mgr.views
    <2>1. mgr' = [mgr EXCEPT !.left = mgr.left \ {g}, !.change = c]
      BY <1>1, <1>6, <1>9 DEF Operation
    <2> QED
      BY <1>1, <1>10, <2>1 DEF Operation
  <1>12. TablesInv'
    BY <1>1, <1>6 DEF TablesInv, TablesType, MapsAreExact, OwnersAreExact, LeasesAreExact, PagesAreSound
  <1>13. AccessInv'
    <2>1. PublishedType' /\ AccessType'
      BY <1>6, <1>8 DEF PageInv, AccessInv, PublishedType, AccessType
    <2>2. BackedInv'
      <3>1. entry.phys # None => own[entry.phys] # "free"
        BY <1>1, <1>3, <1>7, BackingIsUsed
      <3> QED
        BY <1>6, <1>8, <3>1 DEF PageInv, AccessInv, BackedInv
    <2>3. DirectInv'
      <3>1. entry.direct => entry.phys # None /\ aperture[g] = entry.phys
        BY <1>1, <1>3, <1>4, <1>7, EntryFacts DEF Matches, Eligible
      <3> QED
        BY <1>6, <1>8, <3>1 DEF PageInv, AccessInv, DirectInv
    <2>4. AccessesAreExact'
      BY <1>6 DEF PageInv, AccessInv, AccessesAreExact, NoRecycledAccess
    <2> QED
      BY <2>1, <2>2, <2>3, <2>4 DEF AccessInv
  <1>14. ProgressInv'
    <2>1. mgr.change \cap mgr.left = {} /\ \A h \in mgr.change : ~hot[h].direct
      BY <1>1 DEF PageInv, ProgressInv, RemapInv
    <2>2. mgr'.change \cap mgr'.left = {}
      BY <1>10, <1>11, <2>1
    <2>3. \A h \in mgr'.change : ~hot'[h].direct
      BY <1>3, <1>7, <1>8, <1>10, <1>11, <2>1
    <2>4. \A h \in Guest : h \notin mgr.left \cup JobPages(mgr.jobs) => hot[h].phys = page[h].phys
      BY <1>1 DEF PageInv, ProgressInv, EntriesInv, Stale
    <2>5. \A h \in Guest : h \notin mgr'.left \cup JobPages(mgr'.jobs) => hot'[h].phys = page'[h].phys
      BY <1>6, <1>7, <1>8, <1>11, <2>4
    <2>6. \A p \in Phys : p \notin mgr'.views => view'[p] = lease'[p].protect
      BY <1>6, <1>11 DEF PageInv, ProgressInv, ViewsInv
    <2> QED
      BY <1>1, <1>11, <2>2, <2>3, <2>5, <2>6, StartsPublishing
  <1> QED
    BY <1>12, <1>13, <1>14 DEF PageInv

\* The manager moves on and changes nothing else.
LEMMA QuietKeeps ==
  ASSUME PageInv, UNCHANGED <<tables, published, rd>>, ProgressInv'
  PROVE  PageInv'
  <1>1. TablesInv'
    BY DEF PageInv, TablesInv, TablesType, MapsAreExact, OwnersAreExact, LeasesAreExact,
           PagesAreSound, tables
  <1>2. AccessInv'
    BY AccessesAreKept DEF PageInv, tables
  <1> QED
    BY <1>1, <1>2 DEF PageInv

LEMMA NextJobKeeps ==
  ASSUME PageInv, mgr.at \in {"publish", "remap"}, mgr.left = {}, mgr' = NextJob,
         UNCHANGED <<tables, published, pending, rd>>
  PROVE  PageInv'
  <1>1. /\ mgr \in Operation /\ mgr.next \in {"idle", "commit"} /\ mgr.jobs \in Seq(SUBSET Guest)
        /\ mgr.next = "commit" => mgr.fresh = {} /\ mgr.range \in Ranges
    BY DEF PageInv, ProgressInv, OperationInv, Publishing, Operation
  <1>2. \A g \in Guest : g \notin JobPages(mgr.jobs) => hot[g].phys = page[g].phys
    BY DEF PageInv, ProgressInv, EntriesInv, Stale
  <1>3. \A p \in Phys : p \notin mgr.views => view[p] = lease[p].protect
    BY DEF PageInv, ProgressInv, ViewsInv
  <1>4. page' = page /\ hot' = hot /\ view' = view /\ lease' = lease
    BY DEF tables, published
  <1>5. CASE mgr.jobs # <<>>
    <2>1. /\ Head(mgr.jobs) \in SUBSET Guest /\ Tail(mgr.jobs) \in Seq(SUBSET Guest)
          /\ JobPages(mgr.jobs) = Head(mgr.jobs) \cup JobPages(Tail(mgr.jobs))
      BY <1>1, <1>5, JobFacts
    <2>2. mgr' = [mgr EXCEPT !.at = "publish", !.left = Head(mgr.jobs), !.change = {},
                             !.jobs = Tail(mgr.jobs)]
      BY <1>5 DEF NextJob
    <2>3. /\ mgr' \in Operation /\ mgr'.at = "publish" /\ mgr'.next = mgr.next
          /\ mgr'.left = Head(mgr.jobs) /\ mgr'.change = {} /\ mgr'.jobs = Tail(mgr.jobs)
          /\ mgr'.fresh = mgr.fresh /\ mgr'.range = mgr.range /\ mgr'.views = mgr.views
      BY <1>1, <2>1, <2>2 DEF Operation
    <2>4. \A g \in Guest : g \notin mgr'.left \cup JobPages(mgr'.jobs) => hot'[g].phys = page'[g].phys
      BY <1>2, <1>4, <2>1, <2>3
    <2>5. ProgressInv'
      BY <1>1, <1>3, <1>4, <2>3, <2>4, StartsPublishing
    <2> QED
      BY <2>5, QuietKeeps
  <1>6. CASE mgr.jobs = <<>>
    <2>1. mgr' = [mgr EXCEPT !.at = "views", !.change = {}]
      BY <1>6 DEF NextJob
    <2>2. /\ mgr' \in Operation /\ mgr'.at = "views" /\ mgr'.next = mgr.next
          /\ mgr'.fresh = mgr.fresh /\ mgr'.range = mgr.range /\ mgr'.views = mgr.views
      BY <1>1, <2>1 DEF Operation
    <2>3. \A g \in Guest : hot'[g].phys = page'[g].phys
      BY <1>1, <1>2, <1>4, <1>6, JobFacts
    <2>4. ProgressInv'
      BY <1>1, <1>3, <1>4, <2>2, <2>3, StartsViews
    <2> QED
      BY <2>4, QuietKeeps
  <1> QED
    BY <1>5, <1>6

LEMMA PublishedRangeKeeps ==
  ASSUME PageInv, PublishedRange
  PROVE  PageInv'
  <1>1. CASE ~MayRemap
    BY <1>1, NextJobKeeps DEF PublishedRange
  <1>2. CASE MayRemap
    <2>1. /\ mgr \in Operation /\ mgr.at = "publish" /\ mgr.left = {}
          /\ mgr' = [mgr EXCEPT !.at = "remap"] /\ UNCHANGED <<tables, published, pending, rd>>
          /\ \A r \in Readers : rd[r].at = "away"
      BY <1>2 DEF PublishedRange, MayRemap, ReadersActive, PageInv, ProgressInv, OperationInv
    <2>2. /\ mgr' \in Operation /\ mgr'.at = "remap" /\ mgr'.next = mgr.next
          /\ mgr'.left = {} /\ mgr'.change = mgr.change /\ mgr'.jobs = mgr.jobs
          /\ mgr'.fresh = mgr.fresh /\ mgr'.range = mgr.range /\ mgr'.views = mgr.views
      BY <2>1 DEF Operation
    <2>3. /\ page' = page /\ hot' = hot /\ view' = view /\ lease' = lease /\ rd' = rd
      BY <2>1 DEF tables, published
    <2>4. OperationInv' /\ CommitInv'
      BY <2>1, <2>2 DEF OperationInv, CommitInv, In, Committing, Publishing, PageInv, ProgressInv
    <2>5. EntriesInv'
      <3>1. Stale = mgr.left \cup JobPages(mgr.jobs) /\ Stale' = JobPages(mgr'.jobs)
        BY <2>1, <2>2 DEF Stale, JobPages
      <3>2. Stale' = Stale /\ ~Committing'
        BY <2>1, <2>2, <3>1 DEF Committing, In
      <3> QED
        BY <2>3, <3>2 DEF EntriesInv, PageInv, ProgressInv
    <2>6. ViewsInv' /\ RemapInv' /\ ReclaimInv'
      BY <2>1, <2>2, <2>3 DEF ViewsInv, RemapInv, ReclaimInv, PageInv, ProgressInv
    <2>7. ProgressInv'
      BY <2>4, <2>5, <2>6 DEF ProgressInv
    <2> QED
      BY <2>1, <2>7, QuietKeeps
  <1> QED
    BY <1>1, <1>2

LEMMA RemappedKeeps ==
  ASSUME PageInv, Remapped
  PROVE  PageInv'
  <1>1. mgr.left = {}
    BY DEF PageInv, ProgressInv, RemapInv, Remapped
  <1> QED
    BY <1>1, NextJobKeeps DEF Remapped

LEMMA RemapKeeps ==
  ASSUME PageInv, Remap
  PROVE  PageInv'
  <1>1. /\ mgr \in Operation /\ mgr.at = "remap" /\ mgr.change # {} /\ mgr.change \in SUBSET Guest
        /\ TablesInv /\ mgr.left = {}
        /\ \A h \in mgr.change : ~hot[h].direct
        /\ \A r \in Readers : rd[r].at = "touch" /\ rd[r].direct => rd[r].page \notin mgr.change
    BY DEF PageInv, ProgressInv, OperationInv, Remap, Operation, RemapInv
  <1>2. PICK g : g = Least(mgr.change)
    OBVIOUS
  <1>3. g \in mgr.change /\ g \in Guest
    <2>1. mgr.change \in SUBSET Nat
      BY <1>1, PagesAreNumbers
    <2> QED
      BY <1>1, <1>2, <2>1, LeastIsLeast
  <1>4. PICK entry : entry = [MakeHotEntry(g) EXCEPT !.direct = TRUE]
    OBVIOUS
  <1>5. entry \in Entry /\ entry.phys = page[g].phys /\ entry.direct
    BY <1>1, <1>3, <1>4, EntryFacts
  <1>6. /\ mgr' = [mgr EXCEPT !.change = @ \ {g}]
        /\ UNCHANGED <<page, own, maps, lease, view, pending, rd>>
        /\ \/ /\ page[g].phys # None
              /\ aperture' = [aperture EXCEPT ![g] = page[g].phys]
              /\ hot' = [hot EXCEPT ![g] = entry]
           \/ aperture' = [aperture EXCEPT ![g] = None] /\ hot' = hot
           \/ aperture' = aperture /\ hot' = hot
    <2>1. Eligible(g) => page[g].phys # None
      BY <1>1, <1>3, EntryFacts DEF Eligible
    <2> QED
      BY <1>2, <1>4, <2>1 DEF Remap, tables
  <1>7. /\ aperture' \in [Guest -> Phys \cup {None}] /\ hot' \in [Guest -> Entry]
        /\ \A h \in Guest : h # g => hot'[h] = hot[h] /\ aperture'[h] = aperture[h]
        /\ hot'[g] = hot[g] \/ (hot'[g] = entry /\ entry.phys # None /\ aperture'[g] = entry.phys)
    <2>1. hot \in [Guest -> Entry] /\ aperture \in [Guest -> Phys \cup {None}]
      BY DEF PageInv, AccessInv, PublishedType
    <2>2. page[g].phys \in Phys \cup {None}
      BY <1>1, <1>3 DEF TablesInv, TablesType, PageRecord
    <2>3. CASE /\ page[g].phys # None
               /\ aperture' = [aperture EXCEPT ![g] = page[g].phys]
               /\ hot' = [hot EXCEPT ![g] = entry]
      BY <1>3, <1>5, <2>1, <2>2, <2>3
    <2>4. CASE aperture' = [aperture EXCEPT ![g] = None] /\ hot' = hot
      BY <1>3, <2>1, <2>4
    <2>5. CASE aperture' = aperture /\ hot' = hot
      BY <2>1, <2>5
    <2> QED
      BY <1>6, <2>3, <2>4, <2>5
  <1>8. /\ mgr' \in Operation /\ mgr'.at = "remap" /\ mgr'.next = mgr.next
        /\ mgr'.left = {} /\ mgr'.change = mgr.change \ {g} /\ mgr'.jobs = mgr.jobs
        /\ mgr'.fresh = mgr.fresh /\ mgr'.range = mgr.range /\ mgr'.views = mgr.views
    BY <1>1, <1>6 DEF Operation
  <1>9. TablesInv'
    BY <1>1, <1>6 DEF TablesInv, TablesType, MapsAreExact, OwnersAreExact, LeasesAreExact, PagesAreSound
  <1>10. AccessInv'
    <2>1. PublishedType' /\ AccessType'
      BY <1>6, <1>7 DEF PageInv, AccessInv, PublishedType, AccessType
    <2>2. BackedInv'
      <3>1. entry.phys # None => own[entry.phys] # "free"
        BY <1>1, <1>3, <1>5, BackingIsUsed
      <3> QED
        BY <1>6, <1>7, <3>1 DEF PageInv, AccessInv, BackedInv
    <2>3. DirectInv'
      <3>1. ~hot[g].direct
        BY <1>1, <1>3
      <3> QED
        BY <1>7, <3>1 DEF PageInv, AccessInv, DirectInv
    <2>4. AccessesAreExact'
      <3>1. NoRecycledAccess'
        BY <1>6 DEF PageInv, AccessInv, AccessesAreExact, NoRecycledAccess
      <3>2. ASSUME NEW r \in Readers, rd'[r].at = "touch", rd'[r].direct
            PROVE  aperture'[rd'[r].page] = rd'[r].phys
        <4>1. rd[r].at = "touch" /\ rd[r].direct /\ rd[r].page \in Guest
          BY <1>6, <3>2 DEF PageInv, AccessInv, AccessType
        <4>2. rd[r].page # g
          BY <1>1, <1>3, <4>1
        <4>3. aperture[rd[r].page] = rd[r].phys
          BY <4>1 DEF PageInv, AccessInv, AccessesAreExact
        <4> QED
          BY <1>6, <1>7, <4>1, <4>2, <4>3
      <3> QED
        BY <3>1, <3>2 DEF AccessesAreExact
    <2> QED
      BY <2>1, <2>2, <2>3, <2>4 DEF AccessInv
  <1>11. ProgressInv'
    <2>1. OperationInv' /\ CommitInv'
      BY <1>1, <1>8 DEF OperationInv, CommitInv, In, Committing, Publishing, PageInv, ProgressInv
    <2>2. EntriesInv'
      <3>1. Stale' = Stale /\ ~Committing'
        BY <1>1, <1>8 DEF Stale, JobPages, Committing, In
      <3>2. \A h \in Guest : h \notin Stale => hot[h].phys = page[h].phys
        BY DEF EntriesInv, PageInv, ProgressInv
      <3> QED
        BY <1>5, <1>6, <1>7, <3>1, <3>2 DEF EntriesInv
    <2>3. ViewsInv' /\ ReclaimInv'
      BY <1>1, <1>6, <1>8 DEF ViewsInv, ReclaimInv, PageInv, ProgressInv
    <2>4. RemapInv'
      BY <1>1, <1>6, <1>7, <1>8 DEF RemapInv
    <2> QED
      BY <2>1, <2>2, <2>3, <2>4 DEF ProgressInv
  <1> QED
    BY <1>9, <1>10, <1>11 DEF PageInv

LEMMA PublishViewKeeps ==
  ASSUME PageInv, PublishView
  PROVE  PageInv'
  <1>1. /\ mgr \in Operation /\ mgr.at = "views" /\ mgr.views # {} /\ mgr.views \in SUBSET Phys
        /\ mgr.next \in {"idle", "commit"}
        /\ mgr.next = "commit" => mgr.fresh = {} /\ mgr.range \in Ranges
    BY DEF PageInv, ProgressInv, OperationInv, Publishing, PublishView, Operation
  <1>2. PICK p : p = Least(mgr.views)
    OBVIOUS
  <1>3. p \in mgr.views /\ p \in Phys
    <2>1. mgr.views \in SUBSET Nat
      BY <1>1, PagesAreNumbers
    <2> QED
      BY <1>1, <1>2, <2>1, LeastIsLeast
  <1>4. /\ view' = [view EXCEPT ![p] = lease[p].protect] /\ mgr' = [mgr EXCEPT !.views = @ \ {p}]
        /\ UNCHANGED <<page, own, maps, lease, hot, aperture, pending, rd>>
    BY <1>2 DEF PublishView, tables
  <1>5. /\ mgr' \in Operation /\ mgr'.at = "views" /\ mgr'.next = mgr.next
        /\ mgr'.fresh = mgr.fresh /\ mgr'.range = mgr.range /\ mgr'.views = mgr.views \ {p}
    BY <1>1, <1>4 DEF Operation
  <1>6. /\ view' \in [Phys -> Protects] /\ view'[p] = lease[p].protect
        /\ \A q \in Phys : q # p => view'[q] = view[q]
    <2>1. view \in [Phys -> Protects] /\ lease[p].protect \in Protects
      BY <1>3 DEF PageInv, AccessInv, PublishedType, TablesInv, TablesType, LeaseRecord
    <2> QED
      BY <1>3, <1>4, <2>1
  <1>7. TablesInv'
    BY <1>4 DEF PageInv, TablesInv, TablesType, MapsAreExact, OwnersAreExact, LeasesAreExact,
                PagesAreSound
  <1>8. AccessInv'
    BY <1>4, <1>6 DEF PageInv, AccessInv, PublishedType, AccessType, BackedInv, DirectInv,
                      AccessesAreExact, NoRecycledAccess
  <1>9. ProgressInv'
    <2>1. Stale = {}
      BY <1>1 DEF Stale, Committing, In
    <2>2. \A g \in Guest : hot'[g].phys = page'[g].phys
      BY <1>4, <2>1 DEF PageInv, ProgressInv, EntriesInv
    <2>3. \A q \in Phys : q \notin mgr'.views => view'[q] = lease'[q].protect
      BY <1>3, <1>4, <1>5, <1>6 DEF PageInv, ProgressInv, ViewsInv
    <2> QED
      BY <1>1, <1>5, <2>2, <2>3, StartsViews
  <1> QED
    BY <1>7, <1>8, <1>9 DEF PageInv

\* An operation that commits, before it publishes.
LEMMA CommitsOn ==
  ASSUME mgr' \in Operation, mgr'.views = {}, mgr'.range \in Ranges,
         mgr'.at \in {"commit", "backing", "drain", "take"},
         mgr'.at \in {"drain", "take"} => mgr'.next = "backing",
         mgr'.left \subseteq mgr'.range, mgr'.fresh \subseteq mgr'.range,
         \A g \in mgr'.fresh :
            /\ page'[g].phys \in Phys /\ own'[page'[g].phys] = "anonymous"
            /\ maps'[page'[g].phys] = WithAliases({g}),
         mgr'.at # "commit" => mgr'.left # {} /\ page'[Least(mgr'.left)].state # "committed",
         \A g \in Guest : hot'[g].phys = IF g \in WithAliases(mgr'.fresh) THEN None ELSE page'[g].phys,
         \A p \in Phys : view'[p] = lease'[p].protect,
         ReclaimInv'
  PROVE  ProgressInv'
  <1>1. Committing' /\ ~Publishing' /\ ~In("map")'
    BY DEF Committing, Publishing, In
  <1>2. In("backing")' <=> mgr'.at # "commit"
    BY DEF In
  <1>3. OperationInv'
    BY <1>1 DEF OperationInv
  <1>4. CommitInv'
    BY <1>1, <1>2 DEF CommitInv, WithAliases, Aliases
  <1>5. Stale' = WithAliases(mgr'.fresh)
    BY <1>1 DEF Stale, WithAliases, Aliases
  <1>6. WithAliases(mgr'.fresh) \subseteq Guest
    BY AliasFacts DEF Operation
  <1>7. EntriesInv'
    BY <1>5, <1>6 DEF EntriesInv, WithAliases, Aliases
  <1>8. ViewsInv' /\ RemapInv'
    BY DEF ViewsInv, RemapInv
  <1> QED
    BY <1>3, <1>4, <1>7, <1>8 DEF ProgressInv

LEMMA PublishedKeeps ==
  ASSUME PageInv, Published
  PROVE  PageInv'
  <1>1. /\ mgr \in Operation /\ mgr.at = "views" /\ mgr.views = {}
        /\ mgr.next \in {"idle", "commit"}
        /\ mgr.next = "commit" => mgr.fresh = {} /\ mgr.range \in Ranges
        /\ UNCHANGED <<tables, published, pending, rd>>
    BY DEF PageInv, ProgressInv, OperationInv, Publishing, Published, Operation
  <1>2. page' = page /\ hot' = hot /\ view' = view /\ lease' = lease
    BY <1>1 DEF tables, published
  <1>3. \A g \in Guest : hot[g].phys = page[g].phys
    <2>1. Stale = {}
      BY <1>1 DEF Stale, Committing, In
    <2> QED
      BY <2>1 DEF PageInv, ProgressInv, EntriesInv
  <1>4. \A p \in Phys : view[p] = lease[p].protect
    BY <1>1 DEF PageInv, ProgressInv, ViewsInv
  <1>5. CASE mgr.next = "idle"
    <2>1. mgr' = Idle
      BY <1>5 DEF Published
    <2>2. ProgressInv'
      BY <1>2, <1>3, <1>4, <2>1, EndsIdle
    <2> QED
      BY <1>1, <2>2, QuietKeeps
  <1>6. CASE mgr.next = "commit"
    <2>1. mgr' = [mgr EXCEPT !.at = "commit", !.next = "idle", !.left = mgr.range]
      BY <1>6 DEF Published
    <2>2. /\ mgr' \in Operation /\ mgr'.at = "commit" /\ mgr'.views = {} /\ mgr'.fresh = {}
          /\ mgr'.range = mgr.range /\ mgr'.left = mgr.range
      BY <1>1, <1>6, <2>1 DEF Operation
    <2>3. WithAliases(mgr'.fresh) = {}
      BY <2>2, WithAliasesGrows
    <2>4. ReclaimInv'
      BY <2>2 DEF ReclaimInv
    <2>5. ProgressInv'
      BY <1>1, <1>2, <1>3, <1>4, <1>6, <2>2, <2>3, <2>4, CommitsOn
    <2> QED
      BY <1>1, <2>5, QuietKeeps
  <1> QED
    BY <1>1, <1>5, <1>6

-----------------------------------------------------------------------------
(* The grace period.                                                       *)

\* What holds of the tables while a page is reclaimed.
LEMMA ReclaimStep ==
  ASSUME PageInv, mgr.at \in {"drain", "take"}, NEW at \in {"take", mgr.next},
         mgr' = [mgr EXCEPT !.at = at],
         UNCHANGED <<page, maps, hot, view>>,
         \A p \in Phys : lease'[p] = lease[p],
         \A p \in Phys : own[p] = "anonymous" => own'[p] = "anonymous",
         ReclaimInv'
  PROVE  ProgressInv'
  <1>1. mgr \in Operation /\ mgr.next \in {"backing", "run", "map"} /\ mgr.views = {}
    BY DEF PageInv, ProgressInv, OperationInv, Publishing
  <1>2. /\ mgr' \in Operation /\ mgr'.at = at /\ mgr'.next = mgr.next
        /\ mgr'.range = mgr.range /\ mgr'.target = mgr.target /\ mgr'.left = mgr.left
        /\ mgr'.fresh = mgr.fresh /\ mgr'.views = {}
    BY <1>1 DEF Operation
  <1>3. /\ In("backing")' <=> In("backing")
        /\ In("map")' <=> In("map")
        /\ Committing' <=> Committing
        /\ ~Publishing' /\ mgr'.at # "idle"
    BY <1>1, <1>2 DEF In, Committing, Publishing
  <1>4. OperationInv'
    <2>1. In("map") =>
            /\ mgr.range \in Ranges /\ mgr.range \subseteq Virtual /\ mgr.target \in Runs
            /\ Cardinality(mgr.range) = Cardinality(mgr.target)
            /\ \A g \in mgr.range : page[g].state = "free"
      BY DEF PageInv, ProgressInv, OperationInv
    <2> QED
      BY <1>1, <1>2, <1>3, <2>1 DEF OperationInv
  <1>5. CommitInv'
    BY <1>2, <1>3 DEF PageInv, ProgressInv, CommitInv, WithAliases, Aliases
  <1>6. EntriesInv'
    <2>1. Stale' = Stale
      BY <1>2, <1>3 DEF Stale, WithAliases, Aliases, JobPages, Publishing
    <2> QED
      BY <1>2, <1>3, <2>1 DEF PageInv, ProgressInv, EntriesInv, WithAliases, Aliases
  <1>7. ViewsInv' /\ RemapInv'
    BY <1>1, <1>2, <1>3 DEF PageInv, ProgressInv, ViewsInv, RemapInv, Publishing
  <1> QED
    BY <1>4, <1>5, <1>6, <1>7 DEF ProgressInv

LEMMA DrainKeeps ==
  ASSUME PageInv, Drain \/ GiveUp
  PROVE  PageInv'
  <1>1. /\ mgr \in Operation /\ mgr.at = "drain" /\ UNCHANGED <<tables, published, rd>>
        /\ mgr.next \in {"backing", "run", "map"} /\ pending
    BY DEF PageInv, ProgressInv, OperationInv, ReclaimInv, Drain, Drained, GiveUp
  <1>2. page' = page /\ maps' = maps /\ hot' = hot /\ view' = view /\ lease' = lease /\ own' = own
    BY <1>1 DEF tables, published
  <1>3. CASE Drain
    <2>1. mgr' = [mgr EXCEPT !.at = "take"] /\ pending' = pending /\ rd' = rd
      BY <1>3 DEF Drain
    <2>2. \A r \in Readers : rd[r].at = "away"
      BY <1>3 DEF Drain, Drained, ReadersActive
    <2>3. mgr'.at = "take"
      BY <1>1, <2>1 DEF Operation
    <2>4. ReclaimInv'
      BY <1>1, <2>1, <2>2, <2>3 DEF ReclaimInv
    <2>5. ProgressInv'
      BY <1>1, <1>2, <2>1, <2>4, ReclaimStep
    <2> QED
      BY <1>1, <2>5, QuietKeeps
  <1>4. CASE GiveUp
    <2>1. mgr' = [mgr EXCEPT !.at = mgr.next]
      BY <1>4 DEF GiveUp
    <2>2. mgr'.at \in {"backing", "run", "map"}
      BY <1>1, <2>1 DEF Operation
    <2>3. ReclaimInv'
      BY <2>2 DEF ReclaimInv
    <2>4. ProgressInv'
      BY <1>1, <1>2, <2>1, <2>3, ReclaimStep
    <2> QED
      BY <1>1, <2>4, QuietKeeps
  <1> QED
    BY <1>3, <1>4

\* No entry and no access holds a page that is freed.
LEMMA TakeRetiredKeeps ==
  ASSUME PageInv, TakeRetired
  PROVE  PageInv'
  <1>1. /\ mgr \in Operation /\ mgr.at = "take" /\ UNCHANGED <<page, maps, published, rd>>
        /\ mgr.next \in {"backing", "run", "map"} /\ mgr' = [mgr EXCEPT !.at = mgr.next]
        /\ \A r \in Readers : rd[r].at \notin {"load", "touch"}
    BY DEF PageInv, ProgressInv, OperationInv, ReclaimInv, TakeRetired
  <1>2. TablesInv /\ TablesInv'
    BY TakeRetiredKeepsTables DEF PageInv
  <1>3. hot' = hot /\ view' = view /\ aperture' = aperture
    BY <1>1 DEF published
  <1>4. /\ \A p \in Phys : own'[p] = IF own[p] = "retired" THEN "free" ELSE own[p]
        /\ \A p \in Phys : lease'[p] = lease[p]
    <2>1. \A p \in Phys : own[p] = "retired" => lease[p] = NoLease
      BY DEF PageInv, TablesInv, LeasesAreExact
    <2> QED
      BY <2>1 DEF TakeRetired, Retired
  <1>5. ProgressInv'
    <2>1. mgr'.at \in {"backing", "run", "map"}
      BY <1>1 DEF Operation
    <2>2. ReclaimInv'
      BY <2>1 DEF ReclaimInv
    <2> QED
      BY <1>1, <1>3, <1>4, <2>2, ReclaimStep
  <1>6. AccessInv'
    <2>1. PublishedType' /\ AccessType' /\ DirectInv'
      BY <1>1, <1>3 DEF PageInv, AccessInv, PublishedType, AccessType, DirectInv
    <2>2. BackedInv'
      <3>1. ASSUME NEW g \in Guest, hot[g].phys # None
            PROVE  own[hot[g].phys] \notin {"free", "retired"} /\ hot[g].phys \in Phys
        <4>1. hot[g].phys = page[g].phys
          <5>1. Stale = IF Committing THEN WithAliases(mgr.fresh) ELSE {}
            BY <1>1 DEF Stale
          <5> QED
            BY <3>1, <5>1 DEF PageInv, ProgressInv, EntriesInv
        <4> QED
          BY <1>2, <3>1, <4>1, BackingIsUsed
      <3> QED
        BY <1>3, <1>4, <3>1 DEF BackedInv
    <2>3. AccessesAreExact'
      BY <1>1 DEF AccessesAreExact, NoRecycledAccess
    <2> QED
      BY <2>1, <2>2, <2>3 DEF AccessInv
  <1> QED
    BY <1>2, <1>5, <1>6 DEF PageInv

-----------------------------------------------------------------------------
(* commit_pages().                                                         *)

LEMMA CommitFacts ==
  ASSUME PageInv, mgr.at \in {"commit", "backing"}
  PROVE  /\ mgr \in Operation /\ mgr.views = {} /\ mgr.range \in Ranges /\ mgr.range \in SUBSET Guest
         /\ mgr.left \subseteq mgr.range /\ mgr.fresh \subseteq mgr.range /\ mgr.protect \in Protects
         /\ mgr.left # {} => Least(mgr.left) \in mgr.left /\ Least(mgr.left) \in Guest
         /\ \A g \in mgr.fresh :
              /\ page[g].phys \in Phys /\ own[page[g].phys] = "anonymous"
              /\ maps[page[g].phys] = WithAliases({g})
         /\ mgr.at = "backing" => mgr.left # {} /\ page[Least(mgr.left)].state # "committed"
         /\ \A g \in Guest : hot[g].phys = IF g \in WithAliases(mgr.fresh) THEN None ELSE page[g].phys
         /\ \A p \in Phys : view[p] = lease[p].protect
  <1>1. Committing /\ ~Publishing /\ (mgr.at = "backing" => In("backing"))
    BY DEF Committing, In, Publishing
  <1>2. mgr \in Operation /\ mgr.views = {} /\ mgr.protect \in Protects
    BY <1>1 DEF PageInv, ProgressInv, OperationInv, Operation
  <1>3. /\ mgr.range \in Ranges /\ mgr.left \subseteq mgr.range /\ mgr.fresh \subseteq mgr.range
        /\ \A g \in mgr.fresh :
              /\ page[g].phys \in Phys /\ own[page[g].phys] = "anonymous"
              /\ maps[page[g].phys] = WithAliases({g})
        /\ mgr.at = "backing" => mgr.left # {} /\ page[Least(mgr.left)].state # "committed"
    BY <1>1 DEF PageInv, ProgressInv, CommitInv
  <1>4. mgr.range \in SUBSET Guest
    BY <1>3, RangeFacts
  <1>5. mgr.left # {} => Least(mgr.left) \in mgr.left /\ Least(mgr.left) \in Guest
    <2>1. mgr.left \in SUBSET Nat
      BY <1>3, <1>4, PagesAreNumbers
    <2> QED
      BY <1>3, <1>4, <2>1, LeastIsLeast
  <1>6. Stale = WithAliases(mgr.fresh)
    BY <1>1 DEF Stale, Publishing
  <1>7. \A g \in Guest : hot[g].phys = IF g \in WithAliases(mgr.fresh) THEN None ELSE page[g].phys
    BY <1>1, <1>6 DEF PageInv, ProgressInv, EntriesInv
  <1>8. \A p \in Phys : view[p] = lease[p].protect
    BY <1>2 DEF PageInv, ProgressInv, ViewsInv
  <1> QED
    BY <1>2, <1>3, <1>4, <1>5, <1>7, <1>8

LEMMA CommitReservedKeeps ==
  ASSUME PageInv, NEW R \in Ranges, NEW protect \in Asks, CommitReserved(R, protect)
  PROVE  PageInv'
  <1>1. protect \in Protects /\ R \in SUBSET Guest
    BY PagesAreNumbers, RangeFacts
  <1>2. /\ \A g \in Guest : hot[g].phys = page[g].phys
        /\ \A p \in Phys : view[p] = lease[p].protect
        /\ UNCHANGED <<tables, published, rd>>
    BY IdleIsPublished DEF PageInv, CommitReserved
  <1>3. mgr' = [Idle EXCEPT !.at = "commit", !.range = R, !.left = R, !.protect = protect]
    BY DEF CommitReserved
  <1>4. /\ mgr' \in Operation /\ mgr'.at = "commit" /\ mgr'.views = {} /\ mgr'.fresh = {}
        /\ mgr'.range = R /\ mgr'.left = R
    BY <1>1, <1>3, IdleFacts DEF Operation
  <1>5. WithAliases(mgr'.fresh) = {}
    BY <1>4, WithAliasesGrows
  <1>6. ReclaimInv'
    BY <1>4 DEF ReclaimInv
  <1>7. page' = page /\ hot' = hot /\ view' = view /\ lease' = lease
    BY <1>2 DEF tables, published
  <1>8. ProgressInv'
    BY <1>2, <1>4, <1>5, <1>6, <1>7, CommitsOn
  <1> QED
    BY <1>2, <1>8, QuietKeeps

LEMMA CommitPageKeeps ==
  ASSUME PageInv, CommitPage
  PROVE  PageInv'
  <1>1. /\ mgr.at = "commit" /\ mgr.left # {} /\ TablesInv
        /\ UNCHANGED <<own, maps, lease, published, rd>>
        /\ hot' = hot /\ view' = view
    BY DEF CommitPage, PageInv, published
  <1>2. PICK g \in Guest : g = Least(mgr.left) /\ g \in mgr.left
    BY <1>1, CommitFacts
  <1>3. PICK W : W = WithAliases(mgr.fresh)
    OBVIOUS
  <1>4. /\ mgr \in Operation /\ mgr.views = {} /\ mgr.range \in Ranges /\ mgr.range \in SUBSET Guest
        /\ mgr.left \subseteq mgr.range /\ mgr.fresh \subseteq mgr.range /\ mgr.protect \in Protects
        /\ \A h \in mgr.fresh :
             /\ page[h].phys \in Phys /\ own[page[h].phys] = "anonymous"
             /\ maps[page[h].phys] = WithAliases({h})
        /\ \A h \in Guest : hot[h].phys = IF h \in W THEN None ELSE page[h].phys
        /\ \A p \in Phys : view[p] = lease[p].protect
    BY <1>1, <1>3, CommitFacts
  <1>5. CASE page[g].state = "committed"
    <2>1. /\ page' = [h \in Guest |-> IF h \in WithAliases({g})
                                           THEN [page[h] EXCEPT !.protect = mgr.protect]
                                           ELSE page[h]]
          /\ mgr' = [mgr EXCEPT !.left = @ \ {g}]
      BY <1>2, <1>5 DEF CommitPage
    <2>2. TablesInv' /\ \A h \in Guest : page'[h].phys = page[h].phys
      BY <1>1, <1>4, <2>1, ProtectKeepsTables
    <2>3. AccessInv'
      BY <1>1, AccessesAreKept DEF PageInv
    <2>4. /\ mgr' \in Operation /\ mgr'.at = "commit" /\ mgr'.views = {} /\ mgr'.fresh = mgr.fresh
          /\ mgr'.range = mgr.range /\ mgr'.left = mgr.left \ {g}
      BY <1>1, <1>4, <2>1 DEF Operation
    <2>5. ReclaimInv'
      BY <2>4 DEF ReclaimInv
    <2>6. \A h \in mgr'.fresh :
             /\ page'[h].phys \in Phys /\ own'[page'[h].phys] = "anonymous"
             /\ maps'[page'[h].phys] = WithAliases({h})
      BY <1>1, <1>4, <2>2, <2>4
    <2>7. WithAliases(mgr'.fresh) = W
      BY <1>3, <2>4
    <2>8. ProgressInv'
      BY <1>1, <1>4, <2>2, <2>4, <2>5, <2>6, <2>7, CommitsOn
    <2> QED
      BY <2>2, <2>3, <2>8 DEF PageInv
  <1>6. CASE page[g].state # "committed"
    <2>1. /\ page' = page /\ pending' = (Retired # {})
          /\ mgr' = [mgr EXCEPT !.at = IF Retired # {} THEN "drain" ELSE "backing", !.next = "backing"]
      BY <1>2, <1>6 DEF CommitPage, ReclaimThen
    <2>2. /\ mgr' \in Operation /\ mgr'.views = {} /\ mgr'.fresh = mgr.fresh
          /\ mgr'.at = IF Retired # {} THEN "drain" ELSE "backing"
          /\ mgr'.next = "backing" /\ mgr'.range = mgr.range /\ mgr'.left = mgr.left
      BY <1>4, <2>1 DEF Operation
    <2>3. ReclaimInv'
      <3>1. CASE Retired # {}
        <4>1. mgr'.at = "drain"
          BY <2>2, <3>1
        <4>2. pending'
          BY <2>1, <3>1, Zenon
        <4> QED
          BY <4>1, <4>2 DEF ReclaimInv
      <3>2. CASE Retired = {}
        <4>1. mgr'.at = "backing"
          BY <2>2, <3>2
        <4> QED
          BY <4>1 DEF ReclaimInv
      <3> QED
        BY <3>1, <3>2
    <2>4. WithAliases(mgr'.fresh) = W
      BY <1>3, <2>2
    <2>5. mgr'.left # {} /\ page'[Least(mgr'.left)].state # "committed"
      BY <1>1, <1>2, <1>6, <2>1, <2>2
    <2>6. mgr'.at \in {"drain", "backing"}
      BY <2>2
    <2>7. ProgressInv'
      BY <1>1, <1>4, <2>1, <2>2, <2>3, <2>4, <2>5, <2>6, CommitsOn
    <2> QED
      BY <1>1, <2>1, <2>7, QuietKeeps DEF tables
  <1> QED
    BY <1>5, <1>6

LEMMA CommitBackingKeeps ==
  ASSUME PageInv, NEW p \in Phys, CommitBacking(p)
  PROVE  PageInv'
  <1>1. /\ mgr.at = "backing" /\ own[p] = "free" /\ TablesInv
        /\ UNCHANGED <<lease, published, pending, rd>>
        /\ hot' = hot /\ view' = view
    BY DEF CommitBacking, PageInv, published
  <1>2. PICK g \in Guest : g = Least(mgr.left) /\ g \in mgr.left /\ page[g].state # "committed"
    BY <1>1, CommitFacts
  <1>3. PICK F, W : F = WithAliases(mgr.fresh) /\ W = WithAliases({g})
    OBVIOUS
  <1>4. /\ mgr \in Operation /\ mgr.views = {} /\ mgr.range \in Ranges /\ mgr.range \in SUBSET Guest
        /\ mgr.left \subseteq mgr.range /\ mgr.fresh \subseteq mgr.range /\ mgr.protect \in Protects
        /\ \A h \in mgr.fresh :
             /\ page[h].phys \in Phys /\ own[page[h].phys] = "anonymous"
             /\ maps[page[h].phys] = WithAliases({h})
        /\ \A h \in Guest : hot[h].phys = IF h \in F THEN None ELSE page[h].phys
        /\ \A q \in Phys : view[q] = lease[q].protect
    BY <1>1, <1>3, CommitFacts
  <1>5. /\ page' = [h \in Guest |->
                     IF h \in W
                       THEN [page[h] EXCEPT !.state = "committed", !.phys = p,
                                            !.protect = mgr.protect]
                       ELSE page[h]]
        /\ maps' = [maps EXCEPT ![p] = @ \cup W]
        /\ mgr' = [mgr EXCEPT !.at = "commit", !.left = @ \ {g}, !.fresh = @ \cup {g}]
        /\ own' = [own EXCEPT ![p] = "anonymous"]
    BY <1>2, <1>3 DEF CommitBacking
  <1>6. W \in SUBSET Guest /\ g \in W
    BY <1>3, AliasFacts
  <1>7. /\ page' \in [Guest -> PageRecord]
        /\ \A h \in W : /\ page'[h].state = "committed" /\ page'[h].phys = p
                        /\ page'[h].protect = mgr.protect /\ page'[h].explicit = page[h].explicit
        /\ \A h \in Guest : h \notin W => page'[h] = page[h]
    <2>1. \A h \in Guest : page[h] \in PageRecord
      BY <1>1 DEF TablesInv, TablesType
    <2>2. ASSUME NEW h \in Guest
          PROVE  LET f == [page[h] EXCEPT !.state = "committed", !.phys = p, !.protect = mgr.protect]
                 IN  /\ f \in PageRecord /\ f.state = "committed" /\ f.phys = p
                     /\ f.protect = mgr.protect /\ f.explicit = page[h].explicit
      <3>1. page[h] \in PageRecord /\ p \in Phys \cup {None} /\ mgr.protect \in Protects
        BY <1>4, <2>1
      <3> QED
        BY <3>1 DEF PageRecord
    <2> QED
      BY <1>5, <1>6, <2>1, <2>2
  <1>8. TablesInv'
    BY <1>1, <1>2, <1>3, <1>5, <1>7, CommitBackingKeepsTables
  <1>9. \A q \in Phys : /\ own'[q] = IF q = p THEN "anonymous" ELSE own[q]
                        /\ maps'[q] = IF q = p THEN maps[q] \cup W ELSE maps[q]
    BY <1>1, <1>5 DEF TablesInv, TablesType
  <1>10. AccessInv'
    BY <1>1, <1>9, AccessesAreKept DEF PageInv
  <1>11. /\ mgr' \in Operation /\ mgr'.at = "commit" /\ mgr'.views = {}
         /\ mgr'.fresh = mgr.fresh \cup {g}
         /\ mgr'.range = mgr.range /\ mgr'.left = mgr.left \ {g}
    BY <1>4, <1>5 DEF Operation
  <1>12. \A h \in W : page[h].phys = None
    <2>1. ASSUME NEW h \in W PROVE page[h].phys = None
      <3>1. h \in Guest /\ \E k \in {g} : page[h].state = page[k].state
        BY <1>1, <1>3, TwinsAgree
      <3> QED
        BY <1>1, <1>2, <3>1 DEF TablesInv, PagesAreSound
    <2> QED
      BY <2>1
  <1>13. ASSUME NEW h \in mgr'.fresh
         PROVE  /\ page'[h].phys \in Phys /\ own'[page'[h].phys] = "anonymous"
                /\ maps'[page'[h].phys] = WithAliases({h})
    <2>1. CASE h = g
      <3>1. maps[p] = {}
        BY <1>1 DEF TablesInv, OwnersAreExact
      <3> QED
        BY <1>3, <1>6, <1>7, <1>9, <2>1, <3>1
    <2>2. CASE h # g
      <3>1. h \in mgr.fresh /\ h \in Guest
        BY <1>4, <1>11, <2>2
      <3>2. page[h].phys \in Phys /\ own[page[h].phys] = "anonymous" /\ maps[page[h].phys] = WithAliases({h})
        BY <1>4, <3>1
      <3>3. h \notin W
        BY <1>12, <3>2, PagesAreNumbers
      <3>4. page'[h] = page[h] /\ page[h].phys # p
        BY <1>1, <1>7, <3>1, <3>2, <3>3
      <3> QED
        BY <1>9, <3>2, <3>4
    <2> QED
      BY <2>1, <2>2
  <1>14. WithAliases(mgr'.fresh) = F \cup W
    BY <1>3, <1>4, <1>11, WithAliasesGrows
  <1>15. \A h \in Guest : hot'[h].phys = IF h \in WithAliases(mgr'.fresh) THEN None ELSE page'[h].phys
    BY <1>1, <1>4, <1>7, <1>12, <1>14
  <1>16. ReclaimInv'
    BY <1>11 DEF ReclaimInv
  <1>17. ProgressInv'
    <2>1. mgr'.left \subseteq mgr'.range /\ mgr'.fresh \subseteq mgr'.range
      BY <1>2, <1>4, <1>11
    <2> QED
      BY <1>1, <1>4, <1>11, <1>13, <1>15, <1>16, <2>1, CommitsOn
  <1> QED
    BY <1>8, <1>10, <1>17 DEF PageInv

LEMMA CommitFailsKeeps ==
  ASSUME PageInv, CommitFails
  PROVE  PageInv'
  <1>1. mgr.at = "backing" /\ mgr' = Idle /\ UNCHANGED <<lease, published, pending, rd>>
    BY DEF CommitFails
  <1>2. PICK W : W = WithAliases(mgr.fresh)
    OBVIOUS
  <1>3. /\ TablesInv'
        /\ \A g \in Guest : page'[g].phys = IF g \in W THEN None ELSE page[g].phys
        /\ \A p \in Phys : own'[p] = "free" <=> own[p] = "free"
    <2>1. /\ mgr.fresh \in SUBSET Guest
          /\ \A g \in mgr.fresh :
              /\ page[g].phys \in Phys /\ own[page[g].phys] = "anonymous"
              /\ maps[page[g].phys] = WithAliases({g})
      BY <1>1, CommitFacts
    <2> QED
      BY <1>2, <2>1, CommitFailsKeepsTables DEF PageInv
  <1>4. /\ \A g \in Guest : hot[g].phys = IF g \in W THEN None ELSE page[g].phys
        /\ \A p \in Phys : view[p] = lease[p].protect
    BY <1>1, <1>2, CommitFacts
  <1>5. hot' = hot /\ view' = view
    BY <1>1 DEF published
  <1>6. ProgressInv'
    BY <1>1, <1>3, <1>4, <1>5, EndsIdle
  <1>7. AccessInv'
    BY <1>1, <1>3, AccessesAreKept DEF PageInv
  <1> QED
    BY <1>3, <1>6, <1>7 DEF PageInv

LEMMA CommittedKeeps ==
  ASSUME PageInv, Committed
  PROVE  PageInv'
  <1>1. /\ mgr.at = "commit" /\ UNCHANGED <<tables, published, pending, rd>>
        /\ mgr' = Publish(BothViews(mgr.range), {}, "idle")
    BY DEF Committed
  <1>2. PICK R \in Ranges : R = mgr.range
    BY <1>1, CommitFacts
  <1>3. PICK W : W = WithAliases(mgr.fresh)
    OBVIOUS
  <1>4. /\ mgr \in Operation /\ mgr.fresh \subseteq R /\ R \in SUBSET Guest
        /\ \A g \in Guest : hot[g].phys = IF g \in W THEN None ELSE page[g].phys
        /\ \A p \in Phys : view[p] = lease[p].protect
    BY <1>1, <1>2, <1>3, CommitFacts
  <1>5. W \subseteq WithAliases(R)
    BY <1>3, <1>4, WithAliasesGrows
  <1>6. /\ BothViews(R) \in Seq(SUBSET Guest) /\ BothViews(R) # <<>>
        /\ Head(BothViews(R)) \cup JobPages(Tail(BothViews(R))) = WithAliases(R)
    BY BothViewsCover
  <1>7. /\ mgr' \in Operation /\ mgr'.at = "publish" /\ mgr'.next = "idle" /\ mgr'.change = {}
        /\ mgr'.left = Head(BothViews(R)) /\ mgr'.jobs = Tail(BothViews(R))
    BY <1>1, <1>2, <1>4, <1>6, PublishFacts
  <1>8. mgr'.left \cup JobPages(mgr'.jobs) = WithAliases(R)
    BY <1>6, <1>7
  <1>9. page' = page /\ hot' = hot /\ view' = view /\ lease' = lease
    BY <1>1 DEF tables, published
  <1>10. \A g \in Guest : g \notin mgr'.left \cup JobPages(mgr'.jobs) => hot'[g].phys = page'[g].phys
    BY <1>4, <1>5, <1>8, <1>9
  <1>11. ProgressInv'
    BY <1>4, <1>7, <1>9, <1>10, StartsPublishing
  <1> QED
    BY <1>1, <1>11, QuietKeeps

-----------------------------------------------------------------------------
(* Explicit physical memory.                                               *)

\* An operation that reclaims, if it must, before it allocates.
LEMMA ReclaimsFirst ==
  ASSUME PageInv, MutexFree, NEW next \in {"run", "map"}, pending' = (Retired # {}),
         mgr' \in Operation, mgr'.at = IF Retired # {} THEN "drain" ELSE next,
         mgr'.next = next, mgr'.views = {},
         next = "map" =>
           /\ mgr'.range \in Ranges /\ mgr'.range \subseteq Virtual /\ mgr'.target \in Runs
           /\ Cardinality(mgr'.range) = Cardinality(mgr'.target)
           /\ \A g \in mgr'.range : page[g].state = "free",
         UNCHANGED <<tables, published, rd>>
  PROVE  PageInv'
  <1>1. /\ \A g \in Guest : hot[g].phys = page[g].phys
        /\ \A p \in Phys : view[p] = lease[p].protect
    BY IdleIsPublished DEF PageInv
  <1>3. PICK at \in {"drain", "run", "map"} : at = IF Retired # {} THEN "drain" ELSE next
    OBVIOUS
  <1>4. mgr'.at = at
    BY <1>3
  <1>5. page' = page /\ hot' = hot /\ view' = view /\ lease' = lease
    BY DEF tables, published
  <1>6. /\ ~Committing' /\ ~Publishing' /\ ~In("backing")'
        /\ In("map")' => next = "map"
    BY <1>3, <1>4 DEF Committing, Publishing, In
  <1>7. OperationInv'
    BY <1>3, <1>4, <1>5, <1>6 DEF OperationInv
  <1>8. CommitInv' /\ ViewsInv' /\ RemapInv'
    BY <1>1, <1>3, <1>4, <1>5, <1>6 DEF CommitInv, ViewsInv, RemapInv
  <1>9. EntriesInv'
    BY <1>1, <1>5, <1>6 DEF EntriesInv
  <1>10. ReclaimInv'
    <2>1. CASE Retired # {}
      <3>1. mgr'.at = "drain"
        BY <1>3, <1>4, <2>1
      <3>2. pending'
        BY <2>1, Zenon
      <3> QED
        BY <3>1, <3>2 DEF ReclaimInv
    <2>2. CASE Retired = {}
      <3>1. mgr'.at = next
        BY <1>3, <1>4, <2>2
      <3> QED
        BY <3>1 DEF ReclaimInv
    <2> QED
      BY <2>1, <2>2
  <1>11. ProgressInv'
    BY <1>7, <1>8, <1>9, <1>10 DEF ProgressInv
  <1> QED
    BY <1>11, QuietKeeps

LEMMA AllocatePhysicalKeeps ==
  ASSUME PageInv, NEW T \in Runs, AllocatePhysical(T)
  PROVE  PageInv'
  <1>1. PICK at \in {"drain", "run"} : at = IF Retired # {} THEN "drain" ELSE "run"
    OBVIOUS
  <1>2. mgr' = [Idle EXCEPT !.at = at, !.next = "run", !.target = T, !.protect = "access"]
    BY <1>1 DEF AllocatePhysical
  <1>3. mgr' \in Operation /\ mgr'.at = at /\ mgr'.next = "run" /\ mgr'.views = {}
    BY <1>2, IdleFacts, RunFacts DEF Operation, Protects
  <1> QED
    BY <1>1, <1>3, ReclaimsFirst DEF AllocatePhysical

LEMMA MapVirtualKeeps ==
  ASSUME PageInv, NEW R \in Ranges, NEW T \in Runs, NEW protect \in Asks,
         MapVirtual(R, T, protect)
  PROVE  PageInv'
  <1>1. protect \in Protects /\ R \in SUBSET Guest
    BY PagesAreNumbers, RangeFacts
  <1>2. PICK at \in {"drain", "map"} : at = IF Retired # {} THEN "drain" ELSE "map"
    OBVIOUS
  <1>3. mgr' = [Idle EXCEPT !.at = at, !.next = "map", !.range = R, !.target = T, !.protect = protect]
    BY <1>2 DEF MapVirtual
  <1>4. /\ mgr' \in Operation /\ mgr'.at = at /\ mgr'.next = "map" /\ mgr'.views = {}
        /\ mgr'.range = R /\ mgr'.target = T
    BY <1>1, <1>3, IdleFacts, RunFacts DEF Operation
  <1> QED
    BY <1>2, <1>4, ReclaimsFirst DEF MapVirtual

\* A step of the leases that ends in publishing the views of T.
LEMMA LeaseKeeps ==
  ASSUME PageInv, NEW T \in Runs, TablesInv', mgr' = PublishViews(T),
         \A g \in Guest : hot[g].phys = page[g].phys,
         \A p \in Phys : view[p] = lease[p].protect,
         \A p \in Phys : p \notin T => lease'[p] = lease[p],
         \A p \in Phys : own'[p] = "free" => own[p] = "free",
         UNCHANGED <<page, published, rd>>
  PROVE  PageInv'
  <1>1. T \in SUBSET Phys
    BY RunFacts
  <1>2. mgr' \in Operation /\ mgr'.at = "views" /\ mgr'.next = "idle" /\ mgr'.views = T
    BY <1>1, IdleFacts DEF PublishViews, Operation
  <1>3. hot' = hot /\ view' = view
    BY DEF published
  <1>4. ProgressInv'
    BY <1>2, <1>3, StartsViews
  <1>5. AccessInv'
    BY AccessesAreKept DEF PageInv
  <1> QED
    BY <1>4, <1>5 DEF PageInv

LEMMA AllocateRunKeeps ==
  ASSUME PageInv, NEW T \in Runs, AllocateRun(T)
  PROVE  PageInv'
  <1>1. mgr.at = "run" /\ mgr.protect \in Protects /\ mgr.views = {} /\ Stale = {}
    BY DEF AllocateRun, PageInv, ProgressInv, OperationInv, Operation, Publishing, Stale,
           Committing, In
  <1>2. /\ \A g \in Guest : hot[g].phys = page[g].phys
        /\ \A p \in Phys : view[p] = lease[p].protect
    BY <1>1 DEF PageInv, ProgressInv, EntriesInv, ViewsInv
  <1>3. TablesInv'
    BY <1>1, AllocateRunKeepsTables DEF PageInv
  <1>4. /\ mgr' = PublishViews(T) /\ UNCHANGED <<page, published, rd>>
        /\ \A p \in Phys : p \notin T => lease'[p] = lease[p]
        /\ \A p \in Phys : own'[p] = "free" => own[p] = "free"
    BY DEF AllocateRun, LeaseTo
  <1> QED
    BY <1>2, <1>3, <1>4, LeaseKeeps

LEMMA FreePhysicalKeeps ==
  ASSUME PageInv, NEW T \in Runs, FreePhysical(T)
  PROVE  PageInv'
  <1>1. /\ \A g \in Guest : hot[g].phys = page[g].phys
        /\ \A p \in Phys : view[p] = lease[p].protect
    BY IdleIsPublished DEF PageInv, FreePhysical
  <1>2. TablesInv'
    BY FreePhysicalKeepsTables DEF PageInv
  <1>3. /\ mgr' = PublishViews(T) /\ UNCHANGED <<page, published, rd>>
        /\ \A p \in Phys : p \notin T => lease'[p] = lease[p]
        /\ \A p \in Phys : own'[p] = "free" => own[p] = "free"
    BY DEF FreePhysical
  <1> QED
    BY <1>1, <1>2, <1>3, LeaseKeeps

LEMMA ProtectPhysicalKeeps ==
  ASSUME PageInv, NEW T \in Runs, NEW protect \in Protects, ProtectPhysical(T, protect)
  PROVE  PageInv'
  <1>1. /\ \A g \in Guest : hot[g].phys = page[g].phys
        /\ \A p \in Phys : view[p] = lease[p].protect
    BY IdleIsPublished DEF PageInv, ProtectPhysical
  <1>2. TablesInv'
    BY ProtectPhysicalKeepsTables DEF PageInv
  <1>3. /\ mgr' = PublishViews(T) /\ UNCHANGED <<page, own, published, rd>>
        /\ \A p \in Phys : p \notin T => lease'[p] = lease[p]
    BY DEF ProtectPhysical
  <1> QED
    BY <1>1, <1>2, <1>3, LeaseKeeps

LEMMA AllocationFails ==
  ASSUME PageInv, NoRun \/ MapFails
  PROVE  PageInv'
  <1>1. /\ mgr.at \in {"run", "map"} /\ mgr' = Idle /\ UNCHANGED <<tables, published, rd>>
    BY DEF NoRun, MapFails
  <1>2. mgr.views = {} /\ Stale = {}
    BY <1>1 DEF PageInv, ProgressInv, OperationInv, Publishing, Stale, Committing, In
  <1>3. /\ \A g \in Guest : hot'[g].phys = page'[g].phys
        /\ \A p \in Phys : view'[p] = lease'[p].protect
    BY <1>1, <1>2 DEF PageInv, ProgressInv, EntriesInv, ViewsInv, tables, published
  <1>4. ProgressInv'
    BY <1>1, <1>3, EndsIdle
  <1> QED
    BY <1>1, <1>4, QuietKeeps

LEMMA MapPagesKeeps ==
  ASSUME PageInv, MapPages
  PROVE  PageInv'
  <1>1. mgr.at = "map" /\ UNCHANGED <<published, pending, rd>>
    BY DEF MapPages
  <1>2. /\ mgr \in Operation /\ mgr.views = {} /\ mgr.range \in Ranges /\ mgr.range \subseteq Virtual
        /\ mgr.target \in Runs /\ Cardinality(mgr.range) = Cardinality(mgr.target)
        /\ mgr.protect \in Protects /\ \A g \in mgr.range : page[g].state = "free"
    BY <1>1 DEF PageInv, ProgressInv, OperationInv, Operation, In, Publishing
  <1>3. PICK R \in Ranges, T \in Runs : R = mgr.range /\ T = mgr.target
    BY <1>2
  <1>4. /\ TablesInv'
        /\ \A g \in Guest : g \notin R => page'[g].phys = page[g].phys
        /\ \A p \in Phys : own'[p] = "free" => own[p] = "free"
        /\ \A p \in Phys : p \notin T => lease'[p] = lease[p]
    BY <1>2, <1>3, MapPagesKeepsTables DEF PageInv
  <1>5. mgr' = Publish(<<R>>, T, "idle")
    BY <1>3 DEF MapPages
  <1>6. R \in SUBSET Guest /\ T \in SUBSET Phys
    BY RangeFacts, RunFacts
  <1>7. PICK jobs : jobs = <<R>> /\ jobs \in Seq(SUBSET Guest) /\ jobs # <<>> /\ Head(jobs) = R
    <2>1. <<R>> \in Seq(SUBSET Guest) /\ <<R>> # <<>> /\ Head(<<R>>) = R
      BY <1>6
    <2> QED
      BY <2>1
  <1>8. /\ mgr' \in Operation /\ mgr'.at = "publish" /\ mgr'.next = "idle" /\ mgr'.change = {}
        /\ mgr'.left = R /\ mgr'.views = T
    <2>1. mgr' = Publish(jobs, T, "idle")
      BY <1>5, <1>7
    <2>2. mgr \in Operation /\ jobs \in Seq(SUBSET Guest) /\ jobs # <<>> /\ T \in SUBSET Phys
      BY <1>2, <1>6, <1>7
    <2>3. /\ mgr' \in Operation /\ mgr'.at = "publish" /\ mgr'.next = "idle" /\ mgr'.change = {}
          /\ mgr'.left = Head(jobs) /\ mgr'.views = T
      BY <2>1, <2>2, PublishFacts
    <2> QED
      BY <1>7, <2>3
  <1>9. hot' = hot /\ view' = view
    BY <1>1 DEF published
  <1>10. Stale = {}
    BY <1>1 DEF Stale, Committing, In
  <1>11. \A g \in Guest : g \notin mgr'.left \cup JobPages(mgr'.jobs) => hot'[g].phys = page'[g].phys
    BY <1>4, <1>8, <1>9, <1>10 DEF PageInv, ProgressInv, EntriesInv
  <1>12. \A p \in Phys : p \notin mgr'.views => view'[p] = lease'[p].protect
    BY <1>2, <1>4, <1>8, <1>9 DEF PageInv, ProgressInv, ViewsInv
  <1>13. ProgressInv'
    BY <1>8, <1>11, <1>12, StartsPublishing
  <1>14. AccessInv'
    BY <1>1, <1>4, AccessesAreKept DEF PageInv
  <1> QED
    BY <1>4, <1>13, <1>14 DEF PageInv

-----------------------------------------------------------------------------
(* Accesses.                                                               *)

\* A step of one access, which the manager sees only by its guard.
LEMMA AccessMoves ==
  ASSUME PageInv, NEW r \in Readers, NEW a \in AccessRecord, rd' = [rd EXCEPT ![r] = a],
         UNCHANGED <<tables, published, pending, mgr>>,
         a.at # "away" => a.page \in Guest,
         a.at = "load" => ~pending,
         a.at = "touch" =>
           /\ rd[r].at = "load" /\ a.phys \in Phys /\ own[a.phys] # "free"
           /\ a.direct => hot[a.page].direct /\ aperture[a.page] = a.phys
  PROVE  PageInv'
  <1>1. /\ page' = page /\ own' = own /\ maps' = maps /\ lease' = lease
        /\ hot' = hot /\ view' = view /\ aperture' = aperture
    BY DEF tables, published
  <1>2. /\ rd' \in [Readers -> AccessRecord] /\ rd'[r] = a
        /\ \A s \in Readers : s # r => rd'[s] = rd[s]
    BY DEF PageInv, AccessInv, AccessType
  <1>3. TablesInv'
    BY <1>1 DEF PageInv, TablesInv, TablesType, MapsAreExact, OwnersAreExact, LeasesAreExact,
                PagesAreSound
  <1>4. AccessInv'
    <2>1. PublishedType' /\ BackedInv' /\ DirectInv'
      BY <1>1 DEF PageInv, AccessInv, PublishedType, BackedInv, DirectInv
    <2>2. AccessType'
      BY <1>2 DEF PageInv, AccessInv, AccessType
    <2>3. AccessesAreExact'
      BY <1>1, <1>2 DEF PageInv, AccessInv, AccessesAreExact, NoRecycledAccess
    <2> QED
      BY <2>1, <2>2, <2>3 DEF AccessInv
  <1>5. ProgressInv'
    <2>1. OperationInv' /\ CommitInv'
      BY <1>1 DEF PageInv, ProgressInv, OperationInv, CommitInv, In, Committing, Publishing,
                  WithAliases, Aliases
    <2>2. EntriesInv'
      BY <1>1 DEF PageInv, ProgressInv, EntriesInv, Stale, Committing, In, WithAliases, Aliases,
                  JobPages
    <2>3. ViewsInv'
      BY <1>1 DEF PageInv, ProgressInv, ViewsInv
    <2>4. RemapInv'
      BY <1>1, <1>2 DEF PageInv, ProgressInv, RemapInv
    <2>5. ReclaimInv'
      BY <1>1, <1>2 DEF PageInv, ProgressInv, ReclaimInv
    <2> QED
      BY <2>1, <2>2, <2>3, <2>4, <2>5 DEF ProgressInv
  <1> QED
    BY <1>3, <1>4, <1>5 DEF PageInv

LEMMA AccessKeeps ==
  ASSUME PageInv, NEW r \in Readers, Access(r)
  PROVE  PageInv'
  <1>1. /\ rd[r] \in AccessRecord /\ (rd[r].at # "away" => rd[r].page \in Guest)
        /\ rd \in [Readers -> AccessRecord]
    BY DEF PageInv, AccessInv, AccessType
  <1>2. Away \in AccessRecord /\ Away.at = "away"
    BY DEF Away, AccessRecord
  <1>3. UNCHANGED <<tables, published, pending, mgr>>
    BY DEF Access, AccessBegin, AccessTest, AccessLoad, AccessTouch, AccessSlow
  <1>4. ASSUME NEW g \in Guest, AccessBegin(r, g)
        PROVE  PageInv'
    <2>1. PICK a : a = [Away EXCEPT !.at = "guard", !.page = g]
      OBVIOUS
    <2>2. a \in AccessRecord /\ a.at = "guard" /\ a.page = g
      BY <2>1 DEF Away, AccessRecord
    <2>3. rd' = [rd EXCEPT ![r] = a]
      BY <1>4, <2>1 DEF AccessBegin
    <2> QED
      BY <1>3, <2>2, <2>3, AccessMoves
  <1>5. CASE AccessTest(r)
    <2>1. PICK at \in {"slow", "load"} : at = IF pending THEN "slow" ELSE "load"
      OBVIOUS
    <2>2. PICK a : a = [rd[r] EXCEPT !.at = at]
      OBVIOUS
    <2>3. a \in AccessRecord /\ a.at = at /\ a.page = rd[r].page
      BY <1>1, <2>2 DEF AccessRecord
    <2>4. rd' = [rd EXCEPT ![r] = a] /\ rd[r].at = "guard"
      BY <1>1, <1>5, <2>1, <2>2 DEF AccessTest
    <2>5. at = "load" => ~pending
      BY <2>1
    <2> QED
      BY <1>1, <1>3, <2>1, <2>3, <2>4, <2>5, AccessMoves
  <1>6. CASE AccessLoad(r)
    <2>1. PICK g \in Guest : g = rd[r].page
      BY <1>1, <1>6 DEF AccessLoad
    <2>2. PICK entry \in Entry : entry = hot[g]
      BY DEF PageInv, AccessInv, PublishedType
    <2>3. CASE Accessible(entry)
      <3>1. PICK a : a = [rd[r] EXCEPT !.at = "touch", !.phys = entry.phys, !.direct = entry.direct]
        OBVIOUS
      <3>2. /\ a \in AccessRecord /\ a.at = "touch" /\ a.phys = entry.phys /\ a.page = g
            /\ a.direct = entry.direct
        BY <1>1, <2>1, <2>2, <3>1 DEF AccessRecord, Entry
      <3>3. rd' = [rd EXCEPT ![r] = a] /\ rd[r].at = "load"
        BY <1>1, <1>6, <2>1, <2>2, <2>3, <3>1 DEF AccessLoad
      <3>4. entry.phys # None /\ entry.phys \in Phys /\ own[entry.phys] # "free"
        BY <2>2, <2>3 DEF Accessible, Entry, PageInv, AccessInv, BackedInv
      <3>5. entry.direct => hot[g].direct /\ aperture[g] = entry.phys
        BY <2>2 DEF PageInv, AccessInv, DirectInv
      <3> QED
        BY <1>3, <3>2, <3>3, <3>4, <3>5, AccessMoves
    <2>4. CASE ~Accessible(entry)
      <3>1. PICK a : a = [rd[r] EXCEPT !.at = "slow"]
        OBVIOUS
      <3>2. a \in AccessRecord /\ a.at = "slow" /\ a.page = g
        BY <1>1, <2>1, <3>1 DEF AccessRecord
      <3>3. rd' = [rd EXCEPT ![r] = a]
        BY <1>1, <1>6, <2>1, <2>2, <2>4, <3>1 DEF AccessLoad
      <3> QED
        BY <1>3, <3>2, <3>3, AccessMoves
    <2> QED
      BY <2>3, <2>4
  <1>7. CASE AccessTouch(r) \/ AccessSlow(r)
    <2>1. rd' = [rd EXCEPT ![r] = Away]
      BY <1>7 DEF AccessTouch, AccessSlow
    <2> QED
      BY <1>2, <1>3, <2>1, AccessMoves
  <1> QED
    BY <1>4, <1>5, <1>6, <1>7 DEF Access

-----------------------------------------------------------------------------
(* The theorems.                                                           *)

LEMMA InitKeeps == Init => PageInv
  <1> SUFFICES ASSUME Init PROVE PageInv
    OBVIOUS
  <1>1. \A g \in Guest : page[g] = FreePage /\ hot[g] = NoEntry /\ aperture[g] = None
    BY DEF Init
  <1>2. \A p \in Phys : own[p] = "free" /\ maps[p] = {} /\ lease[p] = NoLease /\ view[p] = "access"
    BY DEF Init
  <1>3. /\ FreePage \in PageRecord /\ NoEntry \in Entry /\ NoLease \in LeaseRecord
        /\ Away \in AccessRecord
    BY DEF FreePage, PageRecord, NoEntry, Entry, NoLease, LeaseRecord, Away, AccessRecord, Protects
  <1>4. /\ FreePage.state = "free" /\ FreePage.phys = None /\ ~FreePage.explicit
        /\ NoEntry.phys = None /\ ~NoEntry.direct /\ NoLease.alloc = {}
        /\ NoLease.protect = "access" /\ Away.at = "away"
    BY DEF FreePage, NoEntry, NoLease, Away
  <1>5. TablesType /\ PublishedType
    BY <1>3 DEF Init, TablesType, PublishedType, Protects
  <1>6. OwnersAreExact /\ LeasesAreExact
    BY <1>2, <1>4 DEF OwnersAreExact, LeasesAreExact
  <1>7. PagesAreSound
    <2>1. \A g \in Xex : g \in Guest /\ Alias[g] \in Guest
      BY AliasFacts
    <2> QED
      BY <1>1, <1>4, <2>1 DEF PagesAreSound
  <1>8. AccessType /\ BackedInv /\ DirectInv /\ AccessesAreExact
    BY <1>1, <1>3, <1>4 DEF Init, AccessType, BackedInv, DirectInv, AccessesAreExact, NoRecycledAccess
  <1>9. mgr = Idle /\ mgr.at = "idle" /\ mgr \in Operation /\ mgr.views = {}
    BY IdleFacts DEF Init
  <1>10. OperationInv /\ CommitInv /\ RemapInv /\ ReclaimInv
    BY <1>9 DEF OperationInv, CommitInv, RemapInv, ReclaimInv, In, Committing, Publishing
  <1>11. EntriesInv /\ ViewsInv
    BY <1>1, <1>2, <1>4, <1>9 DEF EntriesInv, ViewsInv, Committing, In
  <1>12. MapsAreExact
    <2>1. \A g \in Guest : page[g].phys = None
      BY <1>1, <1>4
    <2>2. \A p \in Phys : \A g \in Guest : page[g].phys # p
      BY <2>1, PagesAreNumbers
    <2>3. \A p \in Phys : {g \in Guest : page[g].phys = p} = {}
      BY <2>2
    <2> QED
      BY <1>2, <2>3 DEF MapsAreExact
  <1> QED
    BY <1>5, <1>6, <1>7, <1>8, <1>10, <1>11, <1>12 DEF PageInv, TablesInv, ProgressInv, AccessInv

LEMMA StutterKeeps ==
  ASSUME PageInv, UNCHANGED vars
  PROVE  PageInv'
  BY DEF vars, tables, published, PageInv, TablesInv, TablesType, MapsAreExact, OwnersAreExact,
         LeasesAreExact, PagesAreSound, ProgressInv, OperationInv, CommitInv, EntriesInv, ViewsInv,
         RemapInv, ReclaimInv, In, Committing, Publishing, Stale, AccessInv, PublishedType,
         AccessType, BackedInv, DirectInv, AccessesAreExact, NoRecycledAccess

LEMMA NextKeeps ==
  ASSUME PageInv, Next
  PROVE  PageInv'
  <1>1. ASSUME NEW R \in Ranges, NEW protect \in Asks,
               \/ Reserve(R, protect) \/ CommitFree(R, protect) \/ CommitReserved(R, protect)
               \/ \E T \in Runs : MapVirtual(R, T, protect)
        PROVE  PageInv'
    BY <1>1, ReserveKeeps, CommitFreeKeeps, CommitReservedKeeps, MapVirtualKeeps
  <1>2. ASSUME NEW R \in Ranges, NEW protect \in Protects, Protect(R, protect)
        PROVE  PageInv'
    BY <1>2, ProtectKeeps
  <1>3. ASSUME NEW R \in Ranges, Decommit(R) \/ Release(R)
        PROVE  PageInv'
    <2>1. CASE Decommit(R)
      BY <2>1, UnmapKeeps DEF Decommit
    <2>2. CASE Release(R)
      BY <2>2, UnmapKeeps DEF Release
    <2> QED
      BY <1>3, <2>1, <2>2
  <1>4. ASSUME NEW T \in Runs,
               \/ AllocatePhysical(T) \/ FreePhysical(T)
               \/ \E protect \in Protects : ProtectPhysical(T, protect)
        PROVE  PageInv'
    BY <1>4, AllocatePhysicalKeeps, FreePhysicalKeeps, ProtectPhysicalKeeps
  <1>5. CASE \/ PublishEntry \/ PublishedRange \/ Remap \/ Remapped \/ PublishView \/ Published
    BY <1>5, PublishEntryKeeps, PublishedRangeKeeps, RemapKeeps, RemappedKeeps, PublishViewKeeps,
       PublishedKeeps
  <1>6. CASE Drain \/ GiveUp \/ TakeRetired
    BY <1>6, DrainKeeps, TakeRetiredKeeps
  <1>7. CASE CommitPage \/ CommitFails \/ Committed \/ \E p \in Phys : CommitBacking(p)
    BY <1>7, CommitPageKeeps, CommitFailsKeeps, CommittedKeeps, CommitBackingKeeps
  <1>8. CASE (\E T \in Runs : AllocateRun(T)) \/ NoRun \/ MapPages \/ MapFails
    BY <1>8, AllocateRunKeeps, AllocationFails, MapPagesKeeps
  <1>9. CASE \E r \in Readers : Access(r)
    BY <1>9, AccessKeeps
  <1> QED
    BY <1>1, <1>2, <1>3, <1>4, <1>5, <1>6, <1>7, <1>8, <1>9 DEF Next, Manager, Call

LEMMA PagesAlways == Spec => []PageInv
  <1>1. PageInv /\ [Next]_vars => PageInv'
    BY NextKeeps, StutterKeeps
  <1> QED
    BY InitKeeps, <1>1, PTL DEF Spec

\* validate_invariants() holds whenever mutex_ is free, for any number of pages:
\* mappings, reverse mappings, allocations and the two XEX views agree after
\* every operation, a commit that failed half way included.
THEOREM OwnershipStaysConsistent == Spec => []OwnershipConsistent
  <1>1. PageInv => OwnershipConsistent
    <2> SUFFICES ASSUME PageInv PROVE OwnershipConsistent
      OBVIOUS
    <2>1. ASSUME NEW p \in Phys
          PROVE  /\ maps[p] = {g \in Guest : page[g].phys = p}
                 /\ own[p] \in {"free", "retired"} => maps[p] = {}
                 /\ own[p] \in {"anonymous", "pending"} => maps[p] # {}
                 /\ (own[p] = "explicit") = (lease[p].alloc # {})
                 /\ \A q \in lease[p].alloc : lease[q].alloc = lease[p].alloc
      <3>1. maps[p] = {g \in Guest : page[g].phys = p}
        BY DEF PageInv, TablesInv, MapsAreExact
      <3>2. /\ own[p] \in {"free", "retired"} => maps[p] = {}
            /\ own[p] \in {"anonymous", "pending"} => maps[p] # {}
        BY DEF PageInv, TablesInv, OwnersAreExact
      <3>3. /\ (own[p] = "explicit") = (lease[p].alloc # {})
            /\ \A q \in lease[p].alloc : lease[q].alloc = lease[p].alloc
        BY DEF PageInv, TablesInv, LeasesAreExact, NoLease
      <3> QED
        BY <3>1, <3>2, <3>3
    <2>2. ASSUME NEW g \in Guest
          PROVE  /\ (page[g].state = "committed") = (page[g].phys # None)
                 /\ page[g].explicit => page[g].state = "committed"
      BY DEF PageInv, TablesInv, PagesAreSound
    <2>3. ASSUME NEW g \in Xex
          PROVE  /\ page[Alias[g]].state = page[g].state
                 /\ page[Alias[g]].phys = page[g].phys
                 /\ page[Alias[g]].protect = page[g].protect
      BY DEF PageInv, TablesInv, PagesAreSound
    <2> QED
      BY <2>1, <2>2, <2>3 DEF OwnershipConsistent
  <1> QED
    BY <1>1, PagesAlways, PTL

\* An access touches the page that its hot entry named, through the aperture
\* too, and that page was not recycled: the guards of resolve_fast(), the drain
\* of reclaim_retired_physical_pages() and the two-phase remap are enough for
\* any number of accesses.
THEOREM AccessesStayExact == Spec => []AccessesAreExact
  <1>1. PageInv => AccessesAreExact
    BY DEF PageInv, AccessInv
  <1> QED
    BY <1>1, PagesAlways, PTL

\* Whenever mutex_ is free, every hot entry translates as the page table does,
\* in both XEX views, and every physical view has its page's protection.
THEOREM TranslationStaysPublished == Spec => []TranslationIsPublished
  <1>1. PageInv => TranslationIsPublished
    BY IdleIsPublished DEF PageInv, TranslationIsPublished
  <1> QED
    BY <1>1, PagesAlways, PTL

=============================================================================
