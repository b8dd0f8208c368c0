----------------------------- MODULE MirrorProofs -----------------------------
(***************************************************************************)
(* Proofs about GpuMirror: for any number of cells, pages and writers, any *)
(* views and any journal, the boundary that a mirror operation reads is    *)
(* complete for the stores it counts, and RAM and the mirror hold the      *)
(* newest bytes of what the tracker says they hold, of every cell that no  *)
(* gap has exposed.                                                        *)
(***************************************************************************)
EXTENDS GpuMirror, FiniteSetTheorems, TLAPS

\* A store that has its epoch and is not in the journal yet.
Flying(w) == cpu[w].at \in {"page", "range", "journal"}

Syncing == {"collect", "wait", "read", "check"} \cup Ingesting

\* The physical write window belongs to the readback in these steps.
InWindow ==
    \/ gpu.at \in {"prepare", "write", "commit", "close"}
    \/ (gpu.at \in Syncing /\ gpu.then \in {"prepare", "commit"})

-----------------------------------------------------------------------------
(***************************************************************************)
(* The first invariant: the writers that have an epoch are counted or      *)
(* hold the commit gate, and the window keeps both out; a boundary has no  *)
(* counted store below it, and an uncounted one is exposed.                *)
(***************************************************************************)

WriterRecord ==
    [at : {"idle", "store", "epoch", "page", "range", "journal", "mark", "summary"},
     path : {"plain", "slow", "fast", "native", None}, cell : Cells \cup {None},
     epoch : Nat, counted : BOOLEAN]

GpuRecord ==
    [at : {"idle", "upload", "stage", "copy", "submit", "readback", "download", "open",
           "prepare", "write", "commit", "close"} \cup Syncing,
     op : Ops \cup {None}, req : SUBSET Cells, todo : SUBSET Cells, cell : Cells \cup {None},
     through : Nat, next : Nat, ignored : Nat, found : SUBSET Cells,
     then : {"upload", "readback", "prepare", "commit", None}]

MirrorType ==
    /\ epoch \in Nat /\ pageEpoch \in [Pages -> Nat]
    /\ journal \in [0..(Capacity - 1) -> [epoch : Nat, cell : Cells \cup {None}]]
    /\ writers \in Nat /\ dirty \subseteq Pages /\ window \in BOOLEAN
    /\ cpu \in [Writers -> WriterRecord]
    /\ synced \in Nat /\ cpuDirty \subseteq Cells /\ gpuDirty \subseteq Cells /\ valid \subseteq Cells
    /\ gpu \in GpuRecord
    /\ fresh \in [Cells -> SUBSET Places] /\ newest \in [Cells -> Nat \cup {None}]
    /\ raced \subseteq Cells /\ exposed \subseteq Cells

\* What a writer is, by where it is.
WriterShape ==
    \A w \in Writers :
        /\ cpu[w].at \in {"idle", "mark", "summary"} => ~cpu[w].counted
        /\ cpu[w].at \notin {"idle", "mark", "summary"} =>
             /\ cpu[w].path \in {"plain", "slow", "fast"}
             /\ cpu[w].path = "plain" => cpu[w].counted
        /\ Flying(w) => cpu[w].epoch <= epoch
        /\ ~At(w, "idle") => cpu[w].cell \in Cells

WritersCounted == writers = Cardinality({w \in Writers : cpu[w].counted})

\* What an operation is, by where it is.
GpuShape ==
    /\ gpu.at # "idle" => gpu.op \in Ops /\ (Writes(gpu.op) => gpu.req \subseteq GpuCells)
    /\ gpu.at \in Syncing => gpu.then \in {"upload", "readback", "prepare", "commit"}
    /\ gpu.at \in Syncing /\ gpu.then = "commit" => gpu.at \in Ingesting
    /\ gpu.at \in {"copy", "submit", "open"} \/ InWindow => gpu.cell \in Cells
    /\ gpu.at = "check" \/ gpu.at \in Ingesting => gpu.through <= epoch
    /\ gpu.at \in Ingesting => gpu.next > synced /\ gpu.next <= gpu.through + 1
    /\ gpu.at \in {"before", "range", "after"} => gpu.next <= gpu.through

JournalShape ==
    /\ \A i \in DOMAIN journal : journal[i].cell = None => journal[i].epoch = 0
    /\ \A w \in Writers : At(w, "journal") => journal[Index(cpu[w].epoch)].cell # None
    /\ gpu.at = "range" => Entry.cell # None

WindowShut ==
    /\ InWindow => window
    /\ window => \A w \in Writers : cpu[w].at \in {"idle", "mark", "summary"}

\* A store is above an epoch, or it is uncounted and, until its page shows it,
\* exposed.
Ahead(w, e) == cpu[w].epoch > e \/ (~cpu[w].counted /\ (At(w, "page") => cpu[w].cell \in exposed))

BoundaryAhead ==
    /\ gpu.at \in Ingesting => \A w \in Writers : Flying(w) => Ahead(w, gpu.through)
    /\ \A w \in Writers : Flying(w) => Ahead(w, synced)
    /\ synced <= epoch

BoundaryInv ==
    MirrorType /\ WriterShape /\ WritersCounted /\ GpuShape /\ JournalShape /\ WindowShut /\ BoundaryAhead

-----------------------------------------------------------------------------
(***************************************************************************)
(* The second: what has been published is found, in the journal while it   *)
(* is there and by its page otherwise.                                     *)
(***************************************************************************)

EpochsBounded ==
    /\ \A p \in Pages : pageEpoch[p] <= epoch
    /\ \A i \in DOMAIN journal : journal[i].epoch <= epoch
    /\ \A c \in Cells : newest[c] # None => newest[c] <= epoch

EpochsUnique ==
    /\ \A v, w \in Writers : Flying(v) /\ Flying(w) /\ cpu[v].epoch = cpu[w].epoch => v = w
    /\ \A w \in Writers, c \in Cells : Flying(w) /\ newest[c] = cpu[w].epoch => cpu[w].cell = c
    /\ \A w \in Writers : Flying(w) =>
         newest[cpu[w].cell] = None \/ newest[cpu[w].cell] >= cpu[w].epoch

\* The cells that await collection are on marked pages, and every marked page
\* has one.
MarksInv ==
    /\ \A c \in Cells : newest[c] = None => Page[c] \in dirty
    /\ \A p \in dirty : \E c \in Cells : Page[c] = p /\ newest[c] = None

\* The readback's own write while the tracker takes it in.
OwnWrite == gpu.at \in Ingesting /\ gpu.then = "commit"

\* An entry is in its epoch's slot, and no store still to publish has that
\* epoch.  A slot about to get an epoch has that store's range, unless stores
\* share it: then it is exposed, and so are they.
SlotsInv ==
    /\ \A i \in DOMAIN journal : journal[i].epoch = 0 \/ Index(journal[i].epoch) = i
    /\ \A w \in Writers, i \in DOMAIN journal : Flying(w) => journal[i].epoch # cpu[w].epoch
    /\ \A w \in Writers : At(w, "journal") =>
         LET slot == journal[Index(cpu[w].epoch)] IN
         /\ slot.cell = cpu[w].cell \/ {slot.cell, cpu[w].cell} \subseteq exposed
         /\ slot.epoch > cpu[w].epoch => slot.cell \in exposed
    /\ \A v, w \in Writers :
         v # w /\ At(v, "journal") /\ At(w, "journal") /\ Index(cpu[v].epoch) = Index(cpu[w].epoch) =>
            {journal[Index(cpu[w].epoch)].cell, cpu[v].cell, cpu[w].cell} \subseteq exposed

\* The entry of a cell's newest store names that cell, unless another store
\* has its range there already.
NewestNamed ==
    \A c \in Cells \ exposed :
        newest[c] # None /\ newest[c] > 0 /\ journal[Index(newest[c])].epoch = newest[c] =>
            \/ journal[Index(newest[c])].cell = c
            \/ \E w \in InSlot(Index(newest[c])) : cpu[w].epoch # newest[c]

\* Whoever an entry names has a store as new as that, unless the tracker has
\* taken the entry in or it is the readback's.
EntriesCovered ==
    \A i \in DOMAIN journal : \A c \in Cells \ exposed : journal[i].cell = c =>
        \/ newest[c] = None \/ newest[c] >= journal[i].epoch
        \/ journal[i].epoch <= synced
        \/ OwnWrite /\ journal[i].epoch = gpu.ignored

\* The page of a store above an epoch is above it, or will be.
PageShows(e) ==
    \A c \in Cells \ exposed : newest[c] # None /\ newest[c] > e =>
        \/ pageEpoch[Page[c]] > e
        \/ \E w \in Writers : At(w, "page") /\ cpu[w].cell = c /\ cpu[w].epoch = newest[c]

PagesShow ==
    /\ PageShows(synced)
    /\ gpu.at = "check" \/ gpu.at \in Ingesting => PageShows(gpu.through)

\* A page is newer than the tracker only for a store to one of its cells, or
\* for the readback's.
PagesCovered ==
    \A p \in Pages :
        \/ pageEpoch[p] <= synced
        \/ OwnWrite
        \/ \E c \in Cells : Page[c] = p /\ (newest[c] = None \/ newest[c] >= pageEpoch[p])

\* An entry that was looked up has given its cell, unless its slot has been
\* taken over meanwhile, which stays so; the readback's own entry is nobody's
\* newest store.
LookupInv ==
    /\ gpu.at \in {"range", "after"} => \A w \in Writers : Flying(w) => cpu[w].epoch # gpu.next
    /\ gpu.at \in {"before", "range", "after"} =>
         \A c \in Cells \ exposed : newest[c] # None /\ newest[c] > synced =>
            /\ newest[c] < gpu.next => c \in gpu.found
            /\ gpu.at = "after" /\ newest[c] = gpu.next /\ Entry.epoch = gpu.next => c \in gpu.found
    /\ gpu.at \in Ingesting =>
         /\ gpu.ignored <= epoch
         /\ \A c \in Cells : newest[c] # None /\ newest[c] > synced => newest[c] # gpu.ignored

\* In the window the tracker is level with the epoch, but for the readback's
\* own write, which the journal holds.
LevelInv ==
    /\ gpu.at \in {"check"} \cup Ingesting /\ gpu.then = "prepare" => gpu.through = epoch
    /\ gpu.at \in {"prepare", "write"} => synced = epoch
    /\ OwnWrite =>
         /\ gpu.at # "pages" /\ gpu.found = {}
         /\ epoch = synced + 1 /\ gpu.next = epoch /\ gpu.through = epoch /\ gpu.ignored = epoch
         /\ Entry.epoch = epoch

PublishInv ==
    /\ EpochsBounded /\ EpochsUnique /\ MarksInv /\ SlotsInv /\ NewestNamed /\ EntriesCovered
    /\ PagesShow /\ PagesCovered /\ LookupInv /\ LevelInv

-----------------------------------------------------------------------------
(***************************************************************************)
(* The third: who holds the newest bytes.                                  *)
(***************************************************************************)

TrackerShape ==
    /\ valid = Cells \ cpuDirty
    /\ gpuDirty \subseteq valid \cap GpuCells

\* The mirror's share of MirrorIsCurrent: only an upload under way excuses it.
MirrorInv ==
    \A c \in valid \ exposed : \/ Pending(c) \/ "mirror" \in fresh[c]
                               \/ gpu.at \in {"copy", "submit"} /\ gpu.cell = c

\* What has been found will be applied: not if the last entry's slot has been
\* taken over.
Exact == gpu.at \in {"before", "range"} \/ (gpu.at = "after" /\ Entry.epoch = gpu.next)

RamInv ==
    /\ RamIsCurrent
    /\ \A c \in Cells \ exposed : Pending(c) => "ram" \in fresh[c]
    /\ Exact => \A c \in gpu.found \ exposed : "ram" \in fresh[c]

UploadInv ==
    /\ gpu.at \in {"stage", "copy", "submit"} => gpu.todo \cap gpuDirty = {}
    /\ gpu.at \in {"copy", "submit"} => gpu.cell \notin gpuDirty
    /\ gpu.at = "submit" => gpu.cell \in exposed \/ Pending(gpu.cell) \/ "stage" \in fresh[gpu.cell]

\* A readback writes only what it has the newest bytes of.
ReadbackInv ==
    /\ gpu.at \in {"download", "open"} \/ InWindow =>
         gpuDirty \cap gpu.req \subseteq gpu.todo \cup {gpu.cell}
    /\ gpu.at = "download" => gpuDirty \cap gpu.req \subseteq gpu.todo
    /\ gpu.at = "open" \/ InWindow =>
         \/ gpu.cell \in exposed \/ gpu.cell \notin gpuDirty
         \/ Pending(gpu.cell) \/ "stage" \in fresh[gpu.cell]
    /\ gpu.at = "write" => gpu.cell \in gpuDirty
    /\ gpu.at = "commit" \/ OwnWrite => gpu.cell \in exposed \/ "ram" \in fresh[gpu.cell]
    /\ gpu.at = "close" => gpu.cell \notin gpuDirty

\* What no store has touched since the request has been taken in when the
\* upload is planned, and then it is in the mirror, on its way, or to do.
RequestInv ==
    /\ gpu.at # "idle" => \A w \in Writers : ~At(w, "idle") => cpu[w].cell \in raced
    /\ \A c \in gpu.req \ (raced \cup exposed) :
         /\ gpu.at \notin {"idle", "collect"} => newest[c] # None
         /\ gpu.at = "check" \/ gpu.at \in Ingesting => newest[c] <= gpu.through
         /\ gpu.at = "upload" => newest[c] <= synced
         /\ gpu.at \in {"stage", "copy", "submit"} =>
              \/ "mirror" \in fresh[c]
              \/ c \in gpu.todo
              \/ gpu.at \in {"copy", "submit"} /\ c = gpu.cell
         /\ gpu.at = "submit" /\ c = gpu.cell => "stage" \in fresh[c]

FreshInv == TrackerShape /\ MirrorInv /\ RamInv /\ UploadInv /\ ReadbackInv /\ RequestInv

-----------------------------------------------------------------------------
(***************************************************************************)
(* What a step does to the records.                                        *)
(***************************************************************************)

\* The fields of the GPU thread's record after a step.
GpuBecomes(at, op, req, todo, cell, through, next, ignored, found, then) ==
    /\ gpu'.at = at /\ gpu'.op = op /\ gpu'.req = req /\ gpu'.todo = todo /\ gpu'.cell = cell
    /\ gpu'.through = through /\ gpu'.next = next /\ gpu'.ignored = ignored
    /\ gpu'.found = found /\ gpu'.then = then

\* Only the label moves.
Moves(l) == GpuBecomes(l, gpu.op, gpu.req, gpu.todo, gpu.cell, gpu.through, gpu.next,
                       gpu.ignored, gpu.found, gpu.then)

IngestLabel(through, then) ==
    IF through <= synced THEN then ELSE IF through - synced > Capacity THEN "pages" ELSE "before"

LEMMA GotoMoves ==
  ASSUME gpu \in GpuRecord, NEW l, GpuGoto(l) PROVE Moves(l) /\ gpu' = [gpu EXCEPT !.at = l]
  BY DEF GpuRecord, GpuGoto, Moves, GpuBecomes

LEMMA ReturnIdles ==
  ASSUME Return
  PROVE  GpuBecomes("idle", None, {}, {}, None, 0, 0, 0, {}, None)
  BY DEF Return, IdleGpu, GpuBecomes

LEMMA IngestBecomes ==
  ASSUME gpu \in GpuRecord, NEW through, NEW ignored, NEW then, Ingest(through, ignored, then)
  PROVE  GpuBecomes(IngestLabel(through, then), gpu.op, gpu.req, gpu.todo, gpu.cell,
                    through, synced + 1, ignored, {}, then)
  BY DEF GpuRecord, Ingest, IngestLabel, GpuBecomes

LEMMA RequestBecomes ==
  ASSUME NEW op, NEW cells, Request(op, cells)
  PROVE  GpuBecomes("collect", op, cells, {}, None, 0, 0, 0, {},
                    IF op = "visible" THEN "readback" ELSE "upload")
  BY DEF Request, IdleGpu, GpuBecomes

LEMMA ReadBecomes ==
  ASSUME gpu \in GpuRecord, BoundaryRead
  PROVE  GpuBecomes("check", gpu.op, gpu.req, gpu.todo, gpu.cell, epoch, gpu.next,
                    gpu.ignored, gpu.found, gpu.then)
  BY DEF GpuRecord, BoundaryRead, GpuBecomes

LEMMA RangeBecomes ==
  ASSUME gpu \in GpuRecord, JournalRange
  PROVE  GpuBecomes("after", gpu.op, gpu.req, gpu.todo, gpu.cell, gpu.through, gpu.next, gpu.ignored,
                    IF gpu.next = gpu.ignored THEN gpu.found ELSE gpu.found \cup {Entry.cell}, gpu.then)
  BY DEF GpuRecord, JournalRange, GpuBecomes

LEMMA AfterBecomes ==
  ASSUME gpu \in GpuRecord, JournalAfter
  PROVE  GpuBecomes(IF Entry.epoch # gpu.next THEN "pages"
                    ELSE IF gpu.next = gpu.through THEN gpu.then ELSE "before",
                    gpu.op, gpu.req, gpu.todo, gpu.cell, gpu.through, gpu.next + 1, gpu.ignored,
                    gpu.found, gpu.then)
  BY DEF GpuRecord, JournalAfter, GpuBecomes

LEMMA PlansBecome ==
  ASSUME gpu \in GpuRecord
  PROVE  /\ PlanUpload =>
              GpuBecomes("stage", gpu.op, gpu.req, (cpuDirty \cap gpu.req) \cup (gpu.req \ valid), gpu.cell,
                         gpu.through, gpu.next, gpu.ignored, gpu.found, gpu.then)
         /\ PlanReadback =>
              GpuBecomes("download", gpu.op, gpu.req, gpuDirty \cap gpu.req, gpu.cell,
                         gpu.through, gpu.next, gpu.ignored, gpu.found, gpu.then)
  BY DEF GpuRecord, PlanUpload, PlanReadback, GpuBecomes

LEMMA TakesBecome ==
  ASSUME gpu \in GpuRecord, NEW c
  PROVE  /\ UploadCommit(c) =>
              GpuBecomes("copy", gpu.op, gpu.req, gpu.todo \ {c}, c,
                         gpu.through, gpu.next, gpu.ignored, gpu.found, gpu.then)
         /\ DownloadCopy(c) =>
              GpuBecomes("open", gpu.op, gpu.req, gpu.todo \ {c}, c,
                         gpu.through, gpu.next, gpu.ignored, gpu.found, gpu.then)
  BY DEF GpuRecord, UploadCommit, DownloadCopy, GpuBecomes

LEMMA LeavesBecome ==
  ASSUME gpu \in GpuRecord
  PROVE  /\ UploadSubmit =>
              GpuBecomes("stage", gpu.op, gpu.req, gpu.todo, None,
                         gpu.through, gpu.next, gpu.ignored, gpu.found, gpu.then)
         /\ WindowClose =>
              GpuBecomes("download", gpu.op, gpu.req, gpu.todo, None,
                         gpu.through, gpu.next, gpu.ignored, gpu.found, gpu.then)
  BY DEF GpuRecord, UploadSubmit, WindowClose, GpuBecomes

LEMMA OpenBecomes ==
  ASSUME gpu \in GpuRecord, WindowOpen
  PROVE  GpuBecomes("collect", gpu.op, gpu.req, gpu.todo, gpu.cell, gpu.through, gpu.next, gpu.ignored,
                    gpu.found, "prepare")
  BY DEF GpuRecord, WindowOpen, GpuBecomes

LEMMA ResolveBecomes ==
  ASSUME gpu \in GpuRecord, GpuWrite, gpu.op = "resolve"
  PROVE  GpuBecomes("collect", gpu.op, gpu.req, gpu.todo, gpu.cell, gpu.through, gpu.next, gpu.ignored,
                    gpu.found, "readback")
  BY DEF GpuRecord, GpuWrite, GpuBecomes

\* A record of the GPU thread is known by its fields.
LEMMA GpuRecordOf ==
  ASSUME gpu \in GpuRecord,
         NEW at \in {"idle", "upload", "stage", "copy", "submit", "readback", "download", "open",
                     "prepare", "write", "commit", "close"} \cup Syncing,
         NEW todo \in SUBSET Cells, NEW cell \in Cells \cup {None}, NEW through \in Nat, NEW next \in Nat,
         NEW ignored \in Nat, NEW found \in SUBSET Cells,
         NEW then \in {"upload", "readback", "prepare", "commit", None}
  PROVE  /\ [gpu EXCEPT !.at = at] \in GpuRecord
         /\ [gpu EXCEPT !.at = at, !.through = through] \in GpuRecord
         /\ [gpu EXCEPT !.at = at, !.through = through, !.next = next, !.ignored = ignored,
                        !.found = found, !.then = then] \in GpuRecord
         /\ [gpu EXCEPT !.at = at, !.found = found] \in GpuRecord
         /\ [gpu EXCEPT !.at = at, !.next = next] \in GpuRecord
         /\ [gpu EXCEPT !.at = at, !.todo = todo] \in GpuRecord
         /\ [gpu EXCEPT !.at = at, !.cell = cell, !.todo = todo] \in GpuRecord
         /\ [gpu EXCEPT !.at = at, !.cell = cell] \in GpuRecord
         /\ [gpu EXCEPT !.at = at, !.then = then] \in GpuRecord
  <1>1. [gpu EXCEPT !.at = at] \in GpuRecord
    BY DEF GpuRecord
  <1>2. [gpu EXCEPT !.at = at, !.through = through] \in GpuRecord
    BY DEF GpuRecord
  <1>3. [gpu EXCEPT !.at = at, !.through = through, !.next = next, !.ignored = ignored, !.found = found, !.then = then] \in GpuRecord
    BY DEF GpuRecord
  <1>4. [gpu EXCEPT !.at = at, !.found = found] \in GpuRecord
    BY DEF GpuRecord
  <1>5. [gpu EXCEPT !.at = at, !.next = next] \in GpuRecord
    BY DEF GpuRecord
  <1>6. [gpu EXCEPT !.at = at, !.todo = todo] \in GpuRecord
    BY DEF GpuRecord
  <1>7. [gpu EXCEPT !.at = at, !.cell = cell, !.todo = todo] \in GpuRecord
    BY DEF GpuRecord
  <1>8. [gpu EXCEPT !.at = at, !.cell = cell] \in GpuRecord
    BY DEF GpuRecord
  <1>9. [gpu EXCEPT !.at = at, !.then = then] \in GpuRecord
    BY DEF GpuRecord
  <1> QED
    BY <1>1, <1>2, <1>3, <1>4, <1>5, <1>6, <1>7, <1>8, <1>9

LEMMA IngestTyped ==
  ASSUME gpu \in GpuRecord, synced \in Nat, NEW through \in Nat, NEW ignored \in Nat,
         NEW then \in {"upload", "readback", "prepare", "commit"}, Ingest(through, ignored, then)
  PROVE  gpu' \in GpuRecord
  <1>1. PICK l \in {"upload", "readback", "prepare", "commit"} \cup Syncing : l = IngestLabel(through, then)
    BY DEF IngestLabel, Syncing, Ingesting
  <1>2. PICK n \in Nat : n = synced + 1
    OBVIOUS
  <1>3. gpu' = [gpu EXCEPT !.at = l, !.through = through, !.next = n, !.ignored = ignored, !.found = {}, !.then = then]
    BY <1>1, <1>2 DEF Ingest, IngestLabel
  <1> QED
    BY <1>3 DEF GpuRecord

\* The fields of a writer's record after a step of it.
Becomes(w, at, path, cell, e, counted) ==
    /\ \A v \in Writers : v # w => cpu'[v] = cpu[v]
    /\ cpu'[w].at = at /\ cpu'[w].path = path /\ cpu'[w].cell = cell /\ cpu'[w].epoch = e
    /\ cpu'[w].counted <=> counted

LEMMA IndexRange == \A e \in Nat : Index(e) \in 0..(Capacity - 1)
  BY BoundAssumption DEF Index

Typed == cpu \in [Writers -> WriterRecord]

LEMMA LabelMoves ==
  ASSUME Typed, NEW w \in Writers, NEW l \in {"epoch", "page", "range", "journal", "summary"},
         cpu' = [cpu EXCEPT ![w].at = l]
  PROVE  Typed' /\ Becomes(w, l, cpu[w].path, cpu[w].cell, cpu[w].epoch, cpu[w].counted)
  <1>0. cpu[w] \in WriterRecord
    BY DEF Typed
  <1>1. cpu' = [cpu EXCEPT ![w] = [cpu[w] EXCEPT !.at = l]]
    OBVIOUS
  <1>2. [cpu[w] EXCEPT !.at = l] \in WriterRecord
    BY <1>0 DEF WriterRecord
  <1>3. Typed'
    BY <1>1, <1>2 DEF Typed
  <1>4. cpu'[w] = [cpu[w] EXCEPT !.at = l] /\ \A v \in Writers : v # w => cpu'[v] = cpu[v]
    BY <1>1 DEF Typed
  <1>5. Becomes(w, l, cpu[w].path, cpu[w].cell, cpu[w].epoch, cpu[w].counted)
    BY <1>0, <1>4 DEF WriterRecord, Becomes
  <1> QED
    BY <1>3, <1>5

LEMMA IdleMoves ==
  ASSUME Typed, NEW w \in Writers, cpu' = [cpu EXCEPT ![w] = IdleWriter]
  PROVE  Typed' /\ Becomes(w, "idle", None, None, 0, FALSE)
  <1>1. IdleWriter \in WriterRecord
    BY DEF IdleWriter, WriterRecord
  <1>2. Typed'
    BY <1>1 DEF Typed
  <1>3. cpu'[w] = IdleWriter /\ \A v \in Writers : v # w => cpu'[v] = cpu[v]
    BY DEF Typed
  <1> QED
    BY <1>2, <1>3 DEF Becomes, IdleWriter

LEMMA EpochMoves ==
  ASSUME Typed, epoch \in Nat, NEW w \in Writers, StoreEpoch(w)
  PROVE  Typed' /\ Becomes(w, "page", cpu[w].path, cpu[w].cell, epoch + 1, cpu[w].counted)
  <1>9. PICK e \in Nat : e = epoch + 1
    OBVIOUS
  <1>0. cpu[w] \in WriterRecord
    BY DEF Typed
  <1>1. cpu' = [cpu EXCEPT ![w] = [cpu[w] EXCEPT !.at = "page", !.epoch = e]]
    BY <1>9 DEF StoreEpoch
  <1>2. [cpu[w] EXCEPT !.at = "page", !.epoch = e] \in WriterRecord
    BY <1>0 DEF WriterRecord
  <1>3. Typed'
    BY <1>1, <1>2 DEF Typed
  <1>4. cpu'[w] = [cpu[w] EXCEPT !.at = "page", !.epoch = e] /\ \A v \in Writers : v # w => cpu'[v] = cpu[v]
    BY <1>1 DEF Typed
  <1>5. Becomes(w, "page", cpu[w].path, cpu[w].cell, e, cpu[w].counted)
    BY <1>0, <1>4 DEF WriterRecord, Becomes
  <1> QED
    BY <1>3, <1>5, <1>9

LEMMA CountMoves ==
  ASSUME Typed, NEW w \in Writers, ConditionalCount(w)
  PROVE  Typed' /\ Becomes(w, cpu[w].at, cpu[w].path, cpu[w].cell, cpu[w].epoch, TRUE)
  <1>0. cpu[w] \in WriterRecord
    BY DEF Typed
  <1>1. cpu' = [cpu EXCEPT ![w] = [cpu[w] EXCEPT !.counted = TRUE]]
    BY DEF ConditionalCount
  <1>2. [cpu[w] EXCEPT !.counted = TRUE] \in WriterRecord
    BY <1>0 DEF WriterRecord
  <1>3. Typed'
    BY <1>1, <1>2 DEF Typed
  <1>4. cpu'[w] = [cpu[w] EXCEPT !.counted = TRUE] /\ \A v \in Writers : v # w => cpu'[v] = cpu[v]
    BY <1>1 DEF Typed
  <1>5. Becomes(w, cpu[w].at, cpu[w].path, cpu[w].cell, cpu[w].epoch, TRUE)
    BY <1>0, <1>4 DEF WriterRecord, Becomes
  <1> QED
    BY <1>3, <1>5

LEMMA BeginMoves ==
  ASSUME Typed, NEW w \in Writers, NEW c \in Cells, NEW path \in {"plain", "slow", "fast", "native"},
         NEW l \in {"store", "mark"}, Begin(w, c, path, l)
  PROVE  Typed' /\ Becomes(w, l, path, c, 0, path = "plain")
  <1> DEFINE r == [at |-> l, path |-> path, cell |-> c, epoch |-> 0, counted |-> path = "plain"]
  <1>1. cpu' = [cpu EXCEPT ![w] = r]
    BY DEF Begin
  <1>2. (path = "plain") \in BOOLEAN
    OBVIOUS
  <1>3. r \in WriterRecord
    BY <1>2 DEF WriterRecord
  <1>4. r.at = l /\ r.path = path /\ r.cell = c /\ r.epoch = 0
    OBVIOUS
  <1>5. r.counted <=> path = "plain"
    OBVIOUS
  <1> HIDE DEF r
  <1>6. Typed'
    BY <1>1, <1>3 DEF Typed
  <1>7. cpu'[w] = r /\ \A v \in Writers : v # w => cpu'[v] = cpu[v]
    BY <1>1 DEF Typed
  <1> QED
    BY <1>4, <1>5, <1>6, <1>7 DEF Becomes

-----------------------------------------------------------------------------
(***************************************************************************)
(* The boundary invariant: the steps of writers.                           *)
(***************************************************************************)

LEMMA CountIsFinite ==
  IsFiniteSet({w \in Writers : cpu[w].counted}) /\ IsFiniteSet({w \in Writers : cpu[w].counted})'
  <1>1. {w \in Writers : cpu[w].counted} \subseteq Writers /\ {w \in Writers : cpu'[w].counted} \subseteq Writers
    OBVIOUS
  <1> QED
    BY <1>1, WriterAssumption, FS_Subset

LEMMA CountSame ==
  ASSUME WritersCounted, NEW w \in Writers, NEW a, NEW p, NEW c, NEW e, NEW k, Becomes(w, a, p, c, e, k),
         k <=> cpu[w].counted, writers' = writers
  PROVE  WritersCounted'
  <1>1. \A v \in Writers : cpu'[v].counted <=> cpu[v].counted
    BY DEF Becomes
  <1>2. {v \in Writers : cpu'[v].counted} = {v \in Writers : cpu[v].counted}
    BY <1>1
  <1> QED
    BY <1>2 DEF WritersCounted

LEMMA CountUp ==
  ASSUME WritersCounted, NEW w \in Writers, NEW a, NEW p, NEW c, NEW e, Becomes(w, a, p, c, e, TRUE),
         ~cpu[w].counted, writers' = writers + 1
  PROVE  WritersCounted'
  <1> DEFINE S == {v \in Writers : cpu[v].counted}
             T == {v \in Writers : cpu'[v].counted}
  <1>1. \A v \in Writers : v # w => (cpu'[v].counted <=> cpu[v].counted)
    BY DEF Becomes
  <1>2. cpu'[w].counted
    BY DEF Becomes
  <1>3. T = S \cup {w} /\ w \notin S
    BY <1>1, <1>2
  <1>4. Cardinality(T) = Cardinality(S) + 1
    BY <1>3, CountIsFinite, FS_AddElement
  <1> QED
    BY <1>4 DEF WritersCounted

LEMMA CountDown ==
  ASSUME WritersCounted, NEW w \in Writers, NEW a, NEW p, NEW c, NEW e, Becomes(w, a, p, c, e, FALSE),
         cpu[w].counted, writers' = writers - 1
  PROVE  WritersCounted' /\ writers' \in Nat
  <1> DEFINE S == {v \in Writers : cpu[v].counted}
             T == {v \in Writers : cpu'[v].counted}
  <1>1. \A v \in Writers : v # w => (cpu'[v].counted <=> cpu[v].counted)
    BY DEF Becomes
  <1>2. ~cpu'[w].counted
    BY DEF Becomes
  <1>3. T = S \ {w} /\ w \in S
    BY <1>1, <1>2
  <1>4. Cardinality(T) = Cardinality(S) - 1 /\ Cardinality(T) \in Nat
    BY <1>3, CountIsFinite, FS_RemoveElement, FS_CardinalityType
  <1> QED
    BY <1>4 DEF WritersCounted

LEMMA NobodyCounted ==
  ASSUME WritersCounted, writers = 0, NEW w \in Writers PROVE ~cpu[w].counted
  <1>1. Cardinality({v \in Writers : cpu[v].counted}) = 0
    BY DEF WritersCounted
  <1>2. {v \in Writers : cpu[v].counted} = {}
    BY <1>1, CountIsFinite, FS_EmptySet
  <1> QED
    BY <1>2

\* A writer's step leaves the GPU thread and the window alone.
LEMMA WriterFrame ==
  ASSUME BoundaryInv, NEW w \in Writers, NEW a, NEW p, NEW c, NEW e, NEW k, Becomes(w, a, p, c, e, k),
         UNCHANGED <<window, gpu, synced>>, epoch' \in Nat, epoch' >= epoch, e \in Nat,
         exposed \subseteq exposed',
         a \in {"idle", "mark", "summary"} => ~cpu'[w].counted,
         a \notin {"idle", "mark", "summary"} =>
            p \in {"plain", "slow", "fast"} /\ (p = "plain" => cpu'[w].counted) /\ ~window,
         a \in {"page", "range", "journal"} =>
            /\ e <= epoch'
            /\ \/ Flying(w) /\ e = cpu[w].epoch /\ a # "page" /\ (cpu'[w].counted <=> cpu[w].counted)
               \/ e > epoch,
         a # "idle" => c \in Cells
  PROVE  WriterShape' /\ GpuShape' /\ WindowShut' /\ BoundaryAhead'
  <1> USE DEF BoundaryInv
  <1>0. epoch \in Nat /\ synced \in Nat /\ gpu.through \in Nat /\ (\A v \in Writers : cpu[v].epoch \in Nat)
    BY DEF MirrorType, GpuRecord, WriterRecord
  <1>1. \A v \in Writers : v # w => cpu'[v] = cpu[v]
    BY DEF Becomes
  <1>2. cpu'[w].at = a /\ cpu'[w].path = p /\ cpu'[w].cell = c /\ cpu'[w].epoch = e
    BY DEF Becomes
  <1>3. WriterShape'
    <2> SUFFICES ASSUME NEW v \in Writers
                 PROVE  /\ cpu'[v].at \in {"idle", "mark", "summary"} => ~cpu'[v].counted
                        /\ cpu'[v].at \notin {"idle", "mark", "summary"} =>
                             /\ cpu'[v].path \in {"plain", "slow", "fast"}
                             /\ cpu'[v].path = "plain" => cpu'[v].counted
                        /\ cpu'[v].at \in {"page", "range", "journal"} => cpu'[v].epoch <= epoch'
                        /\ cpu'[v].at # "idle" => cpu'[v].cell \in Cells
      BY DEF WriterShape, At, Flying
    <2>1. CASE v = w
      BY <1>2, <2>1
    <2>2. CASE v # w
      <3>1. cpu[v].at \in {"page", "range", "journal"} => cpu[v].epoch <= epoch'
        BY <1>0 DEF WriterShape, Flying
      <3> QED
        BY <1>1, <2>2, <3>1 DEF WriterShape, At, Flying
    <2> QED
      BY <2>1, <2>2
  <1>4. GpuShape'
    BY <1>0 DEF GpuShape, InWindow
  <1>5. WindowShut'
    <2>1. InWindow' => window'
      BY DEF WindowShut, InWindow
    <2>2. ASSUME window', NEW v \in Writers PROVE cpu'[v].at \in {"idle", "mark", "summary"}
      BY <1>1, <1>2, <2>2 DEF WindowShut
    <2> QED
      BY <2>1, <2>2 DEF WindowShut
  <1>6. BoundaryAhead'
    <2>1. ASSUME NEW v \in Writers, Flying(v)', NEW x \in Nat, x <= epoch, Flying(v) => Ahead(v, x)
          PROVE  Ahead(v, x)'
      <3>1. CASE v = w
        <4>1. CASE Flying(w) /\ e = cpu[w].epoch /\ a # "page" /\ (cpu'[w].counted <=> cpu[w].counted)
          BY <1>2, <2>1, <3>1, <4>1 DEF Ahead, At
        <4>2. CASE e > epoch
          BY <1>0, <1>2, <2>1, <3>1, <4>2 DEF Ahead
        <4> QED
          BY <1>2, <2>1, <3>1, <4>1, <4>2 DEF Flying
      <3>2. CASE v # w
        BY <1>1, <2>1, <3>2 DEF Ahead, At, Flying
      <3> QED
        BY <3>1, <3>2
    <2>2. synced <= epoch /\ synced' <= epoch' /\ (gpu.at \in Ingesting => gpu.through <= epoch)
      BY <1>0 DEF BoundaryAhead, GpuShape
    <2>3. ASSUME NEW v \in Writers, Flying(v)' PROVE Ahead(v, synced)'
      BY <1>0, <2>1, <2>2, <2>3 DEF BoundaryAhead, Ahead
    <2>4. ASSUME NEW v \in Writers, Flying(v)', gpu.at \in Ingesting PROVE Ahead(v, gpu.through)'
      BY <1>0, <2>1, <2>2, <2>4 DEF BoundaryAhead, Ahead
    <2> QED
      BY <2>2, <2>3, <2>4 DEF BoundaryAhead
  <1> QED
    BY <1>3, <1>4, <1>5, <1>6

\* The journal's cells are never taken back.
LEMMA JournalFrame ==
  ASSUME BoundaryInv, NEW w \in Writers, NEW a, NEW p, NEW c, NEW e, NEW k, Becomes(w, a, p, c, e, k),
         a # "journal", UNCHANGED <<gpu, journal>>
  PROVE  JournalShape'
  BY DEF BoundaryInv, JournalShape, Becomes, At, Entry

LEMMA CellTyped ==
  ASSUME BoundaryInv, NEW w \in Writers, ~At(w, "idle")
  PROVE  /\ cpu[w].cell \in Cells /\ Page[cpu[w].cell] \in Pages
         /\ cpu[w].epoch \in Nat /\ Index(cpu[w].epoch) \in DOMAIN journal
  <1>1. cpu[w].cell \in Cells /\ cpu[w].epoch \in Nat
    BY DEF BoundaryInv, WriterShape, MirrorType, WriterRecord
  <1>2. Page[cpu[w].cell] \in Pages
    BY <1>1 DEF Pages
  <1>3. DOMAIN journal = 0..(Capacity - 1)
    BY DEF BoundaryInv, MirrorType
  <1> QED
    BY <1>1, <1>2, <1>3, IndexRange

\* A store begins.
LEMMA BeginBoundary ==
  ASSUME BoundaryInv, NEW w \in Writers, NEW c \in Cells,
         \/ StoreEnter(w, c) \/ NativeStore(w, c) \/ \E path \in Paths : c \in Conditional /\ ConditionalEnter(w, c, path)
  PROVE  BoundaryInv'
  <1>0. Typed /\ raced \subseteq Cells /\ writers \in Nat /\ epoch \in Nat
    BY DEF BoundaryInv, MirrorType, Typed
  <1>1. At(w, "idle") /\ ~cpu[w].counted /\ raced' \subseteq Cells
    BY <1>0 DEF StoreEnter, NativeStore, ConditionalEnter, Begin, BoundaryInv, WriterShape, At
  <1>2. CASE StoreEnter(w, c)
    <2>1. Typed' /\ Becomes(w, "store", "plain", c, 0, TRUE)
      BY <1>0, <1>2, BeginMoves DEF StoreEnter, Becomes
    <2>2. MirrorType'
      BY <1>0, <1>1, <1>2, <2>1 DEF StoreEnter, BoundaryInv, MirrorType, tracker, bits, Typed
    <2>9. UNCHANGED <<window, gpu, synced>> /\ epoch' \in Nat /\ epoch' >= epoch /\ ~window /\ exposed' = exposed
      BY <1>0, <1>2 DEF StoreEnter, tracker
    <2>8. cpu'[w].counted
      BY <2>1 DEF Becomes
    <2>3. WriterShape' /\ GpuShape' /\ WindowShut' /\ BoundaryAhead'
      BY <1>1, <2>1, <2>9, <2>8, WriterFrame
    <2>4. WritersCounted'
      BY <1>1, <1>2, <2>1, CountUp DEF StoreEnter, BoundaryInv
    <2>5. JournalShape'
      BY <1>2, <2>1, JournalFrame DEF StoreEnter
    <2> QED
      BY <2>2, <2>3, <2>4, <2>5 DEF BoundaryInv
  <1>3. CASE NativeStore(w, c)
    <2>1. Typed' /\ Becomes(w, "mark", "native", c, 0, FALSE)
      BY <1>0, <1>3, BeginMoves DEF NativeStore, Becomes
    <2>2. fresh' \in [Cells -> SUBSET Places]
      BY <1>3 DEF NativeStore, Written, BoundaryInv, MirrorType, Places
    <2>3. MirrorType'
      BY <1>1, <1>3, <2>1, <2>2 DEF NativeStore, BoundaryInv, MirrorType, tracker, coherency, bits, Typed
    <2>9. UNCHANGED <<window, gpu, synced>> /\ epoch' \in Nat /\ epoch' >= epoch /\ exposed' = exposed
      BY <1>0, <1>3 DEF NativeStore, tracker, coherency, bits
    <2>8. ~cpu'[w].counted
      BY <2>1 DEF Becomes
    <2>4. WriterShape' /\ GpuShape' /\ WindowShut' /\ BoundaryAhead'
      BY <1>1, <2>1, <2>9, <2>8, WriterFrame
    <2>5. WritersCounted'
      BY <1>1, <1>3, <2>1, CountSame DEF NativeStore, BoundaryInv, coherency, bits
    <2>6. JournalShape'
      BY <1>3, <2>1, JournalFrame DEF NativeStore, coherency, bits
    <2> QED
      BY <2>3, <2>4, <2>5, <2>6 DEF BoundaryInv
  <1>4. ASSUME NEW path \in Paths, ConditionalEnter(w, c, path) PROVE BoundaryInv'
    <2>0. path \in {"slow", "fast"}
      BY WriterAssumption
    <2>1. Typed' /\ Becomes(w, "store", path, c, 0, FALSE)
      BY <1>0, <1>4, <2>0, BeginMoves DEF ConditionalEnter, Becomes
    <2>2. MirrorType'
      BY <1>1, <1>4, <2>1 DEF ConditionalEnter, BoundaryInv, MirrorType, tracker, coherency, bits, Typed
    <2>9. UNCHANGED <<window, gpu, synced>> /\ epoch' \in Nat /\ epoch' >= epoch /\ ~window /\ exposed' = exposed
      BY <1>0, <1>4 DEF ConditionalEnter, tracker, coherency, bits
    <2>8. ~cpu'[w].counted
      BY <2>1 DEF Becomes
    <2>3. WriterShape' /\ GpuShape' /\ WindowShut' /\ BoundaryAhead'
      BY <1>1, <2>0, <2>1, <2>9, <2>8, WriterFrame
    <2>4. WritersCounted'
      BY <1>1, <1>4, <2>1, CountSame DEF ConditionalEnter, BoundaryInv, coherency, bits
    <2>5. JournalShape'
      BY <1>4, <2>1, JournalFrame DEF ConditionalEnter, coherency, bits
    <2> QED
      BY <2>2, <2>3, <2>4, <2>5 DEF BoundaryInv
  <1> QED
    BY <1>2, <1>3, <1>4

LEMMA StrictIsOutside ==
  ASSUME BoundaryInv, NEW w \in Writers, cpu[w].at \notin {"idle", "mark", "summary"}
  PROVE  /\ ~window /\ cpu[w].path \in {"plain", "slow", "fast"}
         /\ cpu[w].path = "plain" => cpu[w].counted
  BY DEF BoundaryInv, WindowShut, WriterShape

\* A store publishes.
LEMMA PublishBoundary ==
  ASSUME BoundaryInv, NEW w \in Writers,
         StoreBytes(w) \/ ConditionalCount(w) \/ StoreEpoch(w) \/ StorePage(w)
  PROVE  BoundaryInv'
  <1>0. Typed /\ writers \in Nat /\ epoch \in Nat
    BY DEF BoundaryInv, MirrorType, Typed
  <1>1. cpu[w].at \notin {"idle", "mark", "summary"}
    BY DEF StoreBytes, ConditionalCount, StoreEpoch, StorePage, At
  <1>2. /\ ~window /\ cpu[w].path \in {"plain", "slow", "fast"}
        /\ cpu[w].path = "plain" => cpu[w].counted
    BY <1>1, StrictIsOutside
  <1>3. cpu[w].cell \in Cells /\ Page[cpu[w].cell] \in Pages /\ cpu[w].epoch \in Nat
    BY <1>1, CellTyped DEF At
  <1>4. CASE StoreBytes(w)
    <2>1. Typed' /\ Becomes(w, "epoch", cpu[w].path, cpu[w].cell, cpu[w].epoch, cpu[w].counted)
      BY <1>0, <1>4, LabelMoves DEF StoreBytes, Goto
    <2>2. fresh' \in [Cells -> SUBSET Places]
      BY <1>3, <1>4 DEF StoreBytes, Written, BoundaryInv, MirrorType, Places
    <2>3. MirrorType'
      BY <1>4, <2>1, <2>2 DEF StoreBytes, BoundaryInv, MirrorType, tracker, coherency, bits, Typed
    <2>9. UNCHANGED <<window, gpu, synced>> /\ exposed \subseteq exposed' /\ epoch' \in Nat /\ epoch' >= epoch
      BY <1>0, <1>4 DEF StoreBytes, tracker, coherency, bits
    <2>8. cpu'[w].counted <=> cpu[w].counted
      BY <2>1 DEF Becomes
    <2>4. WriterShape' /\ GpuShape' /\ WindowShut' /\ BoundaryAhead'
      BY <1>2, <1>3, <2>1, <2>9, <2>8, WriterFrame
    <2>5. WritersCounted'
      BY <1>4, <2>1, CountSame DEF StoreBytes, BoundaryInv, coherency, bits
    <2>6. JournalShape'
      BY <1>4, <2>1, JournalFrame DEF StoreBytes, coherency, bits
    <2> QED
      BY <2>3, <2>4, <2>5, <2>6 DEF BoundaryInv
  <1>5. CASE ConditionalCount(w)
    <2>0. cpu[w].at = "epoch" /\ ~cpu[w].counted
      BY <1>5 DEF ConditionalCount, At
    <2>1. Typed' /\ Becomes(w, "epoch", cpu[w].path, cpu[w].cell, cpu[w].epoch, TRUE)
      BY <1>0, <1>5, <2>0, CountMoves
    <2>2. MirrorType'
      BY <1>0, <1>5, <2>1 DEF ConditionalCount, BoundaryInv, MirrorType, tracker, ghosts, bits, Typed
    <2>9. UNCHANGED <<window, gpu, synced>> /\ exposed \subseteq exposed' /\ epoch' \in Nat /\ epoch' >= epoch
      BY <1>0, <1>5 DEF ConditionalCount, tracker, ghosts
    <2>8. cpu'[w].counted
      BY <2>1 DEF Becomes
    <2>3. WriterShape' /\ GpuShape' /\ WindowShut' /\ BoundaryAhead'
      BY <1>2, <1>3, <2>1, <2>9, <2>8, WriterFrame
    <2>4. WritersCounted'
      BY <1>5, <2>0, <2>1, CountUp DEF ConditionalCount, BoundaryInv
    <2>5. JournalShape'
      BY <1>5, <2>1, JournalFrame DEF ConditionalCount
    <2> QED
      BY <2>2, <2>3, <2>4, <2>5 DEF BoundaryInv
  <1>6. CASE StoreEpoch(w)
    <2>1. Typed' /\ Becomes(w, "page", cpu[w].path, cpu[w].cell, epoch + 1, cpu[w].counted)
      BY <1>0, <1>6, EpochMoves
    <2>2. epoch' = epoch + 1 /\ epoch' \in Nat /\ newest' \in [Cells -> Nat \cup {None}]
      BY <1>0, <1>3, <1>6 DEF StoreEpoch, BoundaryInv, MirrorType
    <2>3. MirrorType'
      BY <1>6, <2>1, <2>2 DEF StoreEpoch, BoundaryInv, MirrorType, tracker, bits, Typed
    <2>9. UNCHANGED <<window, gpu, synced>> /\ exposed \subseteq exposed' /\ epoch' \in Nat /\ epoch' >= epoch /\ epoch + 1 > epoch
      BY <1>0, <1>6 DEF StoreEpoch, tracker
    <2>8. cpu'[w].counted <=> cpu[w].counted
      BY <2>1 DEF Becomes
    <2>4. WriterShape' /\ GpuShape' /\ WindowShut' /\ BoundaryAhead'
      <3>1. PICK e \in Nat : e = epoch + 1
        BY <1>0
      <3>2. Becomes(w, "page", cpu[w].path, cpu[w].cell, e, cpu[w].counted) /\ e > epoch /\ e <= epoch'
        BY <1>0, <2>1, <2>2, <3>1
      <3> QED
        BY <1>2, <1>3, <2>8, <2>9, <3>2, WriterFrame
    <2>5. WritersCounted'
      BY <1>6, <2>1, CountSame DEF StoreEpoch, BoundaryInv
    <2>6. JournalShape'
      BY <1>6, <2>1, JournalFrame DEF StoreEpoch
    <2> QED
      BY <2>3, <2>4, <2>5, <2>6 DEF BoundaryInv
  <1>7. CASE StorePage(w)
    <2>0. Flying(w) /\ cpu[w].epoch <= epoch
      BY <1>7 DEF StorePage, At, Flying, BoundaryInv, WriterShape
    <2>1. Typed' /\ Becomes(w, "range", cpu[w].path, cpu[w].cell, cpu[w].epoch, cpu[w].counted)
      BY <1>0, <1>7, LabelMoves DEF StorePage, Goto
    <2>2. pageEpoch' \in [Pages -> Nat]
      BY <1>3, <1>7 DEF StorePage, BoundaryInv, MirrorType
    <2>7. exposed' \subseteq Cells
      BY <1>7 DEF StorePage, LatePage, BoundaryInv, MirrorType
    <2>3. MirrorType'
      BY <1>7, <2>1, <2>2, <2>7 DEF StorePage, BoundaryInv, MirrorType, tracker, bits, Typed
    <2>9. UNCHANGED <<window, gpu, synced>> /\ exposed \subseteq exposed' /\ epoch' \in Nat /\ epoch' >= epoch /\ epoch' = epoch
      BY <1>0, <1>7 DEF StorePage, tracker
    <2>8. cpu'[w].counted <=> cpu[w].counted
      BY <2>1 DEF Becomes
    <2>4. WriterShape' /\ GpuShape' /\ WindowShut' /\ BoundaryAhead'
      BY <1>2, <1>3, <2>0, <2>1, <2>9, <2>8, WriterFrame
    <2>5. WritersCounted'
      BY <1>7, <2>1, CountSame DEF StorePage, BoundaryInv
    <2>6. JournalShape'
      BY <1>7, <2>1, JournalFrame DEF StorePage
    <2> QED
      BY <2>3, <2>4, <2>5, <2>6 DEF BoundaryInv
  <1> QED
    BY <1>4, <1>5, <1>6, <1>7

LEMMA RangeBoundary ==
  ASSUME BoundaryInv, NEW w \in Writers, StoreRange(w)
  PROVE  BoundaryInv'
  <1>0. Typed /\ epoch \in Nat
    BY DEF BoundaryInv, MirrorType, Typed
  <1>1. /\ ~window /\ cpu[w].path \in {"plain", "slow", "fast"}
        /\ cpu[w].path = "plain" => cpu[w].counted
    BY StrictIsOutside DEF StoreRange, At
  <1> DEFINE i == Index(cpu[w].epoch)
             r == [journal[i] EXCEPT !.cell = cpu[w].cell]
  <1>2. /\ cpu[w].cell \in Cells /\ cpu[w].epoch \in Nat
        /\ i \in DOMAIN journal /\ Flying(w) /\ cpu[w].epoch <= epoch
    BY CellTyped DEF StoreRange, At, Flying, BoundaryInv, WriterShape
  <1>3. Typed' /\ Becomes(w, "journal", cpu[w].path, cpu[w].cell, cpu[w].epoch, cpu[w].counted)
    BY <1>0, LabelMoves DEF StoreRange, Goto
  <1>4. journal' = [journal EXCEPT ![i] = r] /\ journal[i] \in [epoch : Nat, cell : Cells \cup {None}]
    BY <1>2 DEF StoreRange, BoundaryInv, MirrorType
  <1>5. r \in [epoch : Nat, cell : Cells \cup {None}] /\ r.cell = cpu[w].cell /\ r.epoch = journal[i].epoch
    BY <1>2, <1>4
  <1> HIDE DEF i, r
  <1>6. /\ journal' \in [0..(Capacity - 1) -> [epoch : Nat, cell : Cells \cup {None}]]
        /\ DOMAIN journal' = DOMAIN journal
        /\ journal'[i].cell = cpu[w].cell /\ journal'[i].epoch = journal[i].epoch
        /\ \A j \in DOMAIN journal : j # i => journal'[j] = journal[j]
    BY <1>2, <1>4, <1>5 DEF BoundaryInv, MirrorType
  <1>13. exposed \subseteq exposed' /\ exposed' \subseteq Cells
    <2>1. \A v \in Writers : At(v, "journal") => cpu[v].cell \in Cells
      BY CellTyped DEF At
    <2>2. LappedSlot(w) \subseteq Cells
      BY <1>2, <2>1 DEF LappedSlot, InSlot
    <2> QED
      BY <2>2 DEF StoreRange, BoundaryInv, MirrorType
  <1>7. MirrorType'
    BY <1>3, <1>6, <1>13 DEF StoreRange, BoundaryInv, MirrorType, tracker, bits, Typed
  <1>8. UNCHANGED <<window, gpu, synced>> /\ epoch' \in Nat /\ epoch' >= epoch /\ epoch' = epoch
        /\ (cpu'[w].counted <=> cpu[w].counted)
    BY <1>0, <1>2, <1>3 DEF StoreRange, tracker, Becomes
  <1>9. WriterShape' /\ GpuShape' /\ WindowShut' /\ BoundaryAhead'
    BY <1>1, <1>2, <1>3, <1>8, <1>13, WriterFrame
  <1>10. WritersCounted'
    BY <1>3, CountSame DEF StoreRange, BoundaryInv
  <1>11. \A j \in DOMAIN journal : journal[j].cell # None => journal'[j].cell # None
    BY <1>2, <1>6, NoneAssumption
  <1>12. JournalShape'
    <2>1. \A j \in DOMAIN journal' : journal'[j].cell = None => journal'[j].epoch = 0
      BY <1>2, <1>6, NoneAssumption DEF BoundaryInv, JournalShape
    <2>2. ASSUME NEW v \in Writers, cpu'[v].at = "journal" PROVE journal'[Index(cpu'[v].epoch)].cell # None
      <3>1. CASE v = w
        BY <1>2, <1>3, <1>6, <3>1, NoneAssumption DEF Becomes, i
      <3>2. CASE v # w
        <4>1. cpu'[v] = cpu[v] /\ cpu[v].at = "journal"
          BY <1>3, <2>2, <3>2 DEF Becomes
        <4>2. Index(cpu[v].epoch) \in DOMAIN journal /\ journal[Index(cpu[v].epoch)].cell # None
          BY <4>1, CellTyped DEF At, BoundaryInv, JournalShape
        <4> QED
          BY <1>11, <4>1, <4>2
      <3> QED
        BY <3>1, <3>2
    <2>3. ASSUME gpu.at = "range" PROVE journal'[Index(gpu.next)].cell # None
      <3>1. gpu.next \in Nat /\ DOMAIN journal = 0..(Capacity - 1) /\ journal[Index(gpu.next)].cell # None
        BY <2>3 DEF BoundaryInv, MirrorType, GpuRecord, JournalShape, Entry
      <3>2. Index(gpu.next) \in DOMAIN journal
        BY <3>1, IndexRange
      <3> QED
        BY <1>11, <3>1, <3>2
    <2> QED
      BY <1>8, <2>1, <2>2, <2>3 DEF JournalShape, At, Entry
  <1> QED
    BY <1>7, <1>9, <1>10, <1>12 DEF BoundaryInv

LEMMA FinishBoundary ==
  ASSUME BoundaryInv, NEW w \in Writers, StoreFinish(w)
  PROVE  BoundaryInv'
  <1>0. Typed /\ epoch \in Nat /\ writers \in Nat
    BY DEF BoundaryInv, MirrorType, Typed
  <1> DEFINE i == Index(cpu[w].epoch)
             r == [journal[i] EXCEPT !.epoch = cpu[w].epoch]
  <1>2. /\ cpu[w].epoch \in Nat /\ i \in DOMAIN journal /\ journal[i].cell # None
    BY CellTyped DEF StoreFinish, At, Flying, BoundaryInv, WriterShape, JournalShape
  <1>3. Typed' /\ Becomes(w, "idle", None, None, 0, FALSE)
    BY <1>0, IdleMoves DEF StoreFinish
  <1>4. journal' = [journal EXCEPT ![i] = r] /\ journal[i] \in [epoch : Nat, cell : Cells \cup {None}]
    BY <1>2 DEF StoreFinish, BoundaryInv, MirrorType
  <1>5. r \in [epoch : Nat, cell : Cells \cup {None}] /\ r.epoch = cpu[w].epoch /\ r.cell = journal[i].cell
    BY <1>2, <1>4
  <1> HIDE DEF i, r
  <1>6. /\ journal' \in [0..(Capacity - 1) -> [epoch : Nat, cell : Cells \cup {None}]]
        /\ DOMAIN journal' = DOMAIN journal
        /\ journal'[i].epoch = cpu[w].epoch /\ journal'[i].cell = journal[i].cell
        /\ \A j \in DOMAIN journal : j # i => journal'[j] = journal[j]
    BY <1>2, <1>4, <1>5 DEF BoundaryInv, MirrorType
  <1>8. WritersCounted' /\ writers' \in Nat
    <2>1. CASE cpu[w].counted
      BY <1>3, <2>1, CountDown DEF BoundaryInv, StoreFinish
    <2>2. CASE ~cpu[w].counted
      BY <1>0, <1>3, <2>2, CountSame DEF BoundaryInv, StoreFinish
    <2> QED
      BY <2>1, <2>2
  <1>9. MirrorType'
    BY <1>3, <1>6, <1>8 DEF StoreFinish, BoundaryInv, MirrorType, tracker, ghosts, bits, Typed
  <1>10. UNCHANGED <<window, gpu, synced>> /\ epoch' \in Nat /\ epoch' >= epoch /\ ~cpu'[w].counted
         /\ exposed \subseteq exposed'
    BY <1>0, <1>3 DEF StoreFinish, tracker, ghosts, Becomes
  <1>11. WriterShape' /\ GpuShape' /\ WindowShut' /\ BoundaryAhead'
    BY <1>3, <1>10, WriterFrame
  <1>12. \A j \in DOMAIN journal : journal'[j].cell = journal[j].cell
    BY <1>6
  <1>13. JournalShape'
    <2>1. \A j \in DOMAIN journal' : journal'[j].cell = None => journal'[j].epoch = 0
      BY <1>2, <1>6 DEF BoundaryInv, JournalShape
    <2>2. ASSUME NEW v \in Writers, cpu'[v].at = "journal" PROVE journal'[Index(cpu'[v].epoch)].cell # None
      <3>1. cpu'[v] = cpu[v] /\ cpu[v].at = "journal"
        BY <1>3, <2>2 DEF Becomes
      <3>2. Index(cpu[v].epoch) \in DOMAIN journal /\ journal[Index(cpu[v].epoch)].cell # None
        BY <3>1, CellTyped DEF At, BoundaryInv, JournalShape
      <3> QED
        BY <1>12, <3>1, <3>2
    <2>3. ASSUME gpu.at = "range" PROVE journal'[Index(gpu.next)].cell # None
      <3>1. gpu.next \in Nat /\ DOMAIN journal = 0..(Capacity - 1) /\ journal[Index(gpu.next)].cell # None
        BY <2>3 DEF BoundaryInv, MirrorType, GpuRecord, JournalShape, Entry
      <3>2. Index(gpu.next) \in DOMAIN journal
        BY <3>1, IndexRange
      <3> QED
        BY <1>12, <3>1, <3>2
    <2> QED
      BY <1>10, <2>1, <2>2, <2>3 DEF JournalShape, At, Entry
  <1> QED
    BY <1>8, <1>9, <1>11, <1>13 DEF BoundaryInv

LEMMA MarkBoundary ==
  ASSUME BoundaryInv, NEW w \in Writers, NativeMark(w) \/ NativeSummary(w)
  PROVE  BoundaryInv'
  <1>0. Typed /\ epoch \in Nat /\ ~cpu[w].counted /\ cpu[w].at \in {"mark", "summary"}
    BY DEF BoundaryInv, MirrorType, Typed, NativeMark, NativeSummary, WriterShape, At
  <1>1. cpu[w].cell \in Cells /\ Page[cpu[w].cell] \in Pages /\ cpu[w].epoch \in Nat
    BY <1>0, CellTyped DEF At
  <1>2. PICK l \in {"idle", "summary"}, p \in {cpu[w].path, None}, c \in {cpu[w].cell, None}, e \in Nat :
            Typed' /\ Becomes(w, l, p, c, e, FALSE) /\ (l = "summary" => c \in Cells)
    <2>1. CASE cpu' = [cpu EXCEPT ![w].at = "summary"]
      <3>1. Typed' /\ Becomes(w, "summary", cpu[w].path, cpu[w].cell, cpu[w].epoch, cpu[w].counted)
        BY <1>0, <2>1, LabelMoves
      <3>2. Becomes(w, "summary", cpu[w].path, cpu[w].cell, cpu[w].epoch, FALSE)
        BY <1>0, <3>1 DEF Becomes
      <3> QED
        BY <1>1, <3>1, <3>2
    <2>2. CASE cpu' = [cpu EXCEPT ![w] = IdleWriter]
      <3>1. Typed' /\ Becomes(w, "idle", None, None, 0, FALSE)
        BY <1>0, <2>2, IdleMoves
      <3> QED
        BY <3>1
    <2> QED
      BY <2>1, <2>2 DEF NativeMark, NativeSummary, Goto
  <1>3. /\ UNCHANGED <<epoch, pageEpoch, journal, writers, window, synced, cpuDirty, gpuDirty, valid, gpu>>
        /\ UNCHANGED <<fresh, raced, exposed>>
    BY DEF NativeMark, NativeSummary, tracker, ghosts
  <1>4. dirty' \subseteq Pages /\ newest' \in [Cells -> Nat \cup {None}]
    BY <1>1 DEF NativeMark, NativeSummary, ghosts, BoundaryInv, MirrorType
  <1>5. MirrorType'
    BY <1>2, <1>3, <1>4 DEF BoundaryInv, MirrorType, Typed
  <1>6. ~cpu'[w].counted /\ epoch' \in Nat /\ epoch' >= epoch
    BY <1>0, <1>2, <1>3 DEF Becomes
  <1>7. WriterShape' /\ GpuShape' /\ WindowShut' /\ BoundaryAhead'
    BY <1>2, <1>3, <1>6, WriterFrame
  <1>8. WritersCounted'
    BY <1>0, <1>2, <1>3, CountSame DEF BoundaryInv
  <1>9. JournalShape'
    BY <1>2, <1>3, JournalFrame
  <1> QED
    BY <1>5, <1>7, <1>8, <1>9 DEF BoundaryInv

LEMMA StoreBoundary ==
  ASSUME BoundaryInv, NEW w \in Writers, Store(w)
  PROVE  BoundaryInv'
  <1>1. ASSUME NEW c \in Cells, StoreEnter(w, c) \/ NativeStore(w, c) PROVE BoundaryInv'
    BY <1>1, BeginBoundary
  <1>2. ASSUME NEW c \in Conditional, NEW path \in Paths, ConditionalEnter(w, c, path) PROVE BoundaryInv'
    BY <1>2, BeginBoundary, WriterAssumption
  <1> QED
    BY <1>1, <1>2, PublishBoundary, RangeBoundary, FinishBoundary, MarkBoundary DEF Store

-----------------------------------------------------------------------------
(***************************************************************************)
(* The boundary invariant: the steps of the GPU thread.                    *)
(***************************************************************************)

LEMMA GpuFrame ==
  ASSUME BoundaryInv, UNCHANGED <<cpu, writers, journal, window, synced>>, epoch' >= epoch,
         exposed \subseteq exposed',
         MirrorType', GpuShape', gpu'.at = "range" => Entry'.cell # None, InWindow' => InWindow,
         gpu'.at \in Ingesting => gpu.at \in Ingesting /\ gpu'.through = gpu.through
  PROVE  BoundaryInv'
  <1>0. epoch \in Nat /\ epoch' \in Nat /\ synced \in Nat /\ \A w \in Writers : cpu[w].epoch \in Nat
    BY DEF BoundaryInv, MirrorType, WriterRecord
  <1>1. WriterShape'
    BY <1>0 DEF BoundaryInv, WriterShape, At, Flying
  <1>2. WritersCounted'
    BY DEF BoundaryInv, WritersCounted
  <1>3. JournalShape'
    BY DEF BoundaryInv, JournalShape, At
  <1>4. WindowShut'
    BY DEF BoundaryInv, WindowShut
  <1>5. BoundaryAhead'
    BY <1>0 DEF BoundaryInv, BoundaryAhead, Ahead, Flying, At
  <1> QED
    BY <1>1, <1>2, <1>3, <1>4, <1>5 DEF BoundaryInv

LEMMA CollectedFacts ==
  ASSUME BoundaryInv, Collected
  PROVE  /\ epoch' \in Nat /\ epoch' >= epoch /\ pageEpoch' \in [Pages -> Nat] /\ dirty' \subseteq Pages
         /\ newest' \in [Cells -> Nat \cup {None}]
  BY DEF Collected, BoundaryInv, MirrorType

LEMMA CollectBoundary ==
  ASSUME BoundaryInv, Snapshot \/ Collect
  PROVE  BoundaryInv'
  <1>1. /\ epoch' \in Nat /\ epoch' >= epoch /\ pageEpoch' \in [Pages -> Nat] /\ dirty' \subseteq Pages
        /\ newest' \in [Cells -> Nat \cup {None}]
    BY CollectedFacts DEF Snapshot, Collect
  <1>2. /\ UNCHANGED <<journal, writers, window, cpu, synced, cpuDirty, gpuDirty, valid, fresh, raced>>
        /\ exposed \subseteq exposed' /\ exposed' \subseteq Cells
    BY DEF Snapshot, Collect, Unannounced, tracker, BoundaryInv, MirrorType
  <1>3. CASE Snapshot
    <2>1. gpu' = gpu /\ gpu.at = "idle"
      BY <1>3 DEF Snapshot, GpuAt
    <2>2. MirrorType'
      BY <1>1, <1>2, <2>1 DEF BoundaryInv, MirrorType
    <2>3. GpuShape' /\ ~InWindow'
      BY <2>1 DEF GpuShape, InWindow, Syncing, Ingesting
    <2> QED
      BY <1>1, <1>2, <2>1, <2>2, <2>3, GpuFrame DEF Ingesting
  <1>4. CASE Collect
    <2>1. gpu \in GpuRecord /\ gpu.at = "collect" /\ gpu' = [gpu EXCEPT !.at = "wait"] /\ Moves("wait")
      BY <1>4, GotoMoves DEF Collect, GpuAt, BoundaryInv, MirrorType
    <2>2. gpu' \in GpuRecord
      BY <2>1, GpuRecordOf DEF Syncing
    <2>3. MirrorType'
      BY <1>1, <1>2, <2>2 DEF BoundaryInv, MirrorType
    <2>4. InWindow' <=> InWindow
      BY <2>1 DEF Moves, GpuBecomes, InWindow, Syncing
    <2>5. GpuShape'
      BY <2>1, <2>4 DEF BoundaryInv, GpuShape, Moves, GpuBecomes, Syncing, Ingesting
    <2> QED
      BY <1>1, <1>2, <2>1, <2>3, <2>4, <2>5, GpuFrame DEF Moves, GpuBecomes, Ingesting
  <1> QED
    BY <1>3, <1>4

\* The steps that only move the GPU thread on.
LEMMA QuietBoundary ==
  ASSUME BoundaryInv, UNCHANGED <<coherency, window, cpu, tracker, fresh, newest>>, raced' \subseteq Cells,
         exposed \subseteq exposed', exposed' \subseteq Cells,
         gpu' \in GpuRecord, GpuShape', gpu'.at = "range" => Entry'.cell # None, InWindow' => InWindow,
         gpu'.at \in Ingesting => gpu.at \in Ingesting /\ gpu'.through = gpu.through
  PROVE  BoundaryInv'
  <1>1. UNCHANGED <<cpu, writers, journal, window, synced, epoch>>
    BY DEF coherency, bits, tracker
  <1>2. MirrorType' /\ epoch' >= epoch
    BY DEF coherency, bits, tracker, BoundaryInv, MirrorType
  <1> QED
    BY <1>1, <1>2, GpuFrame

LEMMA WaitBoundary ==
  ASSUME BoundaryInv, BoundaryWait \/ BoundaryRead
  PROVE  BoundaryInv'
  <1>0. gpu \in GpuRecord /\ epoch \in Nat /\ raced \subseteq Cells /\ exposed \subseteq Cells
    BY DEF BoundaryInv, MirrorType
  <1>1. UNCHANGED <<coherency, window, cpu, tracker, fresh, newest, epoch, exposed>> /\ raced' = raced
    BY DEF BoundaryWait, BoundaryRead, ghosts, coherency, bits
  <1>2. CASE BoundaryWait
    <2>1. gpu.at = "wait" /\ gpu' = [gpu EXCEPT !.at = "read"] /\ Moves("read")
      BY <1>0, <1>2, GotoMoves DEF BoundaryWait, GpuAt
    <2>2. gpu' \in GpuRecord
      BY <1>0, <2>1, GpuRecordOf DEF Syncing
    <2>3. (InWindow' <=> InWindow)
      BY <2>1 DEF Moves, GpuBecomes, InWindow, Syncing
    <2>4. GpuShape'
      BY <2>1, <2>3 DEF BoundaryInv, GpuShape, Moves, GpuBecomes, Syncing, Ingesting
    <2> QED
      BY <1>0, <1>1, <2>1, <2>2, <2>3, <2>4, QuietBoundary DEF Moves, GpuBecomes, Ingesting
  <1>3. CASE BoundaryRead
    <2>1. gpu.at = "read" /\ gpu' = [gpu EXCEPT !.at = "check", !.through = epoch]
      BY <1>3 DEF BoundaryRead, GpuAt
    <2>2. gpu'.at = "check" /\ gpu'.through = epoch /\ gpu'.op = gpu.op /\ gpu'.req = gpu.req
          /\ gpu'.then = gpu.then /\ gpu'.cell = gpu.cell
      BY <1>0, <1>3, ReadBecomes DEF GpuBecomes
    <2>3. gpu' \in GpuRecord
      BY <1>0, <2>1, GpuRecordOf DEF Syncing
    <2>4. InWindow' <=> InWindow
      BY <2>1, <2>2 DEF InWindow, Syncing
    <2>5. GpuShape'
      BY <1>0, <1>1, <2>1, <2>2, <2>4 DEF BoundaryInv, GpuShape, Syncing, Ingesting
    <2> QED
      BY <1>0, <1>1, <2>2, <2>3, <2>4, <2>5, QuietBoundary DEF Ingesting
  <1> QED
    BY <1>2, <1>3

LEMMA CheckBoundary ==
  ASSUME BoundaryInv, BoundaryCheck
  PROVE  BoundaryInv'
  <1>0. gpu \in GpuRecord /\ gpu.through \in Nat /\ synced \in Nat /\ raced \subseteq Cells /\ epoch \in Nat
        /\ gpu.then \in {"upload", "readback", "prepare", "commit", None}
    BY DEF BoundaryInv, MirrorType, GpuRecord
  <1>1. /\ UNCHANGED <<coherency, window, cpu, tracker, fresh, newest, epoch, synced>>
        /\ raced' = raced /\ gpu.at = "check"
    BY DEF BoundaryCheck, ghosts, GpuAt, coherency, tracker
  <1>4. exposed \subseteq exposed' /\ exposed' \subseteq Cells
    <2>1. \A v \in Writers : At(v, "page") => cpu[v].cell \in Cells
      BY CellTyped DEF At
    <2>2. Uncounted \subseteq Cells
      BY <2>1 DEF Uncounted
    <2> QED
      BY <2>2 DEF BoundaryCheck, BoundaryInv, MirrorType
  <1>2. CASE writers # 0
    <2>0. GpuGoto("wait")
      BY <1>2 DEF BoundaryCheck
    <2>1. gpu' = [gpu EXCEPT !.at = "wait"] /\ Moves("wait")
      BY <1>0, <2>0, GotoMoves
    <2>2. gpu' \in GpuRecord
      BY <1>0, <2>1 DEF GpuRecord, Syncing
    <2>3. (InWindow' <=> InWindow)
      BY <1>1, <2>1 DEF Moves, GpuBecomes, InWindow, Syncing
    <2>4. GpuShape'
      BY <1>1, <2>1, <2>3 DEF BoundaryInv, GpuShape, Moves, GpuBecomes, Syncing, Ingesting
    <2> QED
      BY <1>0, <1>1, <1>4, <2>1, <2>2, <2>3, <2>4, QuietBoundary DEF Moves, GpuBecomes, Ingesting
  <1>3. CASE writers = 0
    <2>1. Ingest(gpu.through, 0, gpu.then)
      BY <1>3 DEF BoundaryCheck
    <2> DEFINE l == IngestLabel(gpu.through, gpu.then)
    <2>2. /\ gpu'.at = l /\ gpu'.op = gpu.op /\ gpu'.req = gpu.req /\ gpu'.cell = gpu.cell
          /\ gpu'.through = gpu.through /\ gpu'.next = synced + 1 /\ gpu'.then = gpu.then
      BY <1>0, <2>1, IngestBecomes DEF GpuBecomes
    <2>4. gpu.then \in {"upload", "readback", "prepare"} /\ gpu.through <= epoch
      BY <1>0, <1>1 DEF BoundaryInv, GpuShape, Syncing, Ingesting
    <2>5. \/ l = gpu.then /\ gpu.through <= synced
          \/ l \in {"pages", "before"} /\ gpu.through > synced
      BY <1>0 DEF IngestLabel
    <2> HIDE DEF l
    <2>7. gpu' \in GpuRecord
      BY <1>0, <2>1, <2>4, IngestTyped
    <2>8. InWindow' => InWindow
      BY <1>1, <2>2, <2>4, <2>5 DEF InWindow, Syncing, Ingesting
    <2>9. GpuShape'
      <3>1. gpu'.at # "idle" => gpu'.op \in Ops /\ (Writes(gpu'.op) => gpu'.req \subseteq GpuCells)
        BY <1>1, <2>2 DEF BoundaryInv, GpuShape
      <3>2. /\ gpu'.at \in Syncing => gpu'.then \in {"upload", "readback", "prepare", "commit"}
            /\ gpu'.at \in Syncing /\ gpu'.then = "commit" => gpu'.at \in Ingesting
        BY <1>1, <2>2, <2>4 DEF BoundaryInv, GpuShape, Syncing
      <3>3. gpu'.at \in {"copy", "submit", "open"} \/ InWindow' => gpu'.cell \in Cells
        BY <2>2, <2>4, <2>5, <2>8 DEF BoundaryInv, GpuShape
      <3>4. /\ gpu'.at = "check" \/ gpu'.at \in Ingesting => gpu'.through <= epoch'
            /\ gpu'.at \in Ingesting => gpu'.next > synced' /\ gpu'.next <= gpu'.through + 1
            /\ gpu'.at \in {"before", "range", "after"} => gpu'.next <= gpu'.through
        BY <1>0, <1>1, <2>2, <2>4, <2>5 DEF Ingesting
      <3> QED
        BY <3>1, <3>2, <3>3, <3>4 DEF GpuShape
    <2>10. MirrorType'
      BY <1>0, <1>1, <1>4, <2>7 DEF coherency, bits, tracker, BoundaryInv, MirrorType
    <2>11. UNCHANGED <<cpu, writers, journal, window, synced>>
      BY <1>1 DEF coherency, bits
    <2>12. ASSUME NEW w \in Writers, Flying(w) PROVE Ahead(w, gpu.through)'
      <3>1. ~cpu[w].counted
        BY <1>3, NobodyCounted DEF BoundaryInv
      <3>2. exposed' = exposed \cup Uncounted
        BY <1>3 DEF BoundaryCheck
      <3>3. cpu[w].epoch \in Nat
        BY DEF BoundaryInv, MirrorType, WriterRecord
      <3>4. CASE cpu[w].epoch > gpu.through
        BY <2>2, <2>11, <3>4 DEF Ahead
      <3>5. CASE cpu[w].epoch <= gpu.through
        BY <2>11, <3>1, <3>2, <3>5 DEF Ahead, Uncounted, At
      <3> QED
        BY <1>0, <3>3, <3>4, <3>5
    <2>13. WriterShape' /\ WritersCounted' /\ JournalShape' /\ WindowShut'
      <3>1. WriterShape'
        BY <1>1, <2>11 DEF BoundaryInv, WriterShape, At, Flying
      <3>2. WritersCounted'
        BY <2>11 DEF BoundaryInv, WritersCounted
      <3>3. JournalShape'
        BY <2>2, <2>4, <2>5, <2>11 DEF BoundaryInv, JournalShape, At
      <3>4. WindowShut'
        BY <2>8, <2>11 DEF BoundaryInv, WindowShut
      <3> QED
        BY <3>1, <3>2, <3>3, <3>4
    <2>14. BoundaryAhead'
      BY <1>1, <1>4, <2>2, <2>11, <2>12 DEF BoundaryInv, BoundaryAhead, Ahead, Flying, At
    <2> QED
      BY <2>9, <2>10, <2>13, <2>14 DEF BoundaryInv
  <1> QED
    BY <1>2, <1>3

LEMMA LookupBoundary ==
  ASSUME BoundaryInv, JournalBefore \/ JournalRange
  PROVE  BoundaryInv'
  <1>0. gpu \in GpuRecord /\ raced \subseteq Cells /\ gpu.next \in Nat /\ synced \in Nat
    BY DEF BoundaryInv, MirrorType, GpuRecord
  <1>1. /\ UNCHANGED <<coherency, window, cpu, tracker, fresh, newest, epoch, synced, journal>>
        /\ raced' = raced /\ exposed \subseteq exposed' /\ exposed' \subseteq Cells
    BY DEF JournalBefore, JournalRange, LappedRead, ghosts, coherency, tracker, BoundaryInv, MirrorType
  <1>2. gpu.next > synced /\ gpu.next <= gpu.through /\ gpu.through <= epoch /\ Index(gpu.next) \in DOMAIN journal
    <2>1. gpu.at \in {"before", "range"}
      BY DEF JournalBefore, JournalRange, GpuAt
    <2>2. DOMAIN journal = 0..(Capacity - 1)
      BY DEF BoundaryInv, MirrorType
    <2> QED
      BY <1>0, <2>1, <2>2, IndexRange DEF BoundaryInv, GpuShape, Ingesting
  <1>3. CASE JournalBefore
    <2>1. PICK l \in {"range", "pages"} : l = IF Entry.epoch = gpu.next THEN "range" ELSE "pages"
      OBVIOUS
    <2>2. gpu.at = "before" /\ gpu' = [gpu EXCEPT !.at = l] /\ Moves(l)
      BY <1>0, <1>3, <2>1, GotoMoves DEF JournalBefore, GpuAt
    <2>3. gpu' \in GpuRecord
      BY <1>0, <2>1, <2>2, GpuRecordOf DEF Syncing, Ingesting
    <2>4. InWindow' <=> InWindow
      BY <2>1, <2>2 DEF Moves, GpuBecomes, InWindow, Syncing, Ingesting
    <2>5. GpuShape'
      BY <1>0, <1>1, <1>2, <2>1, <2>2, <2>4 DEF BoundaryInv, GpuShape, Moves, GpuBecomes, Syncing, Ingesting
    <2>6. gpu'.at = "range" => Entry'.cell # None
      BY <1>0, <1>1, <1>2, <2>1, <2>2 DEF Moves, GpuBecomes, BoundaryInv, JournalShape, Entry
    <2> QED
      BY <1>0, <1>1, <2>1, <2>2, <2>3, <2>4, <2>5, <2>6, QuietBoundary DEF Moves, GpuBecomes, Ingesting
  <1>4. CASE JournalRange
    <2>1. gpu.at = "range" /\ Entry.cell # None
      BY <1>4 DEF JournalRange, GpuAt, BoundaryInv, JournalShape
    <2>2. journal[Index(gpu.next)] \in [epoch : Nat, cell : Cells \cup {None}]
      BY <1>2 DEF BoundaryInv, MirrorType
    <2>3. Entry.cell \in Cells
      BY <2>1, <2>2 DEF Entry
    <2>4. PICK f \in SUBSET Cells : f = IF gpu.next = gpu.ignored THEN gpu.found ELSE gpu.found \cup {Entry.cell}
      BY <1>0, <2>3 DEF GpuRecord
    <2>5. gpu' = [gpu EXCEPT !.at = "after", !.found = f]
      BY <1>4, <2>4 DEF JournalRange
    <2>6. gpu' \in GpuRecord
      BY <1>0, <2>5 DEF GpuRecord, Syncing, Ingesting
    <2>7. /\ gpu'.at = "after" /\ gpu'.op = gpu.op /\ gpu'.req = gpu.req /\ gpu'.cell = gpu.cell
          /\ gpu'.through = gpu.through /\ gpu'.next = gpu.next /\ gpu'.then = gpu.then
      BY <1>0, <1>4, RangeBecomes DEF GpuBecomes
    <2>8. InWindow' <=> InWindow
      BY <2>1, <2>7 DEF InWindow, Syncing, Ingesting
    <2>9. GpuShape'
      BY <1>0, <1>1, <1>2, <2>1, <2>7, <2>8 DEF BoundaryInv, GpuShape, Syncing, Ingesting
    <2> QED
      BY <1>0, <1>1, <2>1, <2>6, <2>7, <2>8, <2>9, QuietBoundary DEF Ingesting
  <1> QED
    BY <1>3, <1>4

\* The tracker takes in what was found and is level with the boundary.
LEMMA ApplyBoundary ==
  ASSUME BoundaryInv, NEW cells \in SUBSET Cells, Apply(cells), gpu.at \in {"after", "pages"},
         gpu' \in GpuRecord, gpu'.at = gpu.then, gpu'.op = gpu.op, gpu'.req = gpu.req, gpu'.cell = gpu.cell,
         gpu'.then = gpu.then, UNCHANGED <<coherency, window, cpu, fresh, newest, raced>>,
         exposed \subseteq exposed', exposed' \subseteq Cells
  PROVE  BoundaryInv'
  <1>0. /\ epoch \in Nat /\ synced \in Nat /\ gpu.through \in Nat /\ gpu.then \in {"upload", "readback", "prepare", "commit"}
        /\ gpu.through <= epoch /\ \A w \in Writers : cpu[w].epoch \in Nat
    BY DEF BoundaryInv, MirrorType, GpuRecord, WriterRecord, GpuShape, Ingesting, Syncing
  <1>1. UNCHANGED <<epoch, writers, journal, cpu, window>> /\ synced' = gpu.through
    BY DEF coherency, bits, Apply
  <1>2. MirrorType'
    BY <1>0 DEF Apply, coherency, bits, BoundaryInv, MirrorType
  <1>3. WriterShape'
    BY <1>1 DEF BoundaryInv, WriterShape, At, Flying
  <1>4. WritersCounted'
    BY <1>1 DEF BoundaryInv, WritersCounted
  <1>5. JournalShape'
    BY <1>0, <1>1 DEF BoundaryInv, JournalShape, At
  <1>6. InWindow' => InWindow
    BY <1>0 DEF InWindow, Syncing, Ingesting
  <1>7. WindowShut'
    BY <1>1, <1>6 DEF BoundaryInv, WindowShut
  <1>8. GpuShape'
    BY <1>0, <1>1, <1>6 DEF BoundaryInv, GpuShape, Syncing, Ingesting
  <1>9. BoundaryAhead'
    BY <1>0, <1>1 DEF BoundaryInv, BoundaryAhead, Ahead, Flying, Ingesting, At
  <1> QED
    BY <1>2, <1>3, <1>4, <1>5, <1>7, <1>8, <1>9 DEF BoundaryInv

LEMMA AfterBoundary ==
  ASSUME BoundaryInv, JournalAfter
  PROVE  BoundaryInv'
  <1>0. /\ gpu \in GpuRecord /\ gpu.next \in Nat /\ gpu.through \in Nat /\ gpu.found \in SUBSET Cells
        /\ synced \in Nat /\ gpu.at = "after" /\ raced \subseteq Cells /\ exposed \subseteq Cells
    BY DEF BoundaryInv, MirrorType, GpuRecord, JournalAfter, GpuAt
  <1>1. /\ gpu.next > synced /\ gpu.next <= gpu.through /\ gpu.through <= epoch
        /\ gpu.then \in {"upload", "readback", "prepare", "commit"}
    BY <1>0 DEF BoundaryInv, MirrorType, GpuRecord, GpuShape, Ingesting, Syncing
  <1>2. PICK l \in {"upload", "readback", "prepare", "commit", "pages", "before"} :
          l = IF Entry.epoch # gpu.next THEN "pages" ELSE IF gpu.next = gpu.through THEN gpu.then ELSE "before"
    BY <1>1
  <1>3. gpu' = [gpu EXCEPT !.at = l, !.next = gpu.next + 1]
    BY <1>0, <1>2 DEF JournalAfter, GpuRecord
  <1>4. gpu' \in GpuRecord
    <2>1. PICK n \in Nat : n = gpu.next + 1
      BY <1>0
    <2> QED
      BY <1>0, <1>3, <2>1, GpuRecordOf DEF Syncing, Ingesting
  <1>5. /\ gpu'.at = l /\ gpu'.op = gpu.op /\ gpu'.req = gpu.req /\ gpu'.cell = gpu.cell
        /\ gpu'.through = gpu.through /\ gpu'.next = gpu.next + 1 /\ gpu'.then = gpu.then
    BY <1>0, <1>2, AfterBecomes DEF GpuBecomes
  <1>6. UNCHANGED <<coherency, window, cpu, ghosts, fresh, newest, raced, exposed>>
    BY DEF JournalAfter, ghosts
  <1>7. CASE Entry.epoch = gpu.next /\ gpu.next = gpu.through
    <2>1. Apply(gpu.found)
      BY <1>7 DEF JournalAfter
    <2> QED
      BY <1>0, <1>2, <1>4, <1>5, <1>6, <1>7, <2>1, ApplyBoundary
  <1>8. CASE ~(Entry.epoch = gpu.next /\ gpu.next = gpu.through)
    <2>1. UNCHANGED tracker /\ UNCHANGED <<epoch, synced, fresh, newest, raced>>
      BY <1>6, <1>8 DEF JournalAfter, coherency, bits, ghosts, tracker
    <2>2. l = "pages" \/ (l = "before" /\ gpu.next + 1 <= gpu.through)
      BY <1>0, <1>1, <1>2, <1>8
    <2>3. InWindow' <=> InWindow
      BY <1>0, <1>5, <2>2 DEF InWindow, Syncing, Ingesting
    <2>4. GpuShape'
      BY <1>0, <1>1, <1>5, <2>1, <2>2, <2>3 DEF BoundaryInv, GpuShape, Syncing, Ingesting
    <2> QED
      BY <1>0, <1>4, <1>5, <1>6, <2>1, <2>2, <2>3, <2>4, QuietBoundary DEF Ingesting
  <1> QED
    BY <1>7, <1>8

LEMMA PagesBoundary ==
  ASSUME BoundaryInv, IngestPages
  PROVE  BoundaryInv'
  <1>1. gpu \in GpuRecord /\ gpu.at = "pages" /\ gpu.then \in {"upload", "readback", "prepare", "commit"}
    BY DEF BoundaryInv, MirrorType, GpuRecord, GpuShape, Ingesting, Syncing, IngestPages, GpuAt
  <1>2. gpu' = [gpu EXCEPT !.at = gpu.then] /\ Moves(gpu.then)
    BY <1>1, GotoMoves DEF IngestPages
  <1>3. gpu' \in GpuRecord
    BY <1>1, <1>2, GpuRecordOf
  <1>4. PICK cells \in SUBSET Cells : Apply(cells)
    BY DEF IngestPages
  <1>5. /\ UNCHANGED <<coherency, window, cpu, fresh, newest, raced>>
        /\ exposed \subseteq exposed' /\ exposed' \subseteq Cells
    BY DEF IngestPages, Neighbours, BoundaryInv, MirrorType
  <1> QED
    BY <1>1, <1>2, <1>3, <1>4, <1>5, ApplyBoundary DEF Moves, GpuBecomes

\* The steps that copy, plan and account, outside synchronization.
LEMMA OpBoundary ==
  ASSUME BoundaryInv, UNCHANGED <<coherency, window, cpu, synced, newest, exposed>>,
         cpuDirty' \subseteq Cells, gpuDirty' \subseteq Cells, valid' \subseteq Cells,
         fresh' \in [Cells -> SUBSET Places], raced' \subseteq Cells, gpu' \in GpuRecord,
         gpu'.at \notin Ingesting \cup {"check"}, InWindow' => InWindow,
         gpu'.at # "idle" => gpu'.op \in Ops /\ (Writes(gpu'.op) => gpu'.req \subseteq GpuCells),
         gpu'.at \in Syncing => gpu'.then \in {"upload", "readback", "prepare"},
         gpu'.at \in {"copy", "submit", "open"} \/ InWindow' => gpu'.cell \in Cells
  PROVE  BoundaryInv'
  <1>1. UNCHANGED <<cpu, writers, journal, window, synced, epoch>>
    BY DEF coherency, bits
  <1>2. MirrorType' /\ epoch' >= epoch
    BY DEF coherency, bits, BoundaryInv, MirrorType
  <1>3. GpuShape'
    BY DEF GpuShape, Ingesting
  <1> QED
    BY <1>1, <1>2, <1>3, GpuFrame DEF Ingesting

\* Copying keeps the places.
LEMMA CopiedType ==
  ASSUME fresh \in [Cells -> SUBSET Places], NEW c \in Cells, NEW from \in Places, NEW to \in Places, Copied(c, from, to)
  PROVE  fresh' \in [Cells -> SUBSET Places]
  BY DEF Copied

LEMMA IdleIsTyped == IdleGpu \in GpuRecord
  BY DEF IdleGpu, GpuRecord, Syncing

LEMMA ReturnBoundary ==
  ASSUME BoundaryInv, Return, UNCHANGED <<coherency, window, cpu, synced, newest, exposed>>,
         cpuDirty' \subseteq Cells, gpuDirty' \subseteq Cells, valid' \subseteq Cells,
         fresh' \in [Cells -> SUBSET Places]
  PROVE  BoundaryInv'
  <1>1. gpu'.at = "idle" /\ gpu' \in GpuRecord /\ raced' \subseteq Cells
    BY IdleIsTyped, ReturnIdles DEF Return, GpuBecomes
  <1>2. ~InWindow'
    BY <1>1 DEF InWindow, Syncing, Ingesting
  <1> QED
    BY <1>1, <1>2, OpBoundary DEF Syncing, Ingesting

LEMMA RequestBoundary ==
  ASSUME BoundaryInv, NEW op \in Ops, NEW cells \in SUBSET Cells, Request(op, cells)
  PROVE  BoundaryInv'
  <1>1. /\ gpu'.at = "collect" /\ gpu'.op = op /\ gpu'.req = cells
        /\ gpu'.then = IF op = "visible" THEN "readback" ELSE "upload"
    BY RequestBecomes DEF GpuBecomes
  <1>2. gpu' \in GpuRecord
    <2>1. PICK k \in {"readback", "upload"} : k = IF op = "visible" THEN "readback" ELSE "upload"
      OBVIOUS
    <2>2. gpu' = [IdleGpu EXCEPT !.at = "collect", !.op = op, !.req = cells, !.then = k]
      BY <2>1 DEF Request
    <2> QED
      BY <2>2, IdleIsTyped DEF GpuRecord, Syncing
  <1>3. raced' \subseteq Cells
    <2>1. \A w \in Writers : ~At(w, "idle") => cpu[w].cell \in Cells
      BY CellTyped
    <2> QED
      BY <2>1 DEF Request
  <1>4. ~InWindow' /\ gpu'.then \in {"readback", "upload"}
    BY <1>1 DEF InWindow
  <1>5. UNCHANGED <<coherency, window, cpu, synced, cpuDirty, gpuDirty, valid, fresh, newest, exposed>>
    BY DEF Request, tracker
  <1>6. cpuDirty \subseteq Cells /\ gpuDirty \subseteq Cells /\ valid \subseteq Cells /\ fresh \in [Cells -> SUBSET Places]
    BY DEF BoundaryInv, MirrorType
  <1>7. Writes(op) => cells \subseteq GpuCells
    BY DEF Request
  <1> QED
    BY <1>1, <1>2, <1>3, <1>4, <1>5, <1>6, <1>7, OpBoundary DEF Ingesting

LEMMA UploadBoundary ==
  ASSUME BoundaryInv,
         \/ PlanUpload \/ UploadCopy \/ UploadSubmit \/ UploadFail \/ UploadRefused \/ Draw \/ GpuWrite
         \/ \E c \in Cells : UploadCommit(c)
  PROVE  BoundaryInv'
  <1>0. /\ gpu \in GpuRecord /\ cpuDirty \subseteq Cells /\ gpuDirty \subseteq Cells /\ valid \subseteq Cells
        /\ fresh \in [Cells -> SUBSET Places] /\ raced \subseteq Cells
        /\ gpu.req \subseteq Cells /\ gpu.todo \subseteq Cells
    BY DEF BoundaryInv, MirrorType, GpuRecord
  <1>1. /\ gpu.at # "idle" => gpu.op \in Ops /\ (Writes(gpu.op) => gpu.req \subseteq GpuCells)
        /\ gpu.at \in {"copy", "submit"} => gpu.cell \in Cells
    BY DEF BoundaryInv, GpuShape
  <1>2. CASE PlanUpload
    <2>1. /\ gpu.at = "upload" /\ UNCHANGED <<coherency, window, cpu, tracker, ghosts>>
          /\ UNCHANGED <<cpuDirty, gpuDirty, valid, synced, fresh, newest, raced, exposed>>
      BY <1>2 DEF PlanUpload, GpuAt, tracker, ghosts
    <2>2. gpu'.at = "stage" /\ gpu'.op = gpu.op /\ gpu'.req = gpu.req
      BY <1>0, <1>2, PlansBecome DEF GpuBecomes
    <2>3. gpu' \in GpuRecord
      <3>1. PICK t \in SUBSET Cells : t = (cpuDirty \cap gpu.req) \cup (gpu.req \ valid)
        BY <1>0
      <3> QED
        BY <1>0, <1>2, <3>1, GpuRecordOf DEF PlanUpload
    <2>4. ~InWindow'
      BY <2>2 DEF InWindow, Syncing, Ingesting
    <2> QED
      BY <1>0, <1>1, <2>1, <2>2, <2>3, <2>4, OpBoundary DEF Syncing, Ingesting
  <1>3. ASSUME NEW c \in Cells, UploadCommit(c) PROVE BoundaryInv'
    <2>1. /\ gpu.at = "stage" /\ UNCHANGED <<coherency, window, cpu, synced, gpuDirty, fresh, newest, raced, exposed>>
          /\ cpuDirty' \subseteq Cells /\ valid' \subseteq Cells
      BY <1>0, <1>3 DEF UploadCommit, GpuAt, ghosts
    <2>2. gpu'.at = "copy" /\ gpu'.op = gpu.op /\ gpu'.req = gpu.req /\ gpu'.cell = c
      BY <1>0, <1>3, TakesBecome DEF GpuBecomes
    <2>3. gpu' \in GpuRecord
      <3>1. PICK t \in SUBSET Cells : t = gpu.todo \ {c}
        BY <1>0
      <3>2. gpu' = [gpu EXCEPT !.at = "copy", !.cell = c, !.todo = t]
        BY <1>0, <1>3, <3>1 DEF UploadCommit, GpuRecord
      <3> QED
        BY <1>0, <3>2, GpuRecordOf
    <2>4. ~InWindow'
      BY <2>2 DEF InWindow, Syncing, Ingesting
    <2> QED
      BY <1>0, <1>1, <2>1, <2>2, <2>3, <2>4, OpBoundary DEF Syncing, Ingesting
  <1>4. CASE UploadCopy
    <2>1. /\ gpu.at = "copy" /\ UNCHANGED <<coherency, window, cpu, synced, cpuDirty, gpuDirty, valid, newest, raced, exposed>>
          /\ fresh' \in [Cells -> SUBSET Places]
      BY <1>0, <1>1, <1>4, CopiedType DEF UploadCopy, GpuAt, tracker, Places
    <2>2. gpu'.at = "submit" /\ gpu'.op = gpu.op /\ gpu'.req = gpu.req /\ gpu'.cell = gpu.cell
      BY <1>0, <1>4, GotoMoves DEF UploadCopy, Moves, GpuBecomes
    <2>3. gpu' \in GpuRecord
      BY <1>0, <1>4, GpuRecordOf DEF UploadCopy, GpuGoto
    <2>4. ~InWindow'
      BY <2>2 DEF InWindow, Syncing, Ingesting
    <2> QED
      BY <1>0, <1>1, <2>1, <2>2, <2>3, <2>4, OpBoundary DEF Syncing, Ingesting
  <1>5. CASE UploadSubmit
    <2>1. /\ gpu.at = "submit" /\ UNCHANGED <<coherency, window, cpu, synced, cpuDirty, gpuDirty, valid, newest, raced, exposed>>
          /\ fresh' \in [Cells -> SUBSET Places]
      BY <1>0, <1>1, <1>5, CopiedType DEF UploadSubmit, GpuAt, tracker, Places
    <2>2. gpu'.at = "stage" /\ gpu'.op = gpu.op /\ gpu'.req = gpu.req
      BY <1>0, <1>5, LeavesBecome DEF GpuBecomes
    <2>3. gpu' \in GpuRecord
      BY <1>0, <1>5, GpuRecordOf DEF UploadSubmit
    <2>4. ~InWindow'
      BY <2>2 DEF InWindow, Syncing, Ingesting
    <2> QED
      BY <1>0, <1>1, <2>1, <2>2, <2>3, <2>4, OpBoundary DEF Syncing, Ingesting
  <1>6. CASE UploadFail
    <2>1. /\ Return /\ UNCHANGED <<coherency, window, cpu, synced, gpuDirty, fresh, newest, exposed>>
          /\ cpuDirty' \subseteq Cells /\ valid' \subseteq Cells
      BY <1>0, <1>1, <1>6 DEF UploadFail
    <2> QED
      BY <1>0, <2>1, ReturnBoundary
  <1>7. CASE UploadRefused \/ Draw
    <2>1. Return /\ UNCHANGED <<coherency, window, cpu, synced, cpuDirty, gpuDirty, valid, fresh, newest, exposed>>
      BY <1>7 DEF UploadRefused, Draw, tracker
    <2> QED
      BY <1>0, <2>1, ReturnBoundary
  <1>8. CASE GpuWrite
    <2>1. /\ gpu.at = "stage" /\ Writes(gpu.op) /\ UNCHANGED <<coherency, window, cpu, synced, newest, exposed>>
          /\ cpuDirty' \subseteq Cells /\ valid' \subseteq Cells /\ gpuDirty' \subseteq Cells
      BY <1>0, <1>8 DEF GpuWrite, Uploaded, GpuAt
    <2>2. fresh' \in [Cells -> SUBSET Places]
      <3>1. \A c \in Cells : fresh[c] \in SUBSET Places /\ fresh[c] \ {"mirror"} \in SUBSET Places /\ {"mirror"} \in SUBSET Places
        BY <1>0 DEF Places
      <3>2. fresh' = [c \in Cells |-> IF c \notin gpu.req THEN fresh[c]
                                      ELSE IF Pending(c) THEN fresh[c] \ {"mirror"} ELSE {"mirror"}]
        BY <1>8 DEF GpuWrite
      <3> QED
        BY <3>1, <3>2
    <2>3. CASE gpu.op = "resolve"
      <3>1. gpu'.at = "collect" /\ gpu'.op = gpu.op /\ gpu'.req = gpu.req /\ gpu'.then = "readback"
        BY <1>0, <1>8, <2>3, ResolveBecomes DEF GpuBecomes
      <3>2. gpu' = [gpu EXCEPT !.at = "collect", !.then = "readback"] /\ raced' = raced
        BY <1>8, <2>3 DEF GpuWrite
      <3>3. gpu' \in GpuRecord
        BY <1>0, <3>2, GpuRecordOf DEF Syncing
      <3>4. ~InWindow'
        BY <3>1 DEF InWindow
      <3> QED
        BY <1>0, <1>1, <2>1, <2>2, <3>1, <3>2, <3>3, <3>4, OpBoundary DEF Syncing, Ingesting
    <2>4. CASE gpu.op # "resolve"
      <3>1. Return
        BY <1>8, <2>4 DEF GpuWrite
      <3> QED
        BY <2>1, <2>2, <3>1, ReturnBoundary
    <2> QED
      BY <2>3, <2>4
  <1> QED
    BY <1>2, <1>3, <1>4, <1>5, <1>6, <1>7, <1>8

LEMMA ReadbackBoundary ==
  ASSUME BoundaryInv,
         PlanReadback \/ DownloadFail \/ Prepare \/ DownloadCommit \/ Visible \/ \E c \in Cells : DownloadCopy(c)
  PROVE  BoundaryInv'
  <1>0. /\ gpu \in GpuRecord /\ cpuDirty \subseteq Cells /\ gpuDirty \subseteq Cells /\ valid \subseteq Cells
        /\ fresh \in [Cells -> SUBSET Places] /\ raced \subseteq Cells
        /\ gpu.req \subseteq Cells /\ gpu.todo \subseteq Cells
    BY DEF BoundaryInv, MirrorType, GpuRecord
  <1>1. /\ gpu.at # "idle" => gpu.op \in Ops /\ (Writes(gpu.op) => gpu.req \subseteq GpuCells)
        /\ InWindow => gpu.cell \in Cells
    BY DEF BoundaryInv, GpuShape
  <1>2. CASE PlanReadback
    <2>1. /\ gpu.at = "readback" /\ UNCHANGED <<coherency, window, cpu, tracker, ghosts>>
          /\ UNCHANGED <<cpuDirty, gpuDirty, valid, synced, fresh, newest, raced, exposed>>
      BY <1>2 DEF PlanReadback, GpuAt, tracker, ghosts
    <2>2. gpu'.at = "download" /\ gpu'.op = gpu.op /\ gpu'.req = gpu.req
      BY <1>0, <1>2, PlansBecome DEF GpuBecomes
    <2>3. gpu' \in GpuRecord
      <3>1. PICK t \in SUBSET Cells : t = gpuDirty \cap gpu.req
        BY <1>0
      <3> QED
        BY <1>0, <1>2, <3>1, GpuRecordOf DEF PlanReadback
    <2>4. ~InWindow'
      BY <2>2 DEF InWindow, Syncing, Ingesting
    <2> QED
      BY <1>0, <1>1, <2>1, <2>2, <2>3, <2>4, OpBoundary DEF Syncing, Ingesting
  <1>3. ASSUME NEW c \in Cells, DownloadCopy(c) PROVE BoundaryInv'
    <2>1. /\ gpu.at = "download" /\ UNCHANGED <<coherency, window, cpu, synced, cpuDirty, gpuDirty, valid, newest, raced, exposed>>
          /\ fresh' \in [Cells -> SUBSET Places]
      BY <1>0, <1>3, CopiedType DEF DownloadCopy, GpuAt, tracker, Places
    <2>2. gpu'.at = "open" /\ gpu'.op = gpu.op /\ gpu'.req = gpu.req /\ gpu'.cell = c
      BY <1>0, <1>3, TakesBecome DEF GpuBecomes
    <2>3. gpu' \in GpuRecord
      <3>1. PICK t \in SUBSET Cells : t = gpu.todo \ {c}
        BY <1>0
      <3>2. gpu' = [gpu EXCEPT !.at = "open", !.cell = c, !.todo = t]
        BY <1>0, <1>3, <3>1 DEF DownloadCopy, GpuRecord
      <3> QED
        BY <1>0, <3>2, GpuRecordOf
    <2>4. ~InWindow'
      BY <2>2 DEF InWindow, Syncing, Ingesting
    <2> QED
      BY <1>0, <1>1, <2>1, <2>2, <2>3, <2>4, OpBoundary DEF Syncing, Ingesting
  <1>4. CASE DownloadFail \/ Visible
    <2>1. Return /\ UNCHANGED <<coherency, window, cpu, synced, cpuDirty, gpuDirty, valid, fresh, newest, exposed>>
      BY <1>4 DEF DownloadFail, Visible, tracker
    <2> QED
      BY <1>0, <2>1, ReturnBoundary
  <1>5. CASE Prepare
    <2>1. /\ gpu.at = "prepare" /\ InWindow
          /\ UNCHANGED <<coherency, window, cpu, synced, cpuDirty, gpuDirty, valid, fresh, newest, raced, exposed>>
      BY <1>5 DEF Prepare, GpuAt, tracker, ghosts, InWindow
    <2>2. PICK l \in {"write", "close"} : GpuGoto(l)
      BY <1>5 DEF Prepare
    <2>3. gpu'.at = l /\ gpu'.op = gpu.op /\ gpu'.req = gpu.req /\ gpu'.cell = gpu.cell
      BY <1>0, <2>2, GotoMoves DEF Moves, GpuBecomes
    <2>4. gpu' \in GpuRecord
      BY <1>0, <2>2, GpuRecordOf DEF GpuGoto
    <2> QED
      BY <1>0, <1>1, <2>1, <2>2, <2>3, <2>4, OpBoundary DEF Syncing, Ingesting
  <1>6. CASE DownloadCommit
    <2>1. /\ gpu.at = "commit" /\ InWindow
          /\ UNCHANGED <<coherency, window, cpu, synced, cpuDirty, fresh, newest, raced, exposed>>
      BY <1>6 DEF DownloadCommit, GpuAt, ghosts, InWindow
    <2>2. gpuDirty' \subseteq Cells /\ valid' \subseteq Cells
      BY <1>0, <1>1, <1>6, <2>1 DEF DownloadCommit
    <2>3. gpu'.at = "close" /\ gpu'.op = gpu.op /\ gpu'.req = gpu.req /\ gpu'.cell = gpu.cell
      BY <1>0, <1>6, GotoMoves DEF DownloadCommit, Moves, GpuBecomes
    <2>4. gpu' \in GpuRecord
      BY <1>0, <1>6, GpuRecordOf DEF DownloadCommit, GpuGoto
    <2> QED
      BY <1>0, <1>1, <2>1, <2>2, <2>3, <2>4, OpBoundary DEF Syncing, Ingesting
  <1> QED
    BY <1>2, <1>3, <1>4, <1>5, <1>6

\* Whoever has an epoch is counted or commits, so the window opens on none.
LEMMA OpenBoundary ==
  ASSUME BoundaryInv, WindowOpen
  PROVE  BoundaryInv'
  <1>0. /\ gpu \in GpuRecord /\ gpu.at = "open" /\ gpu.cell \in Cells /\ gpu.op \in Ops
        /\ (Writes(gpu.op) => gpu.req \subseteq GpuCells)
    BY DEF BoundaryInv, MirrorType, GpuShape, WindowOpen, GpuAt
  <1>1. \A w \in Writers : cpu[w].at \in {"idle", "mark", "summary"}
    BY NobodyCounted DEF BoundaryInv, WriterShape, WindowOpen, Committing
  <1>2. /\ gpu'.at = "collect" /\ gpu'.then = "prepare" /\ gpu'.op = gpu.op /\ gpu'.req = gpu.req
        /\ gpu'.cell = gpu.cell
    BY <1>0, OpenBecomes DEF GpuBecomes
  <1>3. gpu' \in GpuRecord
    BY <1>0, GpuRecordOf DEF WindowOpen, Syncing
  <1>4. /\ UNCHANGED <<coherency, cpu, tracker, ghosts>> /\ window' = TRUE
        /\ UNCHANGED <<epoch, journal, writers, synced>>
    BY DEF WindowOpen, coherency, bits, tracker
  <1>5. MirrorType'
    BY <1>3, <1>4 DEF BoundaryInv, MirrorType, coherency, bits, tracker, ghosts
  <1>6. WriterShape' /\ WritersCounted'
    BY <1>4 DEF BoundaryInv, WriterShape, WritersCounted, At, Flying
  <1>7. GpuShape'
    BY <1>0, <1>2 DEF GpuShape, InWindow, Syncing, Ingesting
  <1>8. JournalShape'
    BY <1>2, <1>4 DEF BoundaryInv, JournalShape, At
  <1>9. WindowShut'
    BY <1>1, <1>4 DEF WindowShut
  <1>10. BoundaryAhead'
    BY <1>1, <1>4 DEF BoundaryInv, BoundaryAhead, Ahead, Flying
  <1> QED
    BY <1>5, <1>6, <1>7, <1>8, <1>9, <1>10 DEF BoundaryInv

LEMMA CloseBoundary ==
  ASSUME BoundaryInv, WindowClose
  PROVE  BoundaryInv'
  <1>0. /\ gpu \in GpuRecord /\ gpu.at = "close" /\ gpu.op \in Ops
        /\ (Writes(gpu.op) => gpu.req \subseteq GpuCells)
    BY DEF BoundaryInv, MirrorType, GpuShape, WindowClose, GpuAt
  <1>2. gpu'.at = "download" /\ gpu'.op = gpu.op /\ gpu'.req = gpu.req
    BY <1>0, LeavesBecome DEF GpuBecomes
  <1>3. gpu' \in GpuRecord
    BY <1>0, GpuRecordOf DEF WindowClose
  <1>4. /\ UNCHANGED <<coherency, cpu, tracker, ghosts>> /\ window' = FALSE
        /\ UNCHANGED <<epoch, journal, writers, synced>>
    BY DEF WindowClose, coherency, bits, tracker
  <1>5. MirrorType'
    BY <1>3, <1>4 DEF BoundaryInv, MirrorType, coherency, bits, tracker, ghosts
  <1>6. WriterShape' /\ WritersCounted'
    BY <1>4 DEF BoundaryInv, WriterShape, WritersCounted, At, Flying
  <1>7. GpuShape' /\ ~InWindow'
    BY <1>0, <1>2 DEF GpuShape, InWindow, Syncing, Ingesting
  <1>8. JournalShape'
    BY <1>2, <1>4 DEF BoundaryInv, JournalShape, At
  <1>9. WindowShut'
    BY <1>4, <1>7 DEF WindowShut
  <1>10. BoundaryAhead'
    BY <1>2, <1>4 DEF BoundaryInv, BoundaryAhead, Ahead, Flying, Ingesting, At, ghosts
  <1> QED
    BY <1>5, <1>6, <1>7, <1>8, <1>9, <1>10 DEF BoundaryInv


\* The readback's own store is published with the strict writers shut out.
LEMMA WriteBoundary ==
  ASSUME BoundaryInv, WindowWrite
  PROVE  BoundaryInv'
  <1>0. /\ gpu \in GpuRecord /\ gpu.at = "write" /\ InWindow /\ window /\ gpu.cell \in Cells /\ gpu.op \in Ops
        /\ (Writes(gpu.op) => gpu.req \subseteq GpuCells) /\ epoch \in Nat /\ synced \in Nat /\ synced <= epoch
    BY DEF BoundaryInv, MirrorType, GpuShape, WindowShut, BoundaryAhead, InWindow, WindowWrite, GpuAt
  <1>1. \A w \in Writers : cpu[w].at \in {"idle", "mark", "summary"}
    BY <1>0 DEF BoundaryInv, WindowShut
  <1>2. PICK e \in Nat : e = epoch + 1
    BY <1>0
  <1>3. Index(e) \in 0..(Capacity - 1)
    BY IndexRange
  <1>4. /\ epoch' = e /\ pageEpoch' = [pageEpoch EXCEPT ![Page[gpu.cell]] = e]
        /\ journal' = [journal EXCEPT ![Index(e)] = [epoch |-> e, cell |-> gpu.cell]]
        /\ Copied(gpu.cell, "stage", "ram") /\ Ingest(e, e, "commit")
        /\ UNCHANGED <<writers, dirty, window, cpu, synced, cpuDirty, gpuDirty, valid, newest, raced>>
        /\ exposed \subseteq exposed' /\ exposed' \subseteq Cells
    BY <1>0, <1>2 DEF WindowWrite, Overwritten, tracker, bits, BoundaryInv, MirrorType
  <1>5. /\ gpu'.op = gpu.op /\ gpu'.req = gpu.req /\ gpu'.cell = gpu.cell /\ gpu'.through = e
        /\ gpu'.next = synced + 1 /\ gpu'.then = "commit" /\ gpu'.at \in {"pages", "before"}
    BY <1>0, <1>2, <1>4, IngestBecomes DEF GpuBecomes, IngestLabel
  <1>6. MirrorType'
    <2>1. gpu' \in GpuRecord
      BY <1>0, <1>4, IngestTyped
    <2>2. fresh' \in [Cells -> SUBSET Places]
      BY <1>0, <1>4, CopiedType DEF BoundaryInv, MirrorType, Places
    <2>3. [epoch |-> e, cell |-> gpu.cell] \in [epoch : Nat, cell : Cells \cup {None}]
      BY <1>0
    <2>4. journal' \in [0..(Capacity - 1) -> [epoch : Nat, cell : Cells \cup {None}]]
      BY <1>4, <2>3 DEF BoundaryInv, MirrorType
    <2>5. pageEpoch' \in [Pages -> Nat]
      BY <1>4 DEF BoundaryInv, MirrorType
    <2> QED
      BY <1>4, <2>1, <2>2, <2>4, <2>5 DEF BoundaryInv, MirrorType
  <1>7. WriterShape'
    BY <1>1, <1>4 DEF BoundaryInv, WriterShape, At, Flying
  <1>8. WritersCounted'
    BY <1>4 DEF BoundaryInv, WritersCounted
  <1>9. GpuShape'
    BY <1>0, <1>2, <1>4, <1>5 DEF GpuShape, Syncing, Ingesting
  <1>10. JournalShape'
    <2>1. \A i \in DOMAIN journal' : journal'[i] = journal[i] \/ journal'[i] = [epoch |-> e, cell |-> gpu.cell]
      BY <1>4 DEF BoundaryInv, MirrorType
    <2>2. \A i \in DOMAIN journal' : journal'[i].cell = None => journal'[i].epoch = 0
      BY <1>0, <1>4, <2>1, NoneAssumption DEF BoundaryInv, MirrorType, JournalShape
    <2> QED
      BY <1>1, <1>4, <1>5, <2>2 DEF JournalShape, At
  <1>11. WindowShut'
    BY <1>0, <1>1, <1>4 DEF WindowShut
  <1>12. BoundaryAhead'
    BY <1>0, <1>1, <1>2, <1>4 DEF BoundaryAhead, Ahead, Flying
  <1> QED
    BY <1>6, <1>7, <1>8, <1>9, <1>10, <1>11, <1>12 DEF BoundaryInv

LEMMA GpuBoundary ==
  ASSUME BoundaryInv, Gpu PROVE BoundaryInv'
  <1>1. ASSUME Snapshot \/ Collect PROVE BoundaryInv'
    BY <1>1, CollectBoundary
  <1>2. ASSUME NEW op \in Ops, NEW cells \in Requests, Request(op, cells) PROVE BoundaryInv'
    BY <1>2, RequestBoundary, WriterAssumption
  <1>3. ASSUME Synchronize PROVE BoundaryInv'
    BY <1>1, <1>3, WaitBoundary, CheckBoundary, LookupBoundary, AfterBoundary, PagesBoundary DEF Synchronize
  <1>4. ASSUME Upload \/ \E c \in Cells : UploadCommit(c) PROVE BoundaryInv'
    BY <1>4, UploadBoundary DEF Upload
  <1>5. ASSUME Readback \/ \E c \in Cells : DownloadCopy(c) PROVE BoundaryInv'
    BY <1>5, ReadbackBoundary, OpenBoundary, WriteBoundary, CloseBoundary DEF Readback
  <1> QED
    BY <1>1, <1>2, <1>3, <1>4, <1>5 DEF Gpu

LEMMA BoundaryStep ==
  ASSUME BoundaryInv, [Next]_vars PROVE BoundaryInv'
  <1>1. CASE Gpu
    BY <1>1, GpuBoundary
  <1>2. ASSUME NEW w \in Writers, Store(w) PROVE BoundaryInv'
    BY <1>2, StoreBoundary
  <1>3. CASE UNCHANGED vars
    <2>1. /\ UNCHANGED <<epoch, pageEpoch, journal, writers, dirty, window, cpu, synced, cpuDirty, gpuDirty, valid>>
          /\ UNCHANGED <<gpu, fresh, newest, raced, exposed>>
      BY <1>3 DEF vars, coherency, bits, tracker, ghosts
    <2>2. MirrorType' /\ WriterShape' /\ WritersCounted'
      BY <2>1 DEF BoundaryInv, MirrorType, WriterShape, WritersCounted, At, Flying
    <2>3. GpuShape' /\ JournalShape' /\ WindowShut' /\ BoundaryAhead'
      BY <2>1 DEF BoundaryInv, GpuShape, JournalShape, WindowShut, BoundaryAhead, Ahead, InWindow, Entry, At, Flying
    <2> QED
      BY <2>2, <2>3 DEF BoundaryInv
  <1> QED
    BY <1>1, <1>2, <1>3 DEF Next

LEMMA BoundaryInit ==
  ASSUME Init PROVE BoundaryInv
  <1>1. gpu \in GpuRecord
    BY IdleIsTyped DEF Init
  <1>2. \A w \in Writers : cpu[w] = IdleWriter
    BY DEF Init
  <1>3. \A w \in Writers : cpu[w].at = "idle" /\ ~cpu[w].counted
    BY <1>2 DEF IdleWriter
  <1>4. cpu \in [Writers -> WriterRecord]
    BY DEF Init, IdleWriter, WriterRecord
  <1>5. \A i \in 0..(Capacity - 1) : journal[i].epoch = 0 /\ journal[i].cell = None
    BY DEF Init
  <1>6. journal \in [0..(Capacity - 1) -> [epoch : Nat, cell : Cells \cup {None}]]
    BY DEF Init
  <1>7. MirrorType
    BY <1>1, <1>4, <1>6 DEF Init, MirrorType, Places
  <1>8. WriterShape
    BY <1>3 DEF WriterShape, At, Flying
  <1>9. WritersCounted
    <2>1. {w \in Writers : cpu[w].counted} = {}
      BY <1>3
    <2> QED
      BY <2>1, FS_EmptySet DEF WritersCounted, Init
  <1>10. gpu.at = "idle"
    BY DEF Init, IdleGpu
  <1>11. GpuShape /\ ~InWindow
    BY <1>10 DEF GpuShape, InWindow, Syncing, Ingesting
  <1>12. JournalShape
    BY <1>3, <1>5, <1>6, <1>10 DEF JournalShape, At
  <1>13. WindowShut
    BY <1>3, <1>11 DEF WindowShut
  <1>14. BoundaryAhead
    BY <1>3, <1>10 DEF BoundaryAhead, Flying, Init, Ingesting
  <1> QED
    BY <1>7, <1>8, <1>9, <1>11, <1>12, <1>13, <1>14 DEF BoundaryInv

\* Every writer's record, the count of writers and the GPU thread's record
\* stay what the code makes of them: active_writers_ is the number of counted
\* stores, a physical write window has no strict store inside it, and what the
\* boundary overtakes is uncounted and exposed.
THEOREM BoundaryInvHolds == Spec => []BoundaryInv
  <1>1. Init => BoundaryInv
    BY BoundaryInit
  <1>2. BoundaryInv /\ [Next]_vars => BoundaryInv'
    BY BoundaryStep
  <1> QED
    BY <1>1, <1>2, PTL DEF Spec

\* While the tracker ingests up to a boundary, no counted store at or below it
\* is still without its page epoch (GuestMemoryCoherency::current_epoch),
\* whatever the uncounted ones do.
THEOREM BoundaryCompleteHolds == Spec => []BoundaryIsComplete
  <1>1. BoundaryInv => BoundaryIsComplete
    BY DEF BoundaryInv, BoundaryAhead, Ahead, BoundaryIsComplete, Flying, At
  <1> QED
    BY <1>1, BoundaryInvHolds, PTL

\* Types, in the form the steps below use them.
EpochTypes ==
    /\ epoch \in Nat /\ synced \in Nat /\ Capacity \in Nat \ {0}
    /\ gpu.through \in Nat /\ gpu.next \in Nat /\ gpu.ignored \in Nat
    /\ \A w \in Writers : cpu[w].epoch \in Nat

CellTypes ==
    /\ None \notin Nat
    /\ \A c \in Cells : newest[c] \in Nat \cup {None}

PageTypes == (\A c \in Cells : Page[c] \in Pages) /\ (\A p \in Pages : pageEpoch[p] \in Nat)

JournalTypes ==
    /\ \A i \in DOMAIN journal : journal[i].epoch \in Nat /\ journal[i].cell \in Cells \cup {None}
    /\ \A e \in Nat : Index(e) \in DOMAIN journal

MirrorTypes == EpochTypes /\ CellTypes /\ PageTypes /\ JournalTypes

LEMMA TypesHold ==
  ASSUME MirrorType PROVE MirrorTypes
  <1>1. EpochTypes
    <2>1. \A w \in Writers : cpu[w].epoch \in Nat
      BY DEF MirrorType, WriterRecord
    <2> QED
      BY <2>1, BoundAssumption DEF MirrorType, GpuRecord, EpochTypes
  <1>2. CellTypes
    BY NoneAssumption DEF MirrorType, CellTypes
  <1>3. PageTypes
    BY DEF MirrorType, PageTypes, Pages
  <1>4. JournalTypes
    BY IndexRange DEF MirrorType, JournalTypes
  <1> QED
    BY <1>1, <1>2, <1>3, <1>4 DEF MirrorTypes

-----------------------------------------------------------------------------
(***************************************************************************)
(* The publication invariant: the writers' steps.                          *)
(***************************************************************************)

\* Steps that neither give nor publish an epoch.
LEMMA QuietPublish ==
  ASSUME PublishInv, UNCHANGED <<epoch, pageEpoch, journal, dirty, newest, synced, gpu, exposed>>,
         \A v \in Writers : Flying(v) \/ Flying(v)' => cpu'[v] = cpu[v]
  PROVE  PublishInv'
  <1>0. OwnWrite' <=> OwnWrite
    BY DEF OwnWrite
  <1>1. \A v \in Writers : (Flying(v)' <=> Flying(v)) /\ (At(v, "page")' <=> At(v, "page"))
                           /\ (At(v, "journal")' <=> At(v, "journal"))
    BY DEF Flying, At
  <1>2. \A v \in Writers : Flying(v) => cpu'[v].epoch = cpu[v].epoch /\ cpu'[v].cell = cpu[v].cell
    OBVIOUS
  <1>3. \A v \in Writers : At(v, "page") \/ At(v, "journal") => Flying(v)
    BY DEF Flying, At
  <1>4. EpochsBounded' /\ MarksInv'
    BY DEF PublishInv, EpochsBounded, MarksInv
  <1>5. EpochsUnique'
    BY <1>1, <1>2 DEF PublishInv, EpochsUnique
  <1>6. SlotsInv' /\ NewestNamed'
    <2>1. SlotsInv'
      BY <1>1, <1>2, <1>3 DEF PublishInv, SlotsInv
    <2>2. \A i : InSlot(i)' = InSlot(i) /\ \A v \in InSlot(i) : v \in Writers /\ cpu'[v].epoch = cpu[v].epoch
      BY <1>1, <1>2, <1>3 DEF InSlot
    <2>3. NewestNamed'
      BY <2>2 DEF PublishInv, NewestNamed
    <2> QED
      BY <2>1, <2>3
  <1>7. EntriesCovered' /\ PagesCovered'
    BY <1>0 DEF PublishInv, EntriesCovered, PagesCovered
  <1>8. PagesShow'
    <2>1. ASSUME NEW e, PageShows(e) PROVE PageShows(e)'
      BY <1>1, <1>2, <1>3, <2>1 DEF PageShows
    <2> QED
      BY <2>1 DEF PublishInv, PagesShow
  <1>9. LookupInv' /\ LevelInv'
    BY <1>0, <1>1, <1>2 DEF PublishInv, LookupInv, LevelInv, Entry
  <1> QED
    BY <1>4, <1>5, <1>6, <1>7, <1>8, <1>9 DEF PublishInv

LEMMA StartPublish ==
  ASSUME BoundaryInv, PublishInv, NEW w \in Writers,
         \/ \E c \in Cells : StoreEnter(w, c) \/ NativeStore(w, c)
         \/ \E c \in Conditional, path \in Paths : ConditionalEnter(w, c, path)
         \/ StoreBytes(w) \/ ConditionalCount(w) \/ NativeSummary(w)
  PROVE  PublishInv'
  <1>0. Typed
    BY DEF Typed, BoundaryInv, MirrorType
  <1>1. UNCHANGED <<epoch, pageEpoch, journal, dirty, newest, synced, gpu, exposed>>
    BY DEF StoreEnter, NativeStore, ConditionalEnter, StoreBytes, ConditionalCount, NativeSummary,
           coherency, bits, tracker, ghosts
  <1>2. /\ \A v \in Writers : v # w => cpu'[v] = cpu[v]
        /\ cpu[w].at \in {"idle", "store", "epoch", "summary"} /\ cpu'[w].at \in {"idle", "store", "mark", "epoch"}
    <2>1. ASSUME NEW c, NEW path, NEW l \in {"store", "mark"}, Begin(w, c, path, l)
          PROVE  (\A v \in Writers : v # w => cpu'[v] = cpu[v]) /\ cpu[w].at = "idle" /\ cpu'[w].at = l
      BY <1>0, <2>1 DEF Begin, At, Typed
    <2>2. CASE StoreBytes(w)
      BY <1>0, <2>2, LabelMoves DEF StoreBytes, At, Goto, Becomes
    <2>3. CASE ConditionalCount(w)
      BY <1>0, <2>3, CountMoves DEF ConditionalCount, At, Becomes
    <2>4. CASE NativeSummary(w)
      BY <1>0, <2>4, IdleMoves DEF NativeSummary, At, Becomes
    <2> QED
      BY <2>1, <2>2, <2>3, <2>4 DEF StoreEnter, NativeStore, ConditionalEnter
  <1> QED
    BY <1>1, <1>2, QuietPublish DEF Flying

\* A store gets its epoch, above every one given so far.
LEMMA EpochPublish ==
  ASSUME BoundaryInv, PublishInv, NEW w \in Writers, StoreEpoch(w)
  PROVE  PublishInv'
  <1>0. Typed /\ MirrorTypes /\ ~Flying(w) /\ ~window
    BY TypesHold, StrictIsOutside DEF Typed, BoundaryInv, MirrorType, StoreEpoch, Flying, At
  <1>t. EpochTypes /\ CellTypes /\ PageTypes /\ JournalTypes
    BY <1>0 DEF MirrorTypes
  <1>1. PICK c \in Cells : c = cpu[w].cell
    BY CellTyped DEF StoreEpoch, At
  <1>2. PICK e \in Nat : e = epoch + 1
    BY <1>t DEF EpochTypes
  <1>3. /\ epoch' = e /\ UNCHANGED <<pageEpoch, journal, dirty, synced, gpu, exposed>>
        /\ \A d \in Cells : d # c => newest'[d] = newest[d]
        /\ newest[c] = None => newest'[c] = None
        /\ newest[c] # None => newest'[c] = e
    <2>1. newest \in [Cells -> Nat \cup {None}]
      BY DEF BoundaryInv, MirrorType
    <2>2. newest' = [newest EXCEPT ![c] = IF newest[c] = None THEN None ELSE e]
      BY <1>1, <1>2, <2>1 DEF StoreEpoch
    <2>3. epoch' = e /\ UNCHANGED <<pageEpoch, journal, dirty, synced, gpu, exposed>>
      BY <1>2 DEF StoreEpoch, tracker, bits
    <2> QED
      BY <2>1, <2>2, <2>3
  <1>4. /\ \A v \in Writers : v # w => cpu'[v] = cpu[v]
        /\ cpu'[w].at = "page" /\ cpu'[w].cell = c /\ cpu'[w].epoch = e
    BY <1>0, <1>t, <1>1, <1>2, EpochMoves DEF Becomes, EpochTypes
  <1>5. /\ \A v \in Writers : v # w => (Flying(v)' <=> Flying(v))
        /\ \A v \in Writers : (At(v, "page") => At(v, "page")' /\ v # w) /\ (At(v, "journal")' => At(v, "journal") /\ v # w)
    BY <1>0, <1>4 DEF Flying, At
  <1>6. \A v \in Writers : Flying(v) => cpu[v].epoch < e
    BY <1>t, <1>2 DEF BoundaryInv, WriterShape, EpochTypes
  <1>7. ~InWindow
    BY <1>0 DEF BoundaryInv, WindowShut
  <1>8. EpochsBounded'
    BY <1>t, <1>2, <1>3 DEF PublishInv, EpochsBounded, EpochTypes, CellTypes, PageTypes, JournalTypes
  <1>9. EpochsUnique'
    <2>1. \A d \in Cells : newest[d] # None => newest[d] < e
      BY <1>t, <1>2 DEF PublishInv, EpochsBounded, EpochTypes, CellTypes
    <2>2. ASSUME NEW u \in Writers, NEW v \in Writers, Flying(u)', Flying(v)', cpu'[u].epoch = cpu'[v].epoch
          PROVE u = v
      BY <1>t, <1>4, <1>5, <1>6, <2>2 DEF PublishInv, EpochsUnique, EpochTypes
    <2>3. ASSUME NEW v \in Writers, NEW d \in Cells, Flying(v)', newest'[d] = cpu'[v].epoch
          PROVE cpu'[v].cell = d
      BY <1>t, <1>3, <1>4, <1>5, <1>6, <2>1, <2>3 DEF PublishInv, EpochsUnique, EpochTypes, CellTypes
    <2>4. ASSUME NEW v \in Writers, Flying(v)'
          PROVE newest'[cpu'[v].cell] = None \/ newest'[cpu'[v].cell] >= cpu'[v].epoch
      <3>1. CASE v = w
        BY <1>0, <1>2, <1>3, <1>4, <3>1
      <3>2. CASE v # w
        <4>1. Flying(v) /\ cpu'[v] = cpu[v] /\ cpu[v].cell \in Cells
          BY <1>4, <1>5, <2>4, <3>2, CellTyped DEF Flying, At
        <4> QED
          BY <1>t, <1>3, <1>6, <4>1 DEF PublishInv, EpochsUnique, EpochTypes, CellTypes
      <3> QED
        BY <3>1, <3>2
    <2> QED
      BY <2>2, <2>3, <2>4 DEF EpochsUnique
  <1>10. MarksInv'
    BY <1>t, <1>3 DEF PublishInv, MarksInv, EpochTypes, CellTypes
  <1>17. \A i \in DOMAIN journal : journal[i].epoch # e
    BY <1>t, <1>2 DEF PublishInv, EpochsBounded, EpochTypes, JournalTypes
  <1>18. \A i : InSlot(i)' = InSlot(i) /\ \A v \in InSlot(i) : cpu'[v].epoch = cpu[v].epoch
    BY <1>0, <1>4, <1>5 DEF InSlot, At, Flying
  <1>11. SlotsInv'
    <2>1. \A i \in DOMAIN journal' : journal'[i].epoch = 0 \/ Index(journal'[i].epoch) = i
      BY <1>3 DEF PublishInv, SlotsInv
    <2>2. \A v \in Writers, i \in DOMAIN journal' : Flying(v)' => journal'[i].epoch # cpu'[v].epoch
      BY <1>3, <1>4, <1>5, <1>17 DEF PublishInv, SlotsInv
    <2>3. \A v \in Writers : At(v, "journal")' =>
            LET slot == journal'[Index(cpu'[v].epoch)] IN
            /\ slot.cell = cpu'[v].cell \/ {slot.cell, cpu'[v].cell} \subseteq exposed'
            /\ slot.epoch > cpu'[v].epoch => slot.cell \in exposed'
      BY <1>3, <1>4, <1>5 DEF PublishInv, SlotsInv
    <2>4. \A u, v \in Writers :
            u # v /\ At(u, "journal")' /\ At(v, "journal")' /\ Index(cpu'[u].epoch) = Index(cpu'[v].epoch) =>
               {journal'[Index(cpu'[v].epoch)].cell, cpu'[u].cell, cpu'[v].cell} \subseteq exposed'
      BY <1>3, <1>4, <1>5 DEF PublishInv, SlotsInv
    <2> QED
      BY <2>1, <2>2, <2>3, <2>4 DEF SlotsInv
  <1>12. NewestNamed'
    <2> SUFFICES ASSUME NEW d \in Cells \ exposed, newest'[d] # None, newest'[d] > 0,
                        journal[Index(newest'[d])].epoch = newest'[d]
                 PROVE  \/ journal[Index(newest'[d])].cell = d
                        \/ \E v \in InSlot(Index(newest'[d])) : cpu[v].epoch # newest'[d]
      BY <1>3, <1>18 DEF NewestNamed
    <2>1. newest'[d] # e
      BY <1>t, <1>2, <1>17 DEF JournalTypes
    <2>2. newest'[d] = newest[d]
      BY <1>3, <2>1
    <2> QED
      BY <2>2 DEF PublishInv, NewestNamed
  <1>13. EntriesCovered' /\ PagesCovered'
    <2>0. OwnWrite' <=> OwnWrite
      BY <1>3 DEF OwnWrite
    <2>1. \A d \in Cells : newest[d] # None => newest'[d] \in Nat /\ newest'[d] # None /\ newest'[d] >= newest[d]
      BY <1>t, <1>2, <1>3 DEF PublishInv, EpochsBounded, EpochTypes, CellTypes
    <2>2. \A d \in Cells : newest[d] = None => newest'[d] = None
      BY <1>3
    <2>3. EntriesCovered'
      <3> SUFFICES ASSUME NEW i \in DOMAIN journal, NEW d \in Cells \ exposed, journal[i].cell = d
                   PROVE \/ newest'[d] = None \/ newest'[d] >= journal[i].epoch
                         \/ journal[i].epoch <= synced
                         \/ OwnWrite /\ journal[i].epoch = gpu.ignored
        BY <1>3, <2>0 DEF EntriesCovered
      <3> QED
        BY <1>t, <1>3, <2>1, <2>2 DEF PublishInv, EntriesCovered, EpochTypes, CellTypes, JournalTypes
    <2>4. PagesCovered'
      <3> SUFFICES ASSUME NEW p \in Pages, pageEpoch[p] > synced, ~OwnWrite
                   PROVE  \E d \in Cells : Page[d] = p /\ (newest'[d] = None \/ newest'[d] >= pageEpoch[p])
        BY <1>t, <1>3, <2>0 DEF PagesCovered, PageTypes, EpochTypes
      <3>1. PICK d \in Cells : Page[d] = p /\ (newest[d] = None \/ newest[d] >= pageEpoch[p])
        BY <1>t DEF PublishInv, PagesCovered, PageTypes, EpochTypes
      <3> QED
        BY <1>t, <2>1, <2>2, <3>1 DEF CellTypes, PageTypes
    <2> QED
      BY <2>3, <2>4
  <1>14. PagesShow'
    <2>1. ASSUME NEW b \in Nat, PageShows(b), b < e PROVE PageShows(b)'
      <3> SUFFICES ASSUME NEW d \in Cells \ exposed, newest'[d] # None, newest'[d] > b
                   PROVE \/ pageEpoch[Page[d]] > b
                         \/ \E v \in Writers : At(v, "page")' /\ cpu'[v].cell = d /\ cpu'[v].epoch = newest'[d]
        BY <1>3 DEF PageShows
      <3>1. CASE d = c
        BY <1>3, <1>4, <3>1 DEF At
      <3>2. CASE d # c
        BY <1>3, <1>4, <1>5, <2>1, <3>2 DEF PageShows
      <3> QED
        BY <3>1, <3>2
    <2>2. synced < e /\ (gpu.at = "check" \/ gpu.at \in Ingesting => gpu.through < e)
      BY <1>t, <1>2 DEF BoundaryInv, BoundaryAhead, GpuShape, EpochTypes
    <2> QED
      BY <1>t, <1>3, <2>1, <2>2 DEF PublishInv, PagesShow, EpochTypes
  <1>15. LookupInv'
    <2>1. gpu.at \in Ingesting => gpu.through < e /\ gpu.ignored < e /\ gpu.next <= gpu.through + 1
      BY <1>t, <1>2 DEF BoundaryInv, GpuShape, PublishInv, LookupInv, EpochTypes
    <2>2. gpu.at \in {"before", "range", "after"} => gpu.at \in Ingesting /\ gpu.next < e
      BY <1>t, <1>2, <2>1 DEF BoundaryInv, GpuShape, EpochTypes, Ingesting
    <2>3. Entry' = Entry
      BY <1>3 DEF Entry
    <2>4. \A d \in Cells : newest'[d] # None => newest'[d] = e \/ (newest'[d] = newest[d] /\ newest[d] # None)
      BY <1>3
    <2>5. gpu.at \in {"before", "range", "after"} =>
            \A d \in Cells \ exposed : newest'[d] # None /\ newest'[d] > synced =>
              /\ newest'[d] < gpu.next => d \in gpu.found
              /\ gpu.at = "after" /\ newest'[d] = gpu.next /\ Entry.epoch = gpu.next => d \in gpu.found
      BY <1>t, <2>2, <2>4 DEF PublishInv, LookupInv, EpochTypes, CellTypes
    <2>7. gpu.at \in {"range", "after"} => \A v \in Writers : Flying(v)' => cpu'[v].epoch # gpu.next
      BY <1>t, <1>4, <1>5, <2>2 DEF PublishInv, LookupInv, EpochTypes
    <2>6. gpu.at \in Ingesting =>
            /\ gpu.ignored <= e
            /\ \A d \in Cells : newest'[d] # None /\ newest'[d] > synced => newest'[d] # gpu.ignored
      BY <1>t, <2>1, <2>4 DEF PublishInv, LookupInv, EpochTypes, CellTypes
    <2> QED
      BY <1>3, <2>3, <2>5, <2>6, <2>7 DEF PublishInv, LookupInv
  <1>16. LevelInv'
    BY <1>3, <1>7 DEF LevelInv, OwnWrite, InWindow, Syncing, Ingesting
  <1> QED
    BY <1>8, <1>9, <1>10, <1>11, <1>12, <1>13, <1>14, <1>15, <1>16 DEF PublishInv

\* The page's epoch: set back below an epoch that counts, it exposes the cells
\* with newer stores.
LEMMA PagePublish ==
  ASSUME BoundaryInv, PublishInv, NEW w \in Writers, StorePage(w)
  PROVE  PublishInv'
  <1>0. Typed /\ MirrorTypes /\ At(w, "page") /\ Flying(w) /\ cpu' = [cpu EXCEPT ![w].at = "range"]
    BY TypesHold DEF Typed, BoundaryInv, MirrorType, StorePage, Flying, At, Goto
  <1>t. EpochTypes /\ CellTypes /\ PageTypes /\ JournalTypes
    BY <1>0 DEF MirrorTypes
  <1>1. PICK c \in Cells : c = cpu[w].cell
    BY <1>0, CellTyped DEF At
  <1>2. PICK e \in Nat : e = cpu[w].epoch /\ e <= epoch
    BY <1>0, <1>t DEF BoundaryInv, WriterShape, EpochTypes
  <1>3. /\ UNCHANGED <<epoch, journal, dirty, synced, gpu, newest>>
        /\ \A p \in Pages : p # Page[c] => pageEpoch'[p] = pageEpoch[p]
        /\ pageEpoch'[Page[c]] = e /\ Page[c] \in Pages
        /\ exposed' = exposed \cup LatePage(w)
    BY <1>t, <1>1, <1>2 DEF StorePage, tracker, bits, PageTypes, BoundaryInv, MirrorType
  <1>4. /\ \A v \in Writers : v # w => cpu'[v] = cpu[v]
        /\ cpu'[w].at = "range" /\ cpu'[w].cell = c /\ cpu'[w].epoch = e
    BY <1>0, <1>1, <1>2, LabelMoves DEF Becomes
  <1>5. \A v \in Writers : /\ Flying(v)' <=> Flying(v)
                           /\ cpu'[v].cell = cpu[v].cell /\ cpu'[v].epoch = cpu[v].epoch
                           /\ At(v, "journal")' <=> At(v, "journal")
                           /\ v # w => (At(v, "page")' <=> At(v, "page"))
    BY <1>0, <1>1, <1>2, <1>4 DEF Flying, At
  <1>6. EpochsBounded'
    BY <1>2, <1>3 DEF PublishInv, EpochsBounded
  <1>7. EpochsUnique'
    BY <1>3, <1>5 DEF PublishInv, EpochsUnique
  <1>8. MarksInv' /\ SlotsInv' /\ NewestNamed'
    <2>1. MarksInv' /\ SlotsInv'
      BY <1>3, <1>5 DEF PublishInv, MarksInv, SlotsInv
    <2>2. \A i : InSlot(i)' = InSlot(i) /\ \A v \in InSlot(i) : cpu'[v].epoch = cpu[v].epoch
      BY <1>5 DEF InSlot
    <2> QED
      BY <1>3, <2>1, <2>2 DEF PublishInv, NewestNamed
  <1>9. EntriesCovered' /\ LookupInv' /\ LevelInv'
    BY <1>3, <1>5 DEF PublishInv, EntriesCovered, LookupInv, LevelInv, OwnWrite, Entry
  <1>10. PagesShow'
    <2>1. ASSUME NEW b \in Nat, PageShows(b), b \in Limits PROVE PageShows(b)'
      <3> SUFFICES ASSUME NEW d \in Cells \ exposed', newest[d] # None, newest[d] > b, ~(pageEpoch'[Page[d]] > b)
                   PROVE \E v \in Writers : At(v, "page")' /\ cpu'[v].cell = d /\ cpu'[v].epoch = newest[d]
        BY <1>3 DEF PageShows
      <3>1. Page[d] # Page[c]
        <4>1. SUFFICES ASSUME Page[d] = Page[c] PROVE FALSE
          OBVIOUS
        <4>2. e <= b
          BY <1>3, <4>1
        <4>3. d \in LatePage(w)
          BY <1>1, <1>2, <2>1, <4>1, <4>2 DEF LatePage
        <4> QED
          BY <1>3, <4>3
      <3>2. ~(pageEpoch[Page[d]] > b) /\ d \in Cells \ exposed
        BY <1>t, <1>3, <3>1 DEF PageTypes
      <3>3. PICK v \in Writers : At(v, "page") /\ cpu[v].cell = d /\ cpu[v].epoch = newest[d]
        BY <2>1, <3>2 DEF PageShows
      <3>4. v # w
        BY <1>1, <3>1, <3>3
      <3> QED
        BY <1>5, <3>3, <3>4
    <2>2. synced \in Limits /\ (gpu.at = "check" \/ gpu.at \in Ingesting => gpu.through \in Limits)
      BY DEF Limits
    <2> QED
      BY <1>t, <1>3, <2>1, <2>2 DEF PublishInv, PagesShow, EpochTypes
  <1>11. PagesCovered'
    <2> SUFFICES ASSUME NEW p \in Pages
                 PROVE  \/ pageEpoch'[p] <= synced \/ OwnWrite
                        \/ \E d \in Cells : Page[d] = p /\ (newest[d] = None \/ newest[d] >= pageEpoch'[p])
      BY <1>3 DEF PagesCovered, OwnWrite
    <2>1. newest[c] = None \/ newest[c] >= e
      BY <1>0, <1>1, <1>2 DEF PublishInv, EpochsUnique
    <2> QED
      BY <1>3, <2>1 DEF PublishInv, PagesCovered
  <1> QED
    BY <1>6, <1>7, <1>8, <1>9, <1>10, <1>11 DEF PublishInv

\* The journal's range: a slot that is shared, or that a newer store has,
\* exposes the cells that share it.
LEMMA RangePublish ==
  ASSUME BoundaryInv, PublishInv, NEW w \in Writers, StoreRange(w)
  PROVE  PublishInv'
  <1>0. Typed /\ MirrorTypes /\ At(w, "range") /\ Flying(w) /\ cpu' = [cpu EXCEPT ![w].at = "journal"]
    BY TypesHold DEF Typed, BoundaryInv, MirrorType, StoreRange, Flying, At, Goto
  <1>t. EpochTypes /\ CellTypes /\ PageTypes /\ JournalTypes
    BY <1>0 DEF MirrorTypes
  <1>1. PICK c \in Cells : c = cpu[w].cell
    BY <1>0, CellTyped DEF At
  <1>2. PICK e \in Nat : e = cpu[w].epoch /\ e <= epoch
    BY <1>0, <1>t DEF BoundaryInv, WriterShape, EpochTypes
  <1>3. /\ UNCHANGED <<epoch, pageEpoch, dirty, synced, gpu, newest>>
        /\ DOMAIN journal' = DOMAIN journal
        /\ \A i \in DOMAIN journal : journal'[i].epoch = journal[i].epoch
        /\ \A i \in DOMAIN journal : i # Index(e) => journal'[i].cell = journal[i].cell
        /\ journal'[Index(e)].cell = c /\ Index(e) \in DOMAIN journal
        /\ exposed' = exposed \cup LappedSlot(w)
    <2>1. journal' = [journal EXCEPT ![Index(e)] = [journal[Index(e)] EXCEPT !.cell = c]]
      BY <1>1, <1>2 DEF StoreRange
    <2>2. Index(e) \in DOMAIN journal /\ journal \in [0..(Capacity - 1) -> [epoch : Nat, cell : Cells \cup {None}]]
      BY <1>t DEF JournalTypes, BoundaryInv, MirrorType
    <2> QED
      BY <2>1, <2>2 DEF StoreRange, tracker, bits
  <1>4. /\ \A v \in Writers : v # w => cpu'[v] = cpu[v]
        /\ cpu'[w].at = "journal" /\ cpu'[w].cell = c /\ cpu'[w].epoch = e
    BY <1>0, <1>1, <1>2, LabelMoves DEF Becomes
  <1>5. \A v \in Writers : /\ Flying(v)' <=> Flying(v)
                           /\ cpu'[v].cell = cpu[v].cell /\ cpu'[v].epoch = cpu[v].epoch
                           /\ At(v, "page")' <=> At(v, "page")
                           /\ v # w => (At(v, "journal")' <=> At(v, "journal"))
    BY <1>0, <1>1, <1>2, <1>4 DEF Flying, At
  <1>6. EpochsBounded' /\ EpochsUnique' /\ MarksInv'
    BY <1>3, <1>5 DEF PublishInv, EpochsBounded, EpochsUnique, MarksInv
  <1>7. PagesShow' /\ PagesCovered'
    <2>1. ASSUME NEW b, PageShows(b) PROVE PageShows(b)'
      BY <1>3, <1>5, <2>1 DEF PageShows
    <2> QED
      BY <1>3, <2>1 DEF PublishInv, PagesShow, PagesCovered, OwnWrite
  <1>8. LookupInv' /\ LevelInv'
    <2>1. Entry'.epoch = Entry.epoch
      BY <1>3, <1>t DEF Entry, EpochTypes, JournalTypes
    <2> QED
      BY <1>3, <1>5, <2>1 DEF PublishInv, LookupInv, LevelInv, OwnWrite
  <1>12. /\ \A v \in Writers : v # w /\ At(v, "journal") /\ Index(cpu[v].epoch) = Index(e) => {cpu[v].cell, c} \subseteq exposed'
         /\ journal[Index(e)].epoch > e => c \in exposed'
    <2>1. ASSUME NEW v \in Writers, At(v, "journal"), Index(cpu[v].epoch) = Index(e)
          PROVE  {cpu[v].cell, c} \subseteq LappedSlot(w)
      <3>1. v \in InSlot(Index(e))
        BY <2>1 DEF InSlot
      <3> QED
        BY <1>1, <1>2, <3>1 DEF LappedSlot
    <2>2. journal[Index(e)].epoch > e => c \in LappedSlot(w)
      BY <1>1, <1>2 DEF LappedSlot
    <2> QED
      BY <1>3, <2>1, <2>2
  <1>9. SlotsInv'
    <2>1. \A i \in DOMAIN journal' : journal'[i].epoch = 0 \/ Index(journal'[i].epoch) = i
      BY <1>3 DEF PublishInv, SlotsInv
    <2>2. \A v \in Writers, i \in DOMAIN journal' : Flying(v)' => journal'[i].epoch # cpu'[v].epoch
      BY <1>3, <1>5 DEF PublishInv, SlotsInv
    <2>3. ASSUME NEW v \in Writers, At(v, "journal")'
          PROVE  LET slot == journal'[Index(cpu'[v].epoch)] IN
                 /\ slot.cell = cpu'[v].cell \/ {slot.cell, cpu'[v].cell} \subseteq exposed'
                 /\ slot.epoch > cpu'[v].epoch => slot.cell \in exposed'
      <3>1. CASE v = w
        BY <1>3, <1>4, <1>12, <3>1
      <3>2. CASE v # w
        <4>1. At(v, "journal") /\ cpu'[v] = cpu[v] /\ Index(cpu[v].epoch) \in DOMAIN journal
          BY <1>t, <1>4, <1>5, <2>3, <3>2 DEF EpochTypes, JournalTypes
        <4>2. CASE Index(cpu[v].epoch) = Index(e)
          BY <1>3, <1>12, <3>2, <4>1, <4>2
        <4>3. CASE Index(cpu[v].epoch) # Index(e)
          BY <1>3, <4>1, <4>3 DEF PublishInv, SlotsInv
        <4> QED
          BY <4>2, <4>3
      <3> QED
        BY <3>1, <3>2
    <2>4. ASSUME NEW u \in Writers, NEW v \in Writers, u # v, At(u, "journal")', At(v, "journal")',
                 Index(cpu'[u].epoch) = Index(cpu'[v].epoch)
          PROVE  {journal'[Index(cpu'[v].epoch)].cell, cpu'[u].cell, cpu'[v].cell} \subseteq exposed'
      <3>0. /\ cpu'[u].epoch = cpu[u].epoch /\ cpu'[u].cell = cpu[u].cell /\ (u # w => At(u, "journal"))
            /\ cpu'[v].epoch = cpu[v].epoch /\ cpu'[v].cell = cpu[v].cell /\ (v # w => At(v, "journal"))
            /\ Index(cpu[v].epoch) \in DOMAIN journal
        BY <1>t, <1>5, <2>4 DEF EpochTypes, JournalTypes
      <3>1. CASE Index(cpu[v].epoch) = Index(e)
        <4>1. (u # w => {cpu[u].cell, c} \subseteq exposed') /\ (v # w => {cpu[v].cell, c} \subseteq exposed')
          BY <1>12, <2>4, <3>0, <3>1
        <4>2. u # w \/ v # w
          BY <2>4
        <4> QED
          BY <1>1, <1>3, <3>0, <3>1, <4>1, <4>2
      <3>2. CASE Index(cpu[v].epoch) # Index(e)
        <4>1. u # w /\ v # w
          BY <1>2, <2>4, <3>0, <3>2
        <4>2. {journal[Index(cpu[v].epoch)].cell, cpu[u].cell, cpu[v].cell} \subseteq exposed
          BY <2>4, <3>0, <4>1 DEF PublishInv, SlotsInv
        <4> QED
          BY <1>3, <3>0, <3>2, <4>2
      <3> QED
        BY <3>1, <3>2
    <2> QED
      BY <2>1, <2>2, <2>3, <2>4 DEF SlotsInv
  <1>10. NewestNamed'
    <2> SUFFICES ASSUME NEW d \in Cells \ exposed', newest[d] # None, newest[d] > 0,
                        journal'[Index(newest[d])].epoch = newest[d]
                 PROVE  \/ journal'[Index(newest[d])].cell = d
                        \/ \E v \in InSlot(Index(newest[d]))' : cpu'[v].epoch # newest[d]
      BY <1>3 DEF NewestNamed
    <2>1. PICK n \in Nat : n = newest[d] /\ Index(n) \in DOMAIN journal /\ d \notin exposed
      BY <1>t, <1>3 DEF CellTypes, JournalTypes
    <2>2. CASE Index(n) = Index(e)
      <3>1. w \in InSlot(Index(n))'
        BY <1>4, <2>2 DEF InSlot, At
      <3>2. e # n
        BY <1>0, <1>2, <1>3, <2>1 DEF PublishInv, SlotsInv
      <3> QED
        BY <1>3, <1>4, <2>1, <3>1, <3>2
    <2>3. CASE Index(n) # Index(e)
      <3>1. \A v \in InSlot(Index(n)) : v \in InSlot(Index(n))' /\ cpu'[v].epoch = cpu[v].epoch
        BY <1>0, <1>4, <1>5 DEF InSlot, At
      <3> QED
        BY <1>3, <2>1, <2>3, <3>1 DEF PublishInv, NewestNamed
    <2> QED
      BY <2>2, <2>3
  <1>11. EntriesCovered'
    <2> SUFFICES ASSUME NEW i \in DOMAIN journal, NEW d \in Cells \ exposed', journal'[i].cell = d
                 PROVE \/ newest[d] = None \/ newest[d] >= journal[i].epoch
                       \/ journal[i].epoch <= synced
                       \/ OwnWrite /\ journal[i].epoch = gpu.ignored
      BY <1>3 DEF EntriesCovered, OwnWrite
    <2>1. CASE i = Index(e)
      <3>1. d = c
        BY <1>3, <2>1
      <3>2. journal[i].epoch <= e /\ journal[i].epoch \in Nat
        BY <1>t, <1>12, <2>1, <3>1 DEF JournalTypes
      <3>3. newest[c] = None \/ newest[c] >= e
        BY <1>0, <1>1, <1>2 DEF PublishInv, EpochsUnique
      <3> QED
        BY <1>t, <3>1, <3>2, <3>3 DEF CellTypes
    <2>2. CASE i # Index(e)
      BY <1>3, <2>2 DEF PublishInv, EntriesCovered
    <2> QED
      BY <2>1, <2>2
  <1> QED
    BY <1>6, <1>7, <1>8, <1>9, <1>10, <1>11 DEF PublishInv

\* The journal's epoch: the entry is complete, and it is its own.
LEMMA FinishPublish ==
  ASSUME BoundaryInv, PublishInv, NEW w \in Writers, StoreFinish(w)
  PROVE  PublishInv'
  <1>0. Typed /\ MirrorTypes /\ At(w, "journal") /\ Flying(w) /\ cpu' = [cpu EXCEPT ![w] = IdleWriter] /\ ~window
    BY TypesHold, StrictIsOutside DEF Typed, BoundaryInv, MirrorType, StoreFinish, Flying, At
  <1>t. EpochTypes /\ CellTypes /\ PageTypes /\ JournalTypes
    BY <1>0 DEF MirrorTypes
  <1>1. PICK c \in Cells : c = cpu[w].cell
    BY <1>0, CellTyped DEF At
  <1>2. PICK e \in Nat : e = cpu[w].epoch /\ e <= epoch
    BY <1>0, <1>t DEF BoundaryInv, WriterShape, EpochTypes
  <1>3. /\ UNCHANGED <<epoch, pageEpoch, dirty, synced, gpu, newest, exposed>>
        /\ DOMAIN journal' = DOMAIN journal
        /\ \A i \in DOMAIN journal : journal'[i].cell = journal[i].cell
        /\ \A i \in DOMAIN journal : i # Index(e) => journal'[i].epoch = journal[i].epoch
        /\ journal'[Index(e)].epoch = e /\ Index(e) \in DOMAIN journal
    <2>1. journal' = [journal EXCEPT ![Index(e)] = [journal[Index(e)] EXCEPT !.epoch = e]]
      BY <1>1, <1>2 DEF StoreFinish
    <2>2. Index(e) \in DOMAIN journal /\ journal \in [0..(Capacity - 1) -> [epoch : Nat, cell : Cells \cup {None}]]
      BY <1>t DEF JournalTypes, BoundaryInv, MirrorType
    <2> QED
      BY <2>1, <2>2 DEF StoreFinish, tracker, bits, ghosts
  <1>4. (\A v \in Writers : v # w => cpu'[v] = cpu[v]) /\ cpu'[w].at = "idle"
    BY <1>0, IdleMoves DEF Becomes
  <1>5. \A v \in Writers : /\ Flying(v)' => Flying(v) /\ v # w
                           /\ At(v, "page") => v # w /\ At(v, "page")'
                           /\ At(v, "journal")' => v # w /\ At(v, "journal")
    BY <1>0, <1>4 DEF Flying, At
  <1>6. \A d \in Cells \ exposed : d = c \/ journal[Index(e)].cell = d => journal[Index(e)].cell = d /\ d = c
    BY <1>0, <1>1, <1>2 DEF PublishInv, SlotsInv
  <1>7. EpochsBounded' /\ EpochsUnique' /\ MarksInv'
    <2>1. EpochsBounded' /\ MarksInv'
      BY <1>2, <1>3 DEF PublishInv, EpochsBounded, MarksInv
    <2>2. EpochsUnique'
      BY <1>3, <1>4, <1>5 DEF PublishInv, EpochsUnique
    <2> QED
      BY <2>1, <2>2
  <1>8. PagesShow' /\ PagesCovered'
    <2>1. ASSUME NEW b, PageShows(b) PROVE PageShows(b)'
      BY <1>3, <1>4, <1>5, <2>1 DEF PageShows
    <2> QED
      BY <1>3, <2>1 DEF PublishInv, PagesShow, PagesCovered, OwnWrite
  <1>9. LookupInv'
    <2>1. gpu.at \in {"range", "after"} => e # gpu.next
      BY <1>0, <1>2 DEF PublishInv, LookupInv
    <2>2. gpu.at \in {"range", "after"} /\ Entry'.epoch = gpu.next => Entry.epoch = gpu.next
      BY <1>t, <1>3, <2>1 DEF Entry, EpochTypes, JournalTypes
    <2> QED
      BY <1>3, <1>4, <1>5, <2>2 DEF PublishInv, LookupInv
  <1>10. LevelInv'
    <2>1. ~InWindow
      BY <1>0 DEF BoundaryInv, WindowShut
    <2> QED
      BY <1>3, <2>1 DEF LevelInv, PublishInv, OwnWrite, InWindow, Syncing, Ingesting
  <1>11. SlotsInv'
    <2>1. \A i \in DOMAIN journal' : journal'[i].epoch = 0 \/ Index(journal'[i].epoch) = i
      BY <1>3 DEF PublishInv, SlotsInv
    <2>2. ASSUME NEW v \in Writers, NEW i \in DOMAIN journal', Flying(v)' PROVE journal'[i].epoch # cpu'[v].epoch
      <3>1. Flying(v) /\ v # w /\ cpu'[v] = cpu[v] /\ cpu[v].epoch # e
        BY <1>0, <1>2, <1>4, <1>5, <2>2 DEF PublishInv, EpochsUnique
      <3> QED
        BY <1>3, <3>1 DEF PublishInv, SlotsInv
    <2>3. ASSUME NEW v \in Writers, At(v, "journal")'
          PROVE  LET slot == journal'[Index(cpu'[v].epoch)] IN
                 /\ slot.cell = cpu'[v].cell \/ {slot.cell, cpu'[v].cell} \subseteq exposed'
                 /\ slot.epoch > cpu'[v].epoch => slot.cell \in exposed'
      <3>1. v # w /\ At(v, "journal") /\ cpu'[v] = cpu[v] /\ Index(cpu[v].epoch) \in DOMAIN journal
        BY <1>t, <1>4, <1>5, <2>3 DEF EpochTypes, JournalTypes
      <3>2. CASE Index(cpu[v].epoch) = Index(e)
        <4>1. {journal[Index(cpu[v].epoch)].cell, cpu[v].cell} \subseteq exposed
          BY <1>0, <1>2, <3>1, <3>2 DEF PublishInv, SlotsInv
        <4> QED
          BY <1>3, <3>1, <4>1
      <3>3. CASE Index(cpu[v].epoch) # Index(e)
        BY <1>3, <3>1, <3>3 DEF PublishInv, SlotsInv
      <3> QED
        BY <3>2, <3>3
    <2>4. ASSUME NEW u \in Writers, NEW v \in Writers, u # v, At(u, "journal")', At(v, "journal")',
                 Index(cpu'[u].epoch) = Index(cpu'[v].epoch)
          PROVE  {journal'[Index(cpu'[v].epoch)].cell, cpu'[u].cell, cpu'[v].cell} \subseteq exposed'
      <3>1. /\ At(u, "journal") /\ cpu'[u] = cpu[u] /\ At(v, "journal") /\ cpu'[v] = cpu[v]
            /\ Index(cpu[v].epoch) \in DOMAIN journal
        BY <1>t, <1>4, <1>5, <2>4 DEF EpochTypes, JournalTypes
      <3> QED
        BY <1>3, <2>4, <3>1 DEF PublishInv, SlotsInv
    <2> QED
      BY <2>1, <2>2, <2>3, <2>4 DEF SlotsInv
  <1>12. NewestNamed'
    <2> SUFFICES ASSUME NEW d \in Cells \ exposed, newest[d] # None, newest[d] > 0,
                        journal'[Index(newest[d])].epoch = newest[d]
                 PROVE  \/ journal'[Index(newest[d])].cell = d
                        \/ \E v \in InSlot(Index(newest[d]))' : cpu'[v].epoch # newest[d]
      BY <1>3 DEF NewestNamed
    <2>1. PICK n \in Nat : n = newest[d] /\ Index(n) \in DOMAIN journal
      BY <1>t DEF CellTypes, JournalTypes
    <2>2. CASE Index(n) = Index(e)
      <3>1. n = e
        BY <1>3, <2>1, <2>2
      <3>2. c = d
        BY <1>0, <1>1, <1>2, <2>1, <3>1 DEF PublishInv, EpochsUnique
      <3> QED
        BY <1>3, <1>6, <2>1, <2>2, <3>2
    <2>3. CASE Index(n) # Index(e)
      <3>1. \A v \in InSlot(Index(n)) : v \in InSlot(Index(n))' /\ cpu'[v].epoch = cpu[v].epoch
        BY <1>2, <1>4, <2>3 DEF InSlot, At
      <3> QED
        BY <1>3, <2>1, <2>3, <3>1 DEF PublishInv, NewestNamed
    <2> QED
      BY <2>2, <2>3
  <1>13. EntriesCovered'
    <2> SUFFICES ASSUME NEW i \in DOMAIN journal, NEW d \in Cells \ exposed, journal[i].cell = d
                 PROVE \/ newest[d] = None \/ newest[d] >= journal'[i].epoch
                       \/ journal'[i].epoch <= synced
                       \/ OwnWrite /\ journal'[i].epoch = gpu.ignored
      BY <1>3 DEF EntriesCovered, OwnWrite
    <2>1. CASE i = Index(e)
      <3>1. newest[c] = None \/ newest[c] >= e
        BY <1>0, <1>1, <1>2 DEF PublishInv, EpochsUnique
      <3> QED
        BY <1>3, <1>6, <2>1, <3>1
    <2>2. CASE i # Index(e)
      BY <1>3, <2>2 DEF PublishInv, EntriesCovered
    <2> QED
      BY <2>1, <2>2
  <1> QED
    BY <1>7, <1>8, <1>9, <1>10, <1>11, <1>12, <1>13 DEF PublishInv

\* A native store's mark: its cell awaits collection on a marked page.
LEMMA MarkPublish ==
  ASSUME BoundaryInv, PublishInv, NEW w \in Writers, NativeMark(w)
  PROVE  PublishInv'
  <1>0. Typed /\ MirrorTypes /\ At(w, "mark") /\ ~Flying(w)
    BY TypesHold DEF Typed, BoundaryInv, MirrorType, NativeMark, Flying, At
  <1>t. EpochTypes /\ CellTypes /\ PageTypes /\ JournalTypes
    BY <1>0 DEF MirrorTypes
  <1>1. PICK c \in Cells : c = cpu[w].cell
    BY <1>0, CellTyped DEF At
  <1>3. /\ UNCHANGED <<epoch, pageEpoch, journal, synced, gpu, exposed>> /\ dirty' = dirty \cup {Page[c]}
        /\ newest'[c] = None /\ \A d \in Cells : d # c => newest'[d] = newest[d]
    BY <1>1 DEF NativeMark, tracker, BoundaryInv, MirrorType
  <1>4. (\A v \in Writers : v # w => cpu'[v] = cpu[v]) /\ cpu'[w].at \in {"idle", "summary"}
    <2>1. cpu' = [cpu EXCEPT ![w].at = "summary"] \/ cpu' = [cpu EXCEPT ![w] = IdleWriter]
      BY DEF NativeMark, Goto
    <2> QED
      BY <1>0, <2>1, IdleMoves, LabelMoves DEF Becomes
  <1>5. \A v \in Writers : /\ Flying(v)' => Flying(v) /\ v # w
                           /\ At(v, "page") => v # w /\ At(v, "page")'
                           /\ At(v, "journal")' => v # w /\ At(v, "journal")
    BY <1>0, <1>4 DEF Flying, At
  <1>6. \A d \in Cells : newest'[d] # None => newest'[d] = newest[d]
    BY <1>3
  <1>7. EpochsBounded'
    BY <1>3, <1>6 DEF PublishInv, EpochsBounded
  <1>8. EpochsUnique'
    <2>1. \A v \in Writers : Flying(v) => cpu[v].cell \in Cells /\ cpu[v].epoch # None
      BY <1>t, CellTyped DEF Flying, At, EpochTypes, CellTypes
    <2> QED
      BY <1>3, <1>4, <1>5, <1>6, <2>1 DEF PublishInv, EpochsUnique
  <1>9. MarksInv'
    <2>1. \A d \in Cells : newest'[d] = None => Page[d] \in dirty'
      BY <1>3 DEF PublishInv, MarksInv
    <2>2. \A p \in dirty' : \E d \in Cells : Page[d] = p /\ newest'[d] = None
      BY <1>3 DEF PublishInv, MarksInv
    <2> QED
      BY <2>1, <2>2 DEF MarksInv
  <1>10. SlotsInv' /\ NewestNamed'
    <2>1. SlotsInv'
      BY <1>3, <1>4, <1>5 DEF PublishInv, SlotsInv
    <2>2. \A i : \A v \in InSlot(i) : v \in InSlot(i)' /\ cpu'[v].epoch = cpu[v].epoch
      BY <1>0, <1>4 DEF InSlot, At
    <2>3. NewestNamed'
      BY <1>3, <1>6, <2>2 DEF PublishInv, NewestNamed
    <2> QED
      BY <2>1, <2>3
  <1>11. EntriesCovered'
    BY <1>3, <1>6 DEF PublishInv, EntriesCovered, OwnWrite
  <1>12. PagesShow'
    <2>1. ASSUME NEW b, PageShows(b) PROVE PageShows(b)'
      BY <1>3, <1>4, <1>5, <1>6, <2>1 DEF PageShows
    <2> QED
      BY <1>3, <2>1 DEF PublishInv, PagesShow
  <1>13. PagesCovered'
    BY <1>3, <1>6 DEF PublishInv, PagesCovered, OwnWrite
  <1>14. LookupInv' /\ LevelInv'
    BY <1>3, <1>4, <1>5, <1>6 DEF PublishInv, LookupInv, LevelInv, OwnWrite, Entry
  <1> QED
    BY <1>7, <1>8, <1>9, <1>10, <1>11, <1>12, <1>13, <1>14 DEF PublishInv

LEMMA StorePublish ==
  ASSUME BoundaryInv, PublishInv, NEW w \in Writers, Store(w)
  PROVE  PublishInv'
  BY StartPublish, EpochPublish, PagePublish, RangePublish, FinishPublish, MarkPublish DEF Store

-----------------------------------------------------------------------------
(***************************************************************************)
(* The publication invariant: the steps of the GPU thread.                 *)
(***************************************************************************)

LEMMA PublishedSame ==
  ASSUME PublishInv, UNCHANGED <<epoch, pageEpoch, journal, dirty, newest, cpu>>, exposed \subseteq exposed'
  PROVE  /\ EpochsBounded' /\ EpochsUnique' /\ MarksInv' /\ SlotsInv' /\ NewestNamed'
         /\ \A e : PageShows(e) => PageShows(e)'
  <1>1. EpochsBounded' /\ EpochsUnique' /\ MarksInv'
    BY DEF PublishInv, EpochsBounded, EpochsUnique, MarksInv, Flying
  <1>2. SlotsInv' /\ NewestNamed'
    <2>1. SlotsInv'
      BY DEF PublishInv, SlotsInv, At, Flying
    <2>2. \A s : InSlot(s)' = InSlot(s)
      BY DEF InSlot, At
    <2>3. NewestNamed'
      BY <2>2 DEF PublishInv, NewestNamed
    <2> QED
      BY <2>1, <2>3
  <1>3. ASSUME NEW e, PageShows(e) PROVE PageShows(e)'
    BY <1>3 DEF PageShows, At
  <1> QED
    BY <1>1, <1>2, <1>3

\* Steps outside an ingestion.
LEMMA OpPublish ==
  ASSUME PublishInv, UNCHANGED <<epoch, pageEpoch, journal, dirty, newest, cpu, synced>>, exposed \subseteq exposed', ~OwnWrite,
         gpu'.at \notin {"check"} \cup Ingesting, gpu'.at \in {"prepare", "write"} => synced = epoch
  PROVE  PublishInv'
  <1>1. /\ EpochsBounded' /\ EpochsUnique' /\ MarksInv' /\ SlotsInv' /\ NewestNamed'
        /\ \A e : PageShows(e) => PageShows(e)'
    BY PublishedSame
  <1>2. EntriesCovered'
    BY DEF PublishInv, EntriesCovered
  <1>3. PagesShow' /\ PagesCovered'
    BY <1>1 DEF PublishInv, PagesShow, PagesCovered
  <1>4. LookupInv' /\ LevelInv'
    BY DEF LookupInv, LevelInv, OwnWrite, Ingesting
  <1> QED
    BY <1>1, <1>2, <1>3, <1>4 DEF PublishInv

\* A collection gives the marked pages an epoch above every other.
LEMMA CollectPublish ==
  ASSUME BoundaryInv, PublishInv, Snapshot \/ Collect
  PROVE  PublishInv'
  <1>0. MirrorTypes /\ UNCHANGED <<journal, cpu, synced>> /\ Collected /\ exposed \subseteq exposed'
    BY TypesHold DEF BoundaryInv, Snapshot, Collect, tracker
  <1>t. EpochTypes /\ CellTypes /\ PageTypes /\ JournalTypes
    BY <1>0 DEF MirrorTypes
  <1>1. /\ gpu.at \in {"idle", "collect"} /\ gpu'.at \in {"idle", "wait"}
        /\ ~OwnWrite /\ ~OwnWrite'
    <2>1. gpu.at \in {"idle", "collect"} /\ gpu'.at \in {"idle", "wait"}
      BY GotoMoves DEF Snapshot, Collect, GpuAt, Moves, GpuBecomes, BoundaryInv, MirrorType
    <2> QED
      BY <2>1 DEF OwnWrite, Ingesting
  <1>2. CASE Marked = {}
    <2>1. UNCHANGED <<epoch, pageEpoch, journal, dirty, newest, cpu, synced>>
      BY <1>0, <1>2 DEF Collected
    <2> QED
      BY <1>0, <1>1, <2>1, OpPublish DEF Ingesting
  <1>3. CASE Marked # {}
    <2>1. PICK e \in Nat : e = epoch + 1
      BY <1>t DEF EpochTypes
    <2>2. /\ epoch' = e /\ dirty' = dirty \ Marked
          /\ \A c \in Cells : newest[c] = None /\ Page[c] \in Marked => newest'[c] = e
          /\ \A c \in Cells : newest[c] # None \/ Page[c] \notin Marked => newest'[c] = newest[c]
          /\ \A p \in Pages : p \in Marked => pageEpoch'[p] = e
          /\ \A p \in Pages : p \notin Marked => pageEpoch'[p] = pageEpoch[p]
      BY <1>0, <1>3, <2>1 DEF Collected
    <2>3. \A c \in Cells : newest'[c] # None => newest'[c] \in Nat /\ newest'[c] <= e
      BY <1>t, <2>1, <2>2 DEF CellTypes, EpochTypes, PublishInv, EpochsBounded
    <2>4. \A w \in Writers : Flying(w) => cpu[w].epoch < e /\ cpu[w].cell \in Cells /\ cpu[w].epoch \in Nat
      <3>1. \A w \in Writers : Flying(w) => cpu[w].cell \in Cells
        BY CellTyped DEF Flying, At
      <3> QED
        BY <1>t, <2>1, <3>1 DEF BoundaryInv, WriterShape, EpochTypes
    <2>5. EpochsBounded' /\ MarksInv'
      <3>1. EpochsBounded'
        BY <1>0, <1>t, <2>1, <2>2, <2>3 DEF PublishInv, EpochsBounded, EpochTypes, PageTypes, JournalTypes
      <3>2. \A c \in Cells : newest'[c] = None => Page[c] \in dirty'
        BY <1>t, <2>1, <2>2 DEF PublishInv, MarksInv, CellTypes
      <3>3. \A p \in dirty' : \E c \in Cells : Page[c] = p /\ newest'[c] = None
        BY <2>2 DEF PublishInv, MarksInv
      <3> QED
        BY <3>1, <3>2, <3>3 DEF MarksInv
    <2>6. EpochsUnique'
      <3>1. \A w \in Writers : Flying(w)' <=> Flying(w)
        BY <1>0 DEF Flying
      <3> QED
        BY <1>0, <1>t, <2>2, <2>3, <2>4, <3>1 DEF PublishInv, EpochsUnique, CellTypes
    <2>7. SlotsInv'
      BY <1>0 DEF PublishInv, SlotsInv, At, Flying
    <2>8. NewestNamed'
      <3> SUFFICES ASSUME NEW c \in Cells \ exposed', newest'[c] # None, newest'[c] > 0,
                          journal[Index(newest'[c])].epoch = newest'[c]
                   PROVE  \/ journal[Index(newest'[c])].cell = c
                          \/ \E w \in InSlot(Index(newest[c])) : cpu[w].epoch # newest[c] /\ newest'[c] = newest[c]
        BY <1>0 DEF NewestNamed, InSlot, At
      <3>1. newest'[c] # e
        BY <1>t, <2>1 DEF PublishInv, EpochsBounded, JournalTypes, EpochTypes
      <3>2. newest'[c] = newest[c] /\ newest[c] # None /\ c \notin exposed
        BY <1>0, <2>2, <3>1
      <3> QED
        BY <3>2 DEF PublishInv, NewestNamed
    <2>9. EntriesCovered'
      <3> SUFFICES ASSUME NEW i \in DOMAIN journal, NEW c \in Cells \ exposed, journal[i].cell = c
                   PROVE  newest'[c] = None \/ newest'[c] >= journal[i].epoch \/ journal[i].epoch <= synced
        BY <1>0 DEF EntriesCovered
      <3>1. journal[i].epoch <= e
        BY <1>t, <2>1 DEF PublishInv, EpochsBounded, JournalTypes, EpochTypes
      <3> QED
        BY <1>1, <2>2, <3>1 DEF PublishInv, EntriesCovered
    <2>10. PagesShow'
      <3> SUFFICES PageShows(synced)'
        BY <1>1 DEF PagesShow, Ingesting
      <3> SUFFICES ASSUME NEW c \in Cells \ exposed, newest'[c] # None, newest'[c] > synced,
                          ~(pageEpoch'[Page[c]] > synced)
                   PROVE  \E w \in Writers : At(w, "page") /\ cpu[w].cell = c /\ cpu[w].epoch = newest'[c]
        BY <1>0 DEF PageShows, At
      <3>1. e > synced
        BY <1>t, <2>1 DEF EpochTypes, BoundaryInv, BoundaryAhead
      <3>2. Page[c] \notin Marked /\ pageEpoch'[Page[c]] = pageEpoch[Page[c]]
        BY <1>t, <2>2, <3>1 DEF PageTypes
      <3>3. newest[c] # None /\ newest'[c] = newest[c]
        BY <2>2, <3>2
      <3> QED
        BY <3>2, <3>3 DEF PublishInv, PagesShow, PageShows
    <2>11. PagesCovered'
      <3> SUFFICES ASSUME NEW p \in Pages
                   PROVE  \/ pageEpoch'[p] <= synced
                          \/ \E c \in Cells : Page[c] = p /\ (newest'[c] = None \/ newest'[c] >= pageEpoch'[p])
        BY <1>0 DEF PagesCovered
      <3>1. CASE p \in Marked
        <4>1. PICK c \in Cells : Page[c] = p /\ newest[c] = None
          BY <3>1 DEF PublishInv, MarksInv, Marked
        <4> QED
          BY <2>2, <3>1, <4>1
      <3>2. CASE p \notin Marked
        BY <1>1, <2>2, <3>2 DEF PublishInv, PagesCovered
      <3> QED
        BY <3>1, <3>2
    <2>12. LookupInv' /\ LevelInv'
      BY <1>1 DEF LookupInv, LevelInv, Ingesting
    <2> QED
      BY <2>5, <2>6, <2>7, <2>8, <2>9, <2>10, <2>11, <2>12 DEF PublishInv
  <1> QED
    BY <1>2, <1>3

\* The boundary is at or above every store that has its epoch.
LEMMA ReadPublish ==
  ASSUME BoundaryInv, PublishInv, BoundaryRead
  PROVE  PublishInv'
  <1>0. UNCHANGED <<epoch, pageEpoch, journal, dirty, newest, cpu, synced, exposed>> /\ gpu.at = "read" /\ MirrorTypes
    BY TypesHold DEF BoundaryInv, BoundaryRead, coherency, bits, tracker, ghosts, GpuAt
  <1>t. EpochTypes /\ CellTypes
    BY <1>0 DEF MirrorTypes
  <1>1. gpu'.at = "check" /\ gpu'.through = epoch
    BY ReadBecomes DEF GpuBecomes, BoundaryInv, MirrorType
  <1>2. /\ EpochsBounded' /\ EpochsUnique' /\ MarksInv' /\ SlotsInv' /\ NewestNamed'
        /\ \A e : PageShows(e) => PageShows(e)'
    BY <1>0, PublishedSame
  <1>3. ~OwnWrite /\ ~OwnWrite'
    BY <1>0, <1>1 DEF OwnWrite, Ingesting
  <1>4. EntriesCovered' /\ PagesCovered'
    BY <1>0, <1>3 DEF PublishInv, EntriesCovered, PagesCovered
  <1>5. PageShows(epoch)
    BY <1>t DEF PublishInv, EpochsBounded, PageShows, CellTypes, EpochTypes
  <1>6. PagesShow'
    BY <1>0, <1>1, <1>2, <1>5 DEF PublishInv, PagesShow
  <1>7. LookupInv' /\ LevelInv'
    BY <1>0, <1>1, <1>3 DEF LookupInv, LevelInv, Ingesting
  <1> QED
    BY <1>2, <1>4, <1>6, <1>7 DEF PublishInv

LEMMA CheckPublish ==
  ASSUME BoundaryInv, PublishInv, BoundaryCheck
  PROVE  PublishInv'
  <1>0. /\ UNCHANGED <<epoch, pageEpoch, journal, dirty, newest, cpu, synced>> /\ gpu.at = "check"
        /\ exposed \subseteq exposed'
        /\ gpu \in GpuRecord /\ MirrorTypes
    BY TypesHold DEF BoundaryInv, MirrorType, BoundaryCheck, coherency, bits, tracker, ghosts, GpuAt
  <1>t. EpochTypes /\ CellTypes
    BY <1>0 DEF MirrorTypes
  <1>1. ~OwnWrite
    BY <1>0 DEF OwnWrite, Ingesting
  <1>2. CASE writers # 0
    <2>1. gpu'.at = "wait"
      BY <1>0, <1>2, GotoMoves DEF BoundaryCheck, Moves, GpuBecomes
    <2> QED
      BY <1>0, <1>1, <2>1, OpPublish DEF Ingesting
  <1>3. CASE writers = 0
    <2>1. /\ gpu'.at = IngestLabel(gpu.through, gpu.then)
          /\ gpu'.through = gpu.through /\ gpu'.next = synced + 1 /\ gpu'.then = gpu.then /\ gpu'.ignored = 0
      BY <1>0, <1>3, IngestBecomes DEF BoundaryCheck, GpuBecomes
    <2>2. gpu.then \in {"upload", "readback", "prepare"} /\ (gpu.then = "prepare" => gpu.through = epoch)
      BY <1>0 DEF BoundaryInv, GpuShape, PublishInv, LevelInv, Syncing, Ingesting
    <2>3. CASE gpu.through <= synced
      <3>1. gpu'.at = gpu.then
        BY <2>1, <2>3 DEF IngestLabel
      <3>2. gpu.then = "prepare" => synced = epoch
        BY <1>t, <2>2, <2>3 DEF BoundaryInv, BoundaryAhead, EpochTypes
      <3> QED
        BY <1>0, <1>1, <2>2, <3>1, <3>2, OpPublish DEF Ingesting
    <2>4. CASE gpu.through > synced
      <3>1. gpu'.at \in {"pages", "before"}
        BY <1>t, <2>1, <2>4 DEF IngestLabel, EpochTypes
      <3>2. /\ EpochsBounded' /\ EpochsUnique' /\ MarksInv' /\ SlotsInv' /\ NewestNamed'
            /\ \A e : PageShows(e) => PageShows(e)'
        BY <1>0, PublishedSame
      <3>3. ~OwnWrite'
        BY <2>1, <2>2 DEF OwnWrite
      <3>4. EntriesCovered' /\ PagesCovered'
        BY <1>0, <1>1, <3>3 DEF PublishInv, EntriesCovered, PagesCovered
      <3>5. PagesShow'
        BY <1>0, <2>1, <3>2 DEF PublishInv, PagesShow
      <3>6. LookupInv'
        BY <1>0, <1>t, <2>1, <3>1 DEF LookupInv, CellTypes, EpochTypes
      <3>7. LevelInv'
        BY <1>0, <2>1, <2>2, <3>1, <3>3 DEF LevelInv, Ingesting
      <3> QED
        BY <3>2, <3>4, <3>5, <3>6, <3>7 DEF PublishInv
    <2> QED
      BY <1>t, <2>3, <2>4 DEF EpochTypes
  <1> QED
    BY <1>2, <1>3

\* Within an ingestion, before the tracker takes anything in.
LEMMA IngestPublish ==
  ASSUME PublishInv, UNCHANGED <<epoch, pageEpoch, journal, dirty, newest, cpu, synced>>,
         exposed \subseteq exposed',
         gpu.at \in Ingesting, gpu'.at \in Ingesting, gpu'.then = gpu.then, gpu'.through = gpu.through,
         gpu'.ignored = gpu.ignored, LookupInv',
         OwnWrite => gpu'.at # "pages" /\ gpu'.found = gpu.found /\ gpu'.next = gpu.next
  PROVE  PublishInv'
  <1>1. /\ EpochsBounded' /\ EpochsUnique' /\ MarksInv' /\ SlotsInv' /\ NewestNamed'
        /\ \A e : PageShows(e) => PageShows(e)'
    BY PublishedSame
  <1>2. OwnWrite' <=> OwnWrite
    BY DEF OwnWrite
  <1>3. EntriesCovered' /\ PagesCovered'
    BY <1>2 DEF PublishInv, EntriesCovered, PagesCovered
  <1>4. PagesShow'
    BY <1>1 DEF PublishInv, PagesShow
  <1>5. LevelInv'
    BY <1>2 DEF PublishInv, LevelInv, Entry, Ingesting
  <1> QED
    BY <1>1, <1>3, <1>4, <1>5 DEF PublishInv

LEMMA LookupPublish ==
  ASSUME BoundaryInv, PublishInv, JournalBefore \/ JournalRange
  PROVE  PublishInv'
  <1>0. /\ UNCHANGED <<epoch, pageEpoch, journal, dirty, newest, cpu, synced>> /\ exposed \subseteq exposed'
        /\ gpu \in GpuRecord /\ MirrorTypes
    BY TypesHold DEF BoundaryInv, MirrorType, JournalBefore, JournalRange, coherency, bits, tracker, ghosts
  <1>t. EpochTypes /\ CellTypes /\ JournalTypes
    BY <1>0 DEF MirrorTypes
  <1>1. CASE JournalBefore
    <2>1. gpu.at = "before" /\ GpuGoto(IF Entry.epoch = gpu.next THEN "range" ELSE "pages")
      BY <1>1 DEF JournalBefore, GpuAt
    <2>2. /\ gpu'.at = IF Entry.epoch = gpu.next THEN "range" ELSE "pages"
          /\ gpu'.then = gpu.then /\ gpu'.through = gpu.through /\ gpu'.ignored = gpu.ignored
          /\ gpu'.next = gpu.next /\ gpu'.found = gpu.found
      BY <1>0, <2>1, GotoMoves DEF Moves, GpuBecomes
    <2>3. Entry' = Entry
      BY <1>0, <2>2 DEF Entry
    <2>6. Entry.epoch = gpu.next => \A w \in Writers : Flying(w) => cpu[w].epoch # gpu.next
      BY <1>t DEF Entry, PublishInv, SlotsInv, EpochTypes, JournalTypes
    <2>4. LookupInv'
      BY <1>0, <2>1, <2>2, <2>3, <2>6 DEF PublishInv, LookupInv, Ingesting, Flying
    <2>5. OwnWrite => gpu'.at # "pages"
      BY <2>2 DEF PublishInv, LevelInv
    <2> QED
      BY <1>0, <2>1, <2>2, <2>4, <2>5, IngestPublish DEF Ingesting
  <1>2. CASE JournalRange
    <2>1. gpu.at = "range"
      BY <1>2 DEF JournalRange, GpuAt
    <2>2. /\ gpu'.at = "after" /\ gpu'.then = gpu.then /\ gpu'.through = gpu.through
          /\ gpu'.ignored = gpu.ignored /\ gpu'.next = gpu.next
          /\ gpu'.found = IF gpu.next = gpu.ignored THEN gpu.found ELSE gpu.found \cup {Entry.cell}
      BY <1>0, <1>2, RangeBecomes DEF GpuBecomes
    <2>3. ASSUME NEW c \in Cells \ exposed', newest[c] # None, newest[c] > synced, newest[c] = gpu.next,
                 Entry.epoch = gpu.next
          PROVE  c \in gpu'.found
      <3>1. gpu.next # gpu.ignored
        BY <2>1, <2>3 DEF PublishInv, LookupInv, Ingesting
      <3>2. Entry.epoch = newest[c] /\ newest[c] > 0 /\ c \notin exposed
        BY <1>0, <1>t, <2>3 DEF EpochTypes, CellTypes
      <3>3. c \notin LappedRead
        BY <1>2, <2>3 DEF JournalRange
      <3>4. Entry.cell = c
        BY <2>3, <3>2, <3>3 DEF PublishInv, NewestNamed, Entry, LappedRead
      <3> QED
        BY <2>2, <3>1, <3>4
    <2>6. Entry' = Entry
      BY <1>0, <2>2 DEF Entry
    <2>7. gpu.found \subseteq gpu'.found
      BY <2>2
    <2>4. LookupInv'
      BY <1>0, <2>1, <2>2, <2>3, <2>6, <2>7 DEF PublishInv, LookupInv, Ingesting, Flying
    <2>5. OwnWrite => gpu'.found = gpu.found
      BY <2>2 DEF PublishInv, LevelInv
    <2> QED
      BY <1>0, <2>1, <2>2, <2>4, <2>5, IngestPublish DEF Ingesting
  <1> QED
    BY <1>1, <1>2

\* The tracker is level with the boundary when it has taken it in.
LEMMA ApplyPublish ==
  ASSUME BoundaryInv, PublishInv, UNCHANGED <<epoch, pageEpoch, journal, dirty, newest, cpu>>,
         exposed \subseteq exposed',
         gpu.at \in {"after", "pages"}, synced' = gpu.through, gpu'.at = gpu.then
  PROVE  PublishInv'
  <1>0. /\ MirrorTypes /\ gpu.at \in Ingesting /\ gpu.then \in {"upload", "readback", "prepare", "commit"}
    BY TypesHold DEF BoundaryInv, GpuShape, Ingesting, Syncing
  <1>t. EpochTypes /\ CellTypes /\ PageTypes /\ JournalTypes
    BY <1>0 DEF MirrorTypes
  <1>1. synced <= gpu.through
    BY <1>0, <1>t DEF BoundaryInv, GpuShape, EpochTypes
  <1>2. /\ EpochsBounded' /\ EpochsUnique' /\ MarksInv' /\ SlotsInv' /\ NewestNamed'
        /\ \A e : PageShows(e) => PageShows(e)'
    BY PublishedSame
  <1>3. OwnWrite => gpu.through = epoch /\ gpu.ignored = epoch
    BY DEF PublishInv, LevelInv
  <1>4. EntriesCovered'
    <2> SUFFICES ASSUME NEW i \in DOMAIN journal, NEW c \in Cells \ exposed, journal[i].cell = c
                 PROVE  newest[c] = None \/ newest[c] >= journal[i].epoch \/ journal[i].epoch <= gpu.through
      BY DEF EntriesCovered
    <2> QED
      BY <1>t, <1>1, <1>3 DEF PublishInv, EntriesCovered, JournalTypes, EpochTypes
  <1>5. PagesShow'
    BY <1>0, <1>2 DEF PublishInv, PagesShow, Ingesting
  <1>6. PagesCovered'
    <2> SUFFICES ASSUME NEW p \in Pages
                 PROVE  \/ pageEpoch[p] <= gpu.through
                        \/ \E c \in Cells : Page[c] = p /\ (newest[c] = None \/ newest[c] >= pageEpoch[p])
      BY DEF PagesCovered
    <2>1. pageEpoch[p] \in Nat /\ pageEpoch[p] <= epoch
      BY <1>t DEF PageTypes, PublishInv, EpochsBounded
    <2>2. OwnWrite \/ pageEpoch[p] <= synced => pageEpoch[p] <= gpu.through
      BY <1>t, <1>1, <1>3, <2>1 DEF EpochTypes
    <2> QED
      BY <2>2 DEF PublishInv, PagesCovered
  <1>7. LookupInv' /\ LevelInv'
    BY <1>0 DEF PublishInv, LookupInv, LevelInv, OwnWrite, Ingesting
  <1> QED
    BY <1>2, <1>4, <1>5, <1>6, <1>7 DEF PublishInv

LEMMA AfterPublish ==
  ASSUME BoundaryInv, PublishInv, JournalAfter
  PROVE  PublishInv'
  <1>0. /\ UNCHANGED <<epoch, pageEpoch, journal, dirty, newest, cpu, exposed>>
        /\ gpu \in GpuRecord /\ MirrorTypes /\ gpu.at = "after" /\ gpu.then \in {"upload", "readback", "prepare", "commit"}
    BY TypesHold DEF BoundaryInv, MirrorType, GpuShape, Syncing, Ingesting, JournalAfter, coherency, bits, ghosts, GpuAt
  <1>t. EpochTypes /\ CellTypes
    BY <1>0 DEF MirrorTypes
  <1>1. /\ gpu'.at = IF Entry.epoch # gpu.next THEN "pages"
                     ELSE IF gpu.next = gpu.through THEN gpu.then ELSE "before"
        /\ gpu'.then = gpu.then /\ gpu'.through = gpu.through /\ gpu'.ignored = gpu.ignored
        /\ gpu'.next = gpu.next + 1 /\ gpu'.found = gpu.found
    BY <1>0, AfterBecomes DEF GpuBecomes
  <1>2. CASE Entry.epoch = gpu.next /\ gpu.next = gpu.through
    <2>1. synced' = gpu.through /\ gpu'.at = gpu.then
      BY <1>1, <1>2 DEF JournalAfter, Apply
    <2> QED
      BY <1>0, <2>1, ApplyPublish
  <1>3. CASE ~(Entry.epoch = gpu.next /\ gpu.next = gpu.through)
    <2>1. synced' = synced /\ gpu'.at \in {"pages", "before"}
      BY <1>1, <1>3 DEF JournalAfter, tracker
    <2>2. ~OwnWrite
      BY <1>3 DEF PublishInv, LevelInv
    <2>3. LookupInv'
      BY <1>0, <1>t, <1>1, <2>1 DEF PublishInv, LookupInv, CellTypes, EpochTypes, Ingesting
    <2> QED
      BY <1>0, <1>1, <2>1, <2>2, <2>3, IngestPublish DEF Ingesting
  <1> QED
    BY <1>2, <1>3

LEMMA PagesPublish ==
  ASSUME BoundaryInv, PublishInv, IngestPages
  PROVE  PublishInv'
  <1>1. /\ UNCHANGED <<epoch, pageEpoch, journal, dirty, newest, cpu>> /\ gpu.at = "pages"
        /\ synced' = gpu.through /\ exposed \subseteq exposed'
    BY DEF IngestPages, coherency, bits, ghosts, GpuAt, Apply
  <1>2. gpu'.at = gpu.then
    BY GotoMoves DEF BoundaryInv, MirrorType, IngestPages, Moves, GpuBecomes
  <1> QED
    BY <1>1, <1>2, ApplyPublish

\* The readback's own store, in the window: the next epoch, which the journal
\* holds.
LEMMA WritePublish ==
  ASSUME BoundaryInv, PublishInv, WindowWrite
  PROVE  PublishInv'
  <1>0. MirrorTypes /\ gpu \in GpuRecord /\ gpu.at = "write" /\ gpu.cell \in Cells /\ synced = epoch
    BY TypesHold DEF BoundaryInv, MirrorType, GpuShape, InWindow, WindowWrite, GpuAt, PublishInv, LevelInv
  <1>t. EpochTypes /\ CellTypes /\ PageTypes /\ JournalTypes
    BY <1>0 DEF MirrorTypes
  <1>1. \A w \in Writers : ~Flying(w) /\ ~At(w, "page") /\ ~At(w, "journal")
    BY <1>0 DEF BoundaryInv, WindowShut, InWindow, Flying, At
  <1>2. PICK e \in Nat : e = epoch + 1
    BY <1>t DEF EpochTypes
  <1>3. PICK x \in Cells : x = gpu.cell
    BY <1>0
  <1>4. /\ epoch' = e /\ UNCHANGED <<dirty, newest, cpu, synced>> /\ exposed \subseteq exposed'
        /\ pageEpoch'[Page[x]] = e /\ \A p \in Pages : p # Page[x] => pageEpoch'[p] = pageEpoch[p]
        /\ DOMAIN journal' = DOMAIN journal /\ Index(e) \in DOMAIN journal
        /\ journal'[Index(e)].epoch = e /\ journal'[Index(e)].cell = x
        /\ \A i \in DOMAIN journal : i # Index(e) => journal'[i] = journal[i]
    <2>1. Page[x] \in Pages /\ Index(e) \in DOMAIN journal
      BY <1>t DEF PageTypes, JournalTypes
    <2>2. /\ pageEpoch' = [pageEpoch EXCEPT ![Page[x]] = e]
          /\ journal' = [journal EXCEPT ![Index(e)] = [epoch |-> e, cell |-> x]]
      BY <1>2, <1>3 DEF WindowWrite
    <2> QED
      BY <1>2, <2>1, <2>2 DEF WindowWrite, tracker, bits, BoundaryInv, MirrorType
  <1>5. /\ gpu'.at = "before" /\ gpu'.then = "commit" /\ gpu'.through = e /\ gpu'.next = e /\ gpu'.ignored = e
        /\ gpu'.found = {}
    <2>1. Ingest(e, e, "commit") /\ IngestLabel(e, "commit") = "before" /\ synced + 1 = e
      BY <1>0, <1>t, <1>2 DEF WindowWrite, IngestLabel, EpochTypes
    <2> QED
      BY <1>0, <2>1, IngestBecomes DEF GpuBecomes
  <1>6. OwnWrite' /\ Entry' = journal'[Index(e)]
    BY <1>5 DEF OwnWrite, Ingesting, Entry
  <1>7. ~OwnWrite
    BY <1>0 DEF OwnWrite, Ingesting
  <1>8. \A c \in Cells : newest[c] # None => newest[c] \in Nat /\ newest[c] <= synced
    BY <1>0, <1>t DEF CellTypes, PublishInv, EpochsBounded
  <1>9. EpochsBounded'
    BY <1>t, <1>2, <1>4 DEF PublishInv, EpochsBounded, EpochTypes, CellTypes, PageTypes, JournalTypes
  <1>10. EpochsUnique' /\ MarksInv'
    BY <1>1, <1>4 DEF PublishInv, EpochsUnique, MarksInv, Flying
  <1>11. SlotsInv'
    <2>1. \A w \in Writers : ~Flying(w)' /\ ~At(w, "journal")'
      BY <1>1, <1>4 DEF Flying, At
    <2>2. \A i \in DOMAIN journal' : journal'[i].epoch = 0 \/ Index(journal'[i].epoch) = i
      BY <1>4 DEF PublishInv, SlotsInv
    <2> QED
      BY <2>1, <2>2 DEF SlotsInv
  <1>12. NewestNamed'
    <2> SUFFICES ASSUME NEW c \in Cells \ exposed, newest[c] # None, newest[c] > 0,
                        journal'[Index(newest[c])].epoch = newest[c]
                 PROVE  journal'[Index(newest[c])].cell = c
      BY <1>4 DEF NewestNamed
    <2>1. PICK n \in Nat : n = newest[c] /\ n # e /\ Index(n) \in DOMAIN journal
      BY <1>0, <1>t, <1>2, <1>8 DEF EpochTypes, JournalTypes
    <2>2. Index(n) # Index(e)
      BY <1>4, <2>1
    <2>3. InSlot(Index(n)) = {}
      BY <1>1 DEF InSlot
    <2> QED
      BY <1>4, <2>1, <2>2, <2>3 DEF PublishInv, NewestNamed
  <1>13. EntriesCovered'
    BY <1>4, <1>5, <1>6, <1>7 DEF PublishInv, EntriesCovered
  <1>14. PagesShow' /\ PagesCovered'
    <2>1. PageShows(synced)' /\ PageShows(e)'
      BY <1>0, <1>t, <1>2, <1>4, <1>8 DEF PageShows, EpochTypes
    <2> QED
      BY <1>4, <1>5, <1>6, <2>1 DEF PagesShow, PagesCovered
  <1>15. LookupInv'
    BY <1>0, <1>t, <1>2, <1>4, <1>5, <1>8 DEF LookupInv, EpochTypes
  <1>16. LevelInv'
    BY <1>0, <1>2, <1>4, <1>5, <1>6 DEF LevelInv
  <1> QED
    BY <1>9, <1>10, <1>11, <1>12, <1>13, <1>14, <1>15, <1>16 DEF PublishInv

\* The operation's other steps.
LEMMA OtherPublish ==
  ASSUME BoundaryInv, PublishInv,
         \/ BoundaryWait
         \/ \E op \in Ops, cells \in Requests : Request(op, cells)
         \/ \E c \in Cells : UploadCommit(c) \/ DownloadCopy(c)
         \/ Upload \/ PlanReadback \/ DownloadFail \/ WindowOpen \/ Prepare \/ DownloadCommit \/ WindowClose \/ Visible
  PROVE  PublishInv'
  <1>0. gpu \in GpuRecord
    BY DEF BoundaryInv, MirrorType
  <1>1. UNCHANGED <<epoch, pageEpoch, journal, dirty, newest, cpu, synced, exposed>>
    <2>1. UNCHANGED <<coherency, newest, cpu, synced, exposed>>
      BY DEF BoundaryWait, Request, UploadCommit, DownloadCopy, Upload, PlanUpload, UploadCopy, UploadSubmit, UploadFail,
             UploadRefused, Draw, GpuWrite, PlanReadback, DownloadFail, WindowOpen, Prepare, DownloadCommit, WindowClose,
             Visible, tracker, ghosts
    <2> QED
      BY <2>1 DEF coherency, bits
  <1>2. gpu.at \notin {"check"} \cup Ingesting
    BY DEF BoundaryWait, Request, UploadCommit, DownloadCopy, Upload, PlanUpload, UploadCopy, UploadSubmit, UploadFail,
           UploadRefused, Draw, GpuWrite, PlanReadback, DownloadFail, WindowOpen, Prepare, DownloadCommit, WindowClose,
           Visible, GpuAt, Uploaded, Downloaded, Ingesting
  <1>3. \/ gpu'.at \in {"idle", "collect", "read", "stage", "copy", "submit", "download", "open", "close"}
        \/ gpu'.at = "write" /\ gpu.at = "prepare"
    <2>1. CASE BoundaryWait
      BY <1>0, <2>1, GotoMoves DEF BoundaryWait, Moves, GpuBecomes
    <2>2. ASSUME NEW op, NEW cells, Request(op, cells) PROVE gpu'.at = "collect"
      BY <2>2, RequestBecomes DEF GpuBecomes
    <2>3. ASSUME NEW c, UploadCommit(c) \/ DownloadCopy(c) PROVE gpu'.at \in {"copy", "open"}
      BY <1>0, <2>3, TakesBecome DEF GpuBecomes
    <2>4. CASE Return
      BY <2>4, ReturnIdles DEF GpuBecomes
    <2>5. CASE PlanUpload \/ PlanReadback
      BY <1>0, <2>5, PlansBecome DEF GpuBecomes
    <2>6. CASE UploadCopy \/ DownloadCommit \/ Prepare
      BY <1>0, <2>6, GotoMoves DEF UploadCopy, DownloadCommit, Prepare, GpuAt, Moves, GpuBecomes
    <2>7. CASE UploadSubmit \/ WindowClose
      BY <1>0, <2>7, LeavesBecome DEF GpuBecomes
    <2>8. CASE GpuWrite /\ gpu.op = "resolve"
      BY <1>0, <2>8, ResolveBecomes DEF GpuBecomes
    <2>9. CASE WindowOpen
      BY <1>0, <2>9, OpenBecomes DEF GpuBecomes
    <2>10. GpuWrite => Return \/ gpu.op = "resolve"
      BY DEF GpuWrite
    <2>11. (UploadFail => Return) /\ (UploadRefused => Return) /\ (Draw => Return) /\ (DownloadFail => Return) /\ (Visible => Return)
      BY DEF UploadFail, UploadRefused, Draw, DownloadFail, Visible
    <2> QED
      BY <2>1, <2>2, <2>3, <2>4, <2>5, <2>6, <2>7, <2>8, <2>9, <2>10, <2>11 DEF Upload
  <1>4. gpu.at = "prepare" => synced = epoch
    BY DEF PublishInv, LevelInv
  <1>5. ~OwnWrite
    BY <1>2 DEF OwnWrite
  <1> QED
    BY <1>1, <1>3, <1>4, <1>5, OpPublish DEF Ingesting

LEMMA PublishStep ==
  ASSUME BoundaryInv, PublishInv, [Next]_vars
  PROVE  PublishInv'
  <1>1. CASE Gpu
    BY <1>1, CollectPublish, ReadPublish, CheckPublish, LookupPublish, AfterPublish, PagesPublish, WritePublish,
       OtherPublish DEF Gpu, Synchronize, Readback
  <1>2. ASSUME NEW w \in Writers, Store(w) PROVE PublishInv'
    BY <1>2, StorePublish
  <1>3. CASE UNCHANGED vars
    <2>1. UNCHANGED <<epoch, pageEpoch, journal, dirty, newest, synced, gpu, cpu, exposed>>
      BY <1>3 DEF vars, coherency, bits, tracker, ghosts
    <2> QED
      BY <2>1, QuietPublish
  <1> QED
    BY <1>1, <1>2, <1>3 DEF Next

LEMMA PublishInit ==
  ASSUME Init PROVE PublishInv
  <1>0. MirrorTypes
    BY BoundaryInit, TypesHold DEF BoundaryInv
  <1>t. CellTypes /\ PageTypes /\ JournalTypes
    BY <1>0 DEF MirrorTypes
  <1>1. /\ epoch = 0 /\ synced = 0 /\ gpu.at = "idle" /\ dirty = {}
        /\ \A p \in Pages : pageEpoch[p] = 0
        /\ \A c \in Cells : newest[c] = 0
        /\ \A i \in DOMAIN journal : journal[i].epoch = 0
        /\ \A w \in Writers : cpu[w].at = "idle"
    BY DEF Init, IdleGpu, IdleWriter
  <1>2. \A c \in Cells : newest[c] # None
    BY <1>t, <1>1 DEF CellTypes
  <1>3. \A w \in Writers : ~Flying(w) /\ ~At(w, "page") /\ ~At(w, "journal")
    BY <1>1 DEF Flying, At
  <1>4. EpochsBounded /\ EpochsUnique /\ MarksInv
    BY <1>1, <1>2, <1>3 DEF EpochsBounded, EpochsUnique, MarksInv
  <1>5. SlotsInv /\ NewestNamed /\ EntriesCovered
    BY <1>1, <1>3 DEF SlotsInv, NewestNamed, EntriesCovered
  <1>6. PagesShow /\ PagesCovered
    BY <1>t, <1>1, WriterAssumption DEF PagesShow, PageShows, PagesCovered, PageTypes, Ingesting
  <1>7. LookupInv /\ LevelInv
    BY <1>1 DEF LookupInv, LevelInv, OwnWrite, Ingesting
  <1> QED
    BY <1>4, <1>5, <1>6, <1>7 DEF PublishInv

-----------------------------------------------------------------------------
(***************************************************************************)
(* The freshness invariant: the writers' steps.                            *)
(***************************************************************************)

\* Every writer that is storing has its cell among the raced.
AllRaced == gpu.at # "idle" => \A w \in Writers : ~At(w, "idle") => cpu[w].cell \in raced

\* Steps that neither change bytes nor what is pending.
LEMMA QuietFresh ==
  ASSUME FreshInv, UNCHANGED <<synced, cpuDirty, gpuDirty, valid, gpu, fresh, newest>>,
         raced \subseteq raced', AllRaced', exposed \subseteq exposed', Exact' => Exact,
         \A c \in Cells : Pending(c)' <=> Pending(c), gpu \in GpuRecord, valid \subseteq Cells,
         gpu.at \in {"copy", "submit", "open"} \/ InWindow => gpu.cell \in Cells
  PROVE  FreshInv'
  <1>1. TrackerShape' /\ MirrorInv'
    BY DEF FreshInv, TrackerShape, MirrorInv
  <1>0. gpu.found \subseteq Cells
    BY DEF GpuRecord
  <1>2. RamInv'
    BY <1>0 DEF FreshInv, RamInv, RamIsCurrent
  <1>3. InWindow' <=> InWindow
    BY DEF InWindow
  <1>4. OwnWrite' <=> OwnWrite
    BY DEF OwnWrite
  <1>5. UploadInv' /\ ReadbackInv'
    BY <1>3, <1>4 DEF FreshInv, UploadInv, ReadbackInv
  <1>6. RequestInv'
    BY DEF FreshInv, RequestInv, AllRaced
  <1> QED
    BY <1>1, <1>2, <1>5, <1>6 DEF FreshInv

\* Steps of a store that change the bytes of one cell, or what is pending
\* of it: it is pending afterwards, RAM has its newest bytes, and it is raced.
LEMMA TouchFresh ==
  ASSUME FreshInv, UNCHANGED <<synced, cpuDirty, gpuDirty, valid, gpu, journal, exposed>>,
         raced \subseteq raced', AllRaced', gpu \in GpuRecord, valid \subseteq Cells,
         gpu.at \in {"copy", "submit", "open"} \/ InWindow => gpu.cell \in Cells,
         NEW x \in Cells, Pending(x)', x \in exposed \/ "ram" \in fresh'[x], gpu.at # "idle" => x \in raced',
         \A c \in Cells : c # x => fresh'[c] = fresh[c] /\ newest'[c] = newest[c] /\ (Pending(c)' <=> Pending(c))
  PROVE  FreshInv'
  <1>0. gpu.found \subseteq Cells /\ gpu.req \subseteq Cells
    BY DEF GpuRecord
  <1>1. TrackerShape' /\ MirrorInv'
    BY DEF FreshInv, TrackerShape, MirrorInv
  <1>2. RamInv'
    <2>1. Exact' <=> Exact
      BY DEF Exact, Entry
    <2> QED
      BY <1>0, <2>1 DEF FreshInv, RamInv, RamIsCurrent
  <1>3. InWindow' <=> InWindow
    BY DEF InWindow
  <1>4. OwnWrite' <=> OwnWrite
    BY DEF OwnWrite
  <1>5. UploadInv'
    BY DEF FreshInv, UploadInv
  <1>6. ReadbackInv'
    <2>1. OwnWrite => InWindow
      BY DEF OwnWrite, InWindow, Syncing
    <2>2. gpu.at \in {"commit", "write", "close"} => InWindow
      BY DEF InWindow
    <2> QED
      BY <1>3, <1>4, <2>1, <2>2 DEF FreshInv, ReadbackInv
  <1>7. RequestInv'
    <2>1. gpu.at = "idle" => gpu.at \notin Syncing \cup {"upload", "stage", "copy", "submit", "check"} \cup Ingesting
      BY DEF Syncing, Ingesting
    <2>2. \A c \in gpu.req \ (raced' \cup exposed) : c \in Cells /\ c \in gpu.req \ (raced \cup exposed) /\ (c = x => gpu.at = "idle")
      BY <1>0
    <2> SUFFICES ASSUME NEW c \in gpu.req \ (raced' \cup exposed)
                 PROVE  /\ gpu.at \notin {"idle", "collect"} => newest'[c] # None
                        /\ gpu.at = "check" \/ gpu.at \in Ingesting => newest'[c] <= gpu.through
                        /\ gpu.at = "upload" => newest'[c] <= synced
                        /\ gpu.at \in {"stage", "copy", "submit"} =>
                             \/ "mirror" \in fresh'[c] \/ c \in gpu.todo
                             \/ gpu.at \in {"copy", "submit"} /\ c = gpu.cell
                        /\ gpu.at = "submit" /\ c = gpu.cell => "stage" \in fresh'[c]
      BY DEF RequestInv, AllRaced
    <2>3. CASE gpu.at = "idle"
      BY <2>1, <2>3
    <2>4. CASE gpu.at # "idle"
      <3>1. c \in gpu.req \ (raced \cup exposed) /\ fresh'[c] = fresh[c] /\ newest'[c] = newest[c]
        BY <2>2, <2>4
      <3> QED
        BY <3>1 DEF FreshInv, RequestInv
    <2> QED
      BY <2>3, <2>4
  <1> QED
    BY <1>1, <1>2, <1>5, <1>6, <1>7 DEF FreshInv

LEMMA CellsOfGpu ==
  ASSUME BoundaryInv
  PROVE  /\ gpu \in GpuRecord /\ valid \subseteq Cells /\ Typed
         /\ gpu.at \in {"copy", "submit", "open"} \/ InWindow => gpu.cell \in Cells
  BY DEF BoundaryInv, MirrorType, GpuShape, Typed

\* A store enters, or publishes what it has an epoch for.
LEMMA StartFresh ==
  ASSUME BoundaryInv, PublishInv, FreshInv, NEW w \in Writers,
         \/ \E c \in Cells : StoreEnter(w, c)
         \/ \E c \in Conditional, path \in Paths : ConditionalEnter(w, c, path)
         \/ ConditionalCount(w) \/ StorePage(w) \/ StoreRange(w) \/ StoreFinish(w) \/ NativeSummary(w)
  PROVE  FreshInv'
  <1>0. /\ gpu \in GpuRecord /\ valid \subseteq Cells /\ Typed /\ AllRaced
        /\ gpu.at \in {"copy", "submit", "open"} \/ InWindow => gpu.cell \in Cells
    BY CellsOfGpu DEF FreshInv, RequestInv, AllRaced
  <1>1. UNCHANGED <<synced, cpuDirty, gpuDirty, valid, gpu, fresh, newest>>
    BY DEF StoreEnter, ConditionalEnter, ConditionalCount, StorePage, StoreRange, StoreFinish, NativeSummary, tracker, ghosts
  <1>4. (Exact' => Exact) /\ exposed \subseteq exposed'
    <2>1. exposed \subseteq exposed'
      BY DEF StoreEnter, ConditionalEnter, ConditionalCount, StorePage, StoreRange, StoreFinish, NativeSummary, ghosts
    <2>2. CASE StoreFinish(w) \/ StoreRange(w)
      <3>1. Flying(w) /\ MirrorTypes
        BY <2>2, TypesHold DEF StoreFinish, StoreRange, Flying, At, BoundaryInv
      <3>2. PICK e \in Nat : e = cpu[w].epoch
        BY <3>1 DEF MirrorTypes, EpochTypes
      <3>3. gpu.at = "after" => e # gpu.next
        BY <3>1, <3>2 DEF PublishInv, LookupInv
      <3>4. Index(e) \in DOMAIN journal /\ Index(gpu.next) \in DOMAIN journal
        BY <3>1 DEF MirrorTypes, EpochTypes, JournalTypes
      <3>5. \A i \in DOMAIN journal : journal'[i].epoch = journal[i].epoch \/ journal'[i].epoch = e
        <4>1. journal \in [0..(Capacity - 1) -> [epoch : Nat, cell : Cells \cup {None}]]
          BY DEF BoundaryInv, MirrorType
        <4>2. \/ journal' = [journal EXCEPT ![Index(e)] = [journal[Index(e)] EXCEPT !.epoch = e]]
              \/ journal' = [journal EXCEPT ![Index(e)] = [journal[Index(e)] EXCEPT !.cell = cpu[w].cell]]
          BY <2>2, <3>2 DEF StoreFinish, StoreRange
        <4> QED
          BY <3>4, <4>1, <4>2
      <3> QED
        BY <1>1, <2>1, <3>3, <3>4, <3>5 DEF Exact, Entry
    <2>3. CASE ~(StoreFinish(w) \/ StoreRange(w))
      <3>1. journal' = journal
        BY <2>3 DEF StoreEnter, ConditionalEnter, ConditionalCount, StorePage, NativeSummary, coherency
      <3> QED
        BY <1>1, <2>1, <3>1 DEF Exact, Entry
    <2> QED
      BY <2>2, <2>3
  <1>2. ASSUME NEW c \in Cells, NEW path, Begin(w, c, path, "store") PROVE FreshInv'
    <2>1. /\ \A v \in Writers : v # w => cpu'[v] = cpu[v]
          /\ cpu[w].at = "idle" /\ cpu'[w].at = "store" /\ cpu'[w].cell = c
      BY <1>0, <1>2 DEF Begin, At, Typed
    <2>2. raced' = IF gpu.at = "idle" THEN raced ELSE raced \cup {c}
      BY <1>2 DEF Begin
    <2>3. raced \subseteq raced' /\ AllRaced'
      BY <1>0, <1>1, <2>1, <2>2 DEF AllRaced, At
    <2>4. \A d \in Cells : Pending(d)' <=> Pending(d)
      BY <1>1, <2>1 DEF Pending, Taken
    <2> QED
      BY <1>0, <1>1, <1>4, <2>3, <2>4, QuietFresh
  <1>3. CASE ConditionalCount(w) \/ StorePage(w) \/ StoreRange(w) \/ StoreFinish(w) \/ NativeSummary(w)
    <2>1. /\ \A v \in Writers : v # w => cpu'[v] = cpu[v]
          /\ cpu[w].at # "idle"
          /\ \/ cpu'[w].at = "idle" /\ cpu[w].at \notin {"epoch", "mark"}
             \/ cpu'[w].cell = cpu[w].cell /\ (cpu'[w].at \in {"epoch", "mark"} <=> cpu[w].at \in {"epoch", "mark"})
      <3>1. CASE ConditionalCount(w)
        BY <1>0, <3>1, CountMoves DEF ConditionalCount, At, Becomes
      <3>2. CASE StorePage(w)
        BY <1>0, <3>2, LabelMoves DEF StorePage, At, Goto, Becomes
      <3>3. CASE StoreRange(w)
        BY <1>0, <3>3, LabelMoves DEF StoreRange, At, Goto, Becomes
      <3>4. CASE StoreFinish(w)
        BY <1>0, <3>4, IdleMoves DEF StoreFinish, At, Becomes
      <3>5. CASE NativeSummary(w)
        BY <1>0, <3>5, IdleMoves DEF NativeSummary, At, Becomes
      <3> QED
        BY <1>3, <3>1, <3>2, <3>3, <3>4, <3>5
    <2>2. raced' = raced
      BY <1>3 DEF ConditionalCount, StorePage, StoreRange, StoreFinish, NativeSummary, ghosts
    <2>3. AllRaced'
      BY <1>0, <1>1, <2>1, <2>2 DEF AllRaced, At
    <2>4. \A d \in Cells : Pending(d)' <=> Pending(d)
      BY <1>1, <2>1 DEF Pending, Taken
    <2> QED
      BY <1>0, <1>1, <1>4, <2>2, <2>3, <2>4, QuietFresh
  <1> QED
    BY <1>2, <1>3, WriterAssumption DEF StoreEnter, ConditionalEnter

\* The bytes of a store reach RAM, or it gets its epoch or its mark.
LEMMA BytesFresh ==
  ASSUME BoundaryInv, FreshInv, NEW w \in Writers,
         StoreBytes(w) \/ StoreEpoch(w) \/ NativeMark(w) \/ \E c \in Cells : NativeStore(w, c)
  PROVE  FreshInv'
  <1>0. /\ gpu \in GpuRecord /\ valid \subseteq Cells /\ Typed /\ AllRaced
        /\ gpu.at \in {"copy", "submit", "open"} \/ InWindow => gpu.cell \in Cells
    BY CellsOfGpu DEF FreshInv, RequestInv, AllRaced
  <1>1. /\ fresh \in [Cells -> SUBSET Places] /\ newest \in [Cells -> Nat \cup {None}] /\ epoch \in Nat
        /\ synced \in Nat /\ synced <= epoch
    BY DEF BoundaryInv, MirrorType, BoundaryAhead
  <1>2. UNCHANGED <<synced, cpuDirty, gpuDirty, valid, gpu, journal, exposed>>
    BY DEF StoreBytes, StoreEpoch, NativeMark, NativeStore, tracker, coherency
  <1>3. CASE StoreBytes(w)
    <2>1. PICK x \in Cells : x = cpu[w].cell
      BY <1>3, CellTyped DEF StoreBytes, At
    <2>2. /\ \A v \in Writers : v # w => cpu'[v] = cpu[v]
          /\ cpu[w].at = "store" /\ cpu'[w].at = "epoch" /\ cpu'[w].cell = x
      BY <1>0, <1>3, <2>1, LabelMoves DEF StoreBytes, At, Goto, Becomes
    <2>3. UNCHANGED <<newest, raced>> /\ fresh' = [fresh EXCEPT ![x] = {"ram"}]
      BY <1>3, <2>1 DEF StoreBytes, Written
    <2>4. Pending(x)' /\ \A d \in Cells : d # x => (Pending(d)' <=> Pending(d))
      BY <1>2, <2>1, <2>2, <2>3 DEF Pending, Taken
    <2>5. AllRaced' /\ (gpu.at # "idle" => x \in raced')
      BY <1>0, <1>2, <2>1, <2>2, <2>3 DEF AllRaced, At
    <2>6. "ram" \in fresh'[x] /\ \A c \in Cells : c # x => fresh'[c] = fresh[c]
      BY <1>1, <2>3
    <2> QED
      BY <1>0, <1>2, <2>3, <2>4, <2>5, <2>6, TouchFresh
  <1>4. CASE StoreEpoch(w)
    <2>1. PICK x \in Cells : x = cpu[w].cell
      BY <1>4, CellTyped DEF StoreEpoch, At
    <2>2. /\ \A v \in Writers : v # w => cpu'[v] = cpu[v]
          /\ cpu[w].at = "epoch" /\ cpu'[w].at = "page" /\ cpu'[w].cell = x
      BY <1>0, <1>1, <1>4, <2>1, EpochMoves DEF StoreEpoch, At, Becomes
    <2>3. /\ UNCHANGED <<fresh, raced>> /\ (newest'[x] = None \/ newest'[x] = epoch + 1)
          /\ \A d \in Cells : d # x => newest'[d] = newest[d]
      BY <1>1, <1>4, <2>1 DEF StoreEpoch
    <2>4. Pending(x)' /\ Pending(x) /\ \A d \in Cells : d # x => (Pending(d)' <=> Pending(d))
      <3>1. Pending(x) /\ Pending(x)'
        BY <1>1, <1>2, <2>1, <2>2, <2>3 DEF Pending, Taken
      <3>2. \A d \in Cells : d # x => (Pending(d)' <=> Pending(d))
        BY <1>2, <2>1, <2>2, <2>3 DEF Pending, Taken
      <3> QED
        BY <3>1, <3>2
    <2>5. AllRaced' /\ (gpu.at # "idle" => x \in raced')
      BY <1>0, <1>2, <2>1, <2>2, <2>3 DEF AllRaced, At
    <2>6. x \in exposed \/ "ram" \in fresh'[x]
      BY <2>3, <2>4 DEF FreshInv, RamInv
    <2> QED
      BY <1>0, <1>2, <2>3, <2>4, <2>5, <2>6, TouchFresh
  <1>5. CASE NativeMark(w)
    <2>1. PICK x \in Cells : x = cpu[w].cell
      BY <1>5, CellTyped DEF NativeMark, At
    <2>2. /\ \A v \in Writers : v # w => cpu'[v] = cpu[v]
          /\ cpu[w].at = "mark" /\ (cpu'[w].at = "idle" \/ (cpu'[w].at = "summary" /\ cpu'[w].cell = x))
      <3>1. cpu' = [cpu EXCEPT ![w].at = "summary"] \/ cpu' = [cpu EXCEPT ![w] = IdleWriter]
        BY <1>5 DEF NativeMark, Goto
      <3>2. cpu[w].at = "mark"
        BY <1>5 DEF NativeMark, At
      <3> QED
        BY <1>0, <2>1, <3>1, <3>2, IdleMoves, LabelMoves DEF Becomes
    <2>3. /\ UNCHANGED <<fresh, raced>> /\ newest'[x] = None
          /\ \A d \in Cells : d # x => newest'[d] = newest[d]
      BY <1>1, <1>5, <2>1 DEF NativeMark
    <2>4. Pending(x)' /\ Pending(x) /\ \A d \in Cells : d # x => (Pending(d)' <=> Pending(d))
      BY <1>2, <2>1, <2>2, <2>3 DEF Pending, Taken
    <2>5. AllRaced' /\ (gpu.at # "idle" => x \in raced')
      BY <1>0, <1>2, <2>1, <2>2, <2>3 DEF AllRaced, At
    <2>6. x \in exposed \/ "ram" \in fresh'[x]
      BY <2>3, <2>4 DEF FreshInv, RamInv
    <2> QED
      BY <1>0, <1>2, <2>3, <2>4, <2>5, <2>6, TouchFresh
  <1>6. ASSUME NEW x \in Cells, NativeStore(w, x) PROVE FreshInv'
    <2>2. /\ \A v \in Writers : v # w => cpu'[v] = cpu[v]
          /\ cpu[w].at = "idle" /\ cpu'[w].at = "mark" /\ cpu'[w].cell = x
      BY <1>0, <1>6 DEF NativeStore, Begin, At, Typed
    <2>3. /\ newest' = newest /\ fresh' = [fresh EXCEPT ![x] = {"ram"}]
          /\ raced' = IF gpu.at = "idle" THEN raced ELSE raced \cup {x}
      BY <1>6 DEF NativeStore, Written, Begin
    <2>4. Pending(x)' /\ \A d \in Cells : d # x => (Pending(d)' <=> Pending(d))
      BY <1>2, <2>2, <2>3 DEF Pending, Taken
    <2>5. AllRaced' /\ (gpu.at # "idle" => x \in raced') /\ raced \subseteq raced'
      BY <1>0, <1>2, <2>2, <2>3 DEF AllRaced, At
    <2>6. "ram" \in fresh'[x] /\ \A c \in Cells : c # x => fresh'[c] = fresh[c]
      BY <1>1, <2>3
    <2> QED
      BY <1>0, <1>2, <2>3, <2>4, <2>5, <2>6, TouchFresh
  <1> QED
    BY <1>3, <1>4, <1>5, <1>6

LEMMA StoreFresh ==
  ASSUME BoundaryInv, PublishInv, FreshInv, NEW w \in Writers, Store(w)
  PROVE  FreshInv'
  BY StartFresh, BytesFresh DEF Store

-----------------------------------------------------------------------------
(***************************************************************************)
(* The freshness invariant: synchronization.                               *)
(***************************************************************************)

\* What synchronization owes the request: RequestInv of one cell.
Delivered(c) ==
    /\ gpu.at \notin {"idle", "collect"} => newest[c] # None
    /\ gpu.at = "check" \/ gpu.at \in Ingesting => newest[c] <= gpu.through
    /\ gpu.at = "upload" => newest[c] <= synced

\* Steps of a synchronization that leave the tracker alone.
LEMMA SyncFresh ==
  ASSUME FreshInv, UNCHANGED <<synced, cpuDirty, gpuDirty, valid, fresh, cpu, raced>>,
         \A c \in Cells : Pending(c)' <=> Pending(c), gpu \in GpuRecord, valid \subseteq Cells,
         gpu.at \in Syncing, gpu'.at \in Syncing \cup {gpu.then}, gpu.then \in {"upload", "readback", "prepare", "commit"},
         gpu.then = "commit" => gpu.at \in Ingesting, InWindow => gpu.cell \in Cells,
         gpu'.req = gpu.req, gpu'.todo = gpu.todo, gpu'.cell = gpu.cell, gpu'.then = gpu.then,
         exposed \subseteq exposed', Exact' => \A c \in gpu'.found \ exposed' : "ram" \in fresh[c],
         \A c \in gpu.req \ (raced \cup exposed') : Delivered(c)'
  PROVE  FreshInv'
  <1>1. /\ gpu.at \notin {"idle", "upload", "stage", "copy", "submit", "readback", "download", "open"}
        /\ gpu'.at \notin {"idle", "stage", "copy", "submit", "download", "open", "write", "close"}
    BY DEF Syncing, Ingesting
  <1>2. TrackerShape' /\ MirrorInv'
    BY <1>1 DEF FreshInv, TrackerShape, MirrorInv
  <1>3. RamInv'
    BY DEF FreshInv, RamInv, RamIsCurrent
  <1>4. UploadInv'
    BY <1>1 DEF UploadInv
  <1>5. ReadbackInv'
    <2>1. InWindow' => InWindow
      BY <1>1 DEF InWindow, Syncing, Ingesting
    <2>2. gpu'.at = "commit" \/ OwnWrite' => OwnWrite
      BY <1>1 DEF OwnWrite, Syncing, Ingesting
    <2> QED
      BY <1>1, <2>1, <2>2 DEF FreshInv, ReadbackInv
  <1>6. RequestInv'
    <2>1. gpu'.at # "idle" => \A w \in Writers : ~At(w, "idle")' => cpu'[w].cell \in raced'
      BY <1>1 DEF FreshInv, RequestInv, At
    <2> QED
      BY <1>1, <2>1 DEF RequestInv, Delivered
  <1> QED
    BY <1>2, <1>3, <1>4, <1>5, <1>6 DEF FreshInv

LEMMA SyncFacts ==
  ASSUME BoundaryInv, gpu.at \in Syncing
  PROVE  /\ gpu.then \in {"upload", "readback", "prepare", "commit"}
         /\ gpu.then = "commit" => gpu.at \in Ingesting
         /\ InWindow => gpu.cell \in Cells
         /\ gpu \in GpuRecord /\ valid \subseteq Cells /\ gpu.req \subseteq Cells /\ gpu.found \subseteq Cells
         /\ MirrorTypes
  <1>1. gpu \in GpuRecord /\ valid \subseteq Cells
    BY DEF BoundaryInv, MirrorType
  <1> QED
    BY <1>1, TypesHold DEF BoundaryInv, GpuShape, GpuRecord

\* Marks become epochs that are still to be taken in.
LEMMA CollectFresh ==
  ASSUME BoundaryInv, PublishInv, FreshInv, Snapshot \/ Collect
  PROVE  FreshInv'
  <1>0. MirrorTypes /\ UNCHANGED <<cpu, synced, cpuDirty, gpuDirty, valid, fresh, raced>> /\ Collected /\ exposed \subseteq exposed'
    BY TypesHold DEF BoundaryInv, Snapshot, Collect, tracker
  <1>t. EpochTypes /\ CellTypes
    BY <1>0 DEF MirrorTypes
  <1>1. \A c \in Cells : /\ newest[c] # None \/ Page[c] \notin Marked => newest'[c] = newest[c]
                         /\ newest[c] = None /\ Page[c] \in Marked => newest'[c] # None /\ ~(newest'[c] <= synced)
    <2>1. CASE Marked = {}
      BY <1>0, <2>1 DEF Collected
    <2>2. CASE Marked # {}
      <3>1. ~(epoch + 1 <= synced) /\ epoch + 1 # None
        BY <1>t DEF EpochTypes, CellTypes, BoundaryInv, BoundaryAhead
      <3>2. \A c \in Cells : newest'[c] = IF newest[c] = None /\ Page[c] \in Marked THEN epoch + 1 ELSE newest[c]
        BY <1>0, <2>2 DEF Collected
      <3> QED
        BY <3>1, <3>2
    <2> QED
      BY <2>1, <2>2
  <1>2. \A c \in Cells : Pending(c)' <=> Pending(c)
    <2>1. \A c \in Cells : Taken(c)' <=> Taken(c)
      BY <1>0, <1>1 DEF Taken
    <2> QED
      BY <1>0, <2>1 DEF Pending
  <1>3. CASE Snapshot
    <2>1. gpu' = gpu /\ gpu.at = "idle"
      BY <1>3 DEF Snapshot, GpuAt
    <2>2. ~InWindow' /\ ~OwnWrite' /\ ~Exact'
      BY <2>1 DEF InWindow, OwnWrite, Exact, Syncing, Ingesting
    <2>3. TrackerShape' /\ MirrorInv'
      BY <1>0, <1>2, <2>1 DEF FreshInv, TrackerShape, MirrorInv, BoundaryInv, MirrorType
    <2>4. RamInv'
      BY <1>0, <1>2, <2>2 DEF FreshInv, RamInv, RamIsCurrent
    <2>5. UploadInv' /\ ReadbackInv' /\ RequestInv'
      BY <2>1, <2>2 DEF UploadInv, ReadbackInv, RequestInv, Ingesting
    <2> QED
      BY <2>3, <2>4, <2>5 DEF FreshInv
  <1>4. CASE Collect
    <2>1. gpu.at = "collect" /\ gpu.at \in Syncing
      BY <1>4 DEF Collect, GpuAt, Syncing
    <2>2. Moves("wait") /\ gpu \in GpuRecord
      BY <1>4, GotoMoves DEF Collect, BoundaryInv, MirrorType
    <2>3. \A c \in gpu.req \ (raced \cup exposed') : Delivered(c)'
      <3>1. \A c \in gpu.req \ (raced \cup exposed') : c \in Cells /\ (newest[c] # None \/ Page[c] \in Marked)
        BY <1>4, <2>1, SyncFacts DEF Collect, Unannounced
      <3>2. \A c \in gpu.req \ (raced \cup exposed') : newest'[c] # None
        BY <1>1, <3>1
      <3> QED
        BY <2>2, <3>2 DEF Delivered, Moves, GpuBecomes, Ingesting
    <2>4. ~Exact'
      BY <2>2 DEF Exact, Moves, GpuBecomes
    <2> QED
      BY <1>0, <1>2, <2>1, <2>2, <2>3, <2>4, SyncFacts, SyncFresh DEF Moves, GpuBecomes, Syncing, Ingesting
  <1> QED
    BY <1>3, <1>4

LEMMA SameAge ==
  ASSUME UNCHANGED <<cpu, newest, synced>> PROVE \A c : Pending(c)' <=> Pending(c)
  BY DEF Pending, Taken

\* The boundary is looked for, read and checked.
LEMMA WaitFresh ==
  ASSUME BoundaryInv, PublishInv, FreshInv, BoundaryWait \/ BoundaryRead \/ BoundaryCheck
  PROVE  FreshInv'
  <1>0. /\ UNCHANGED <<synced, cpuDirty, gpuDirty, valid, fresh, cpu, raced, newest, epoch>>
        /\ gpu.at \in {"wait", "read", "check"} /\ gpu.at \in Syncing /\ exposed \subseteq exposed'
    BY DEF BoundaryWait, BoundaryRead, BoundaryCheck, coherency, bits, tracker, ghosts, GpuAt, Syncing
  <1>1. /\ gpu.then \in {"upload", "readback", "prepare", "commit"}
        /\ gpu.then = "commit" => gpu.at \in Ingesting
        /\ InWindow => gpu.cell \in Cells
        /\ gpu \in GpuRecord /\ valid \subseteq Cells /\ gpu.req \subseteq Cells
        /\ EpochTypes /\ CellTypes
    BY <1>0, SyncFacts DEF MirrorTypes
  <1>2. \A c \in Cells : Pending(c)' <=> Pending(c)
    BY <1>0, SameAge
  <1>3. \A c \in gpu.req \ (raced \cup exposed) : newest[c] # None /\ newest[c] \in Nat /\ newest[c] <= epoch
    BY <1>0, <1>1 DEF FreshInv, RequestInv, CellTypes, PublishInv, EpochsBounded
  <1>4. CASE BoundaryWait \/ (BoundaryCheck /\ writers # 0)
    <2>1. PICK l \in {"read", "wait"} : GpuGoto(l)
      BY <1>4 DEF BoundaryWait, BoundaryCheck
    <2>2. Moves(l)
      BY <1>1, <2>1, GotoMoves
    <2>3. \A c \in gpu.req \ (raced \cup exposed') : Delivered(c)'
      BY <1>0, <1>3, <2>2 DEF Delivered, Moves, GpuBecomes, Ingesting
    <2> QED
      BY <1>0, <1>1, <1>2, <2>2, <2>3, SyncFresh DEF Exact, Moves, GpuBecomes, Syncing, Ingesting
  <1>5. CASE BoundaryRead
    <2>1. /\ gpu'.at = "check" /\ gpu'.through = epoch /\ gpu'.req = gpu.req /\ gpu'.todo = gpu.todo
          /\ gpu'.cell = gpu.cell /\ gpu'.then = gpu.then
      BY <1>1, <1>5, ReadBecomes DEF GpuBecomes
    <2>2. \A c \in gpu.req \ (raced \cup exposed') : Delivered(c)'
      BY <1>0, <1>3, <2>1 DEF Delivered
    <2> QED
      BY <1>0, <1>1, <1>2, <2>1, <2>2, SyncFresh DEF Exact, Syncing, Ingesting
  <1>6. CASE BoundaryCheck /\ writers = 0
    <2>1. /\ gpu'.at = IngestLabel(gpu.through, gpu.then) /\ gpu'.through = gpu.through /\ gpu'.req = gpu.req
          /\ gpu'.todo = gpu.todo /\ gpu'.cell = gpu.cell /\ gpu'.then = gpu.then /\ gpu'.found = {}
      BY <1>1, <1>6, IngestBecomes DEF BoundaryCheck, GpuBecomes
    <2>2. \/ gpu'.at = gpu.then /\ gpu.through <= synced
          \/ gpu'.at \in {"pages", "before"}
      BY <2>1 DEF IngestLabel
    <2>3. \A c \in gpu.req \ (raced \cup exposed) : newest[c] <= gpu.through
      BY <1>6 DEF BoundaryCheck, GpuAt, FreshInv, RequestInv
    <2>4. \A c \in gpu.req \ (raced \cup exposed') : Delivered(c)'
      BY <1>0, <1>1, <1>3, <2>1, <2>2, <2>3 DEF Delivered, EpochTypes, Ingesting
    <2> QED
      BY <1>0, <1>1, <1>2, <2>1, <2>2, <2>4, SyncFresh DEF Exact, Syncing, Ingesting
  <1> QED
    BY <1>4, <1>5, <1>6

\* What an entry names has its newest bytes in RAM: a store as new as that
\* is still to be taken in.
LEMMA LookupFresh ==
  ASSUME BoundaryInv, PublishInv, FreshInv, JournalBefore \/ JournalRange
  PROVE  FreshInv'
  <1>0. /\ UNCHANGED <<synced, cpuDirty, gpuDirty, valid, fresh, cpu, raced, newest>> /\ exposed \subseteq exposed'
        /\ gpu.at \in {"before", "range"} /\ gpu.at \in Syncing /\ gpu.at \in Ingesting
    BY DEF JournalBefore, JournalRange, tracker, ghosts, GpuAt, Syncing, Ingesting
  <1>1. /\ gpu.then \in {"upload", "readback", "prepare", "commit"}
        /\ InWindow => gpu.cell \in Cells
        /\ gpu \in GpuRecord /\ valid \subseteq Cells /\ gpu.req \subseteq Cells
        /\ EpochTypes /\ CellTypes /\ JournalTypes
    BY <1>0, SyncFacts DEF MirrorTypes
  <1>2. \A c \in Cells : Pending(c)' <=> Pending(c)
    BY <1>0, SameAge
  <1>3. \A c \in gpu.req \ (raced \cup exposed) : newest[c] # None /\ newest[c] <= gpu.through
    BY <1>0 DEF FreshInv, RequestInv
  <1>4. \A c \in gpu.found \ exposed : "ram" \in fresh[c]
    BY <1>0 DEF FreshInv, RamInv, Exact
  <1>5. CASE JournalBefore
    <2>1. PICK l \in {"range", "pages"} : GpuGoto(l)
      BY <1>5 DEF JournalBefore
    <2>2. Moves(l)
      BY <1>1, <2>1, GotoMoves
    <2>3. \A c \in gpu.req \ (raced \cup exposed') : Delivered(c)'
      BY <1>0, <1>3, <2>2 DEF Delivered, Moves, GpuBecomes
    <2> QED
      BY <1>0, <1>1, <1>2, <1>4, <2>2, <2>3, SyncFresh DEF Moves, GpuBecomes, Syncing, Ingesting
  <1>6. CASE JournalRange
    <2>1. /\ gpu'.at = "after" /\ gpu'.through = gpu.through /\ gpu'.req = gpu.req
          /\ gpu'.todo = gpu.todo /\ gpu'.cell = gpu.cell /\ gpu'.then = gpu.then
          /\ gpu'.found = IF gpu.next = gpu.ignored THEN gpu.found ELSE gpu.found \cup {Entry.cell}
      BY <1>1, <1>6, RangeBecomes DEF GpuBecomes
    <2>2. \A c \in gpu.req \ (raced \cup exposed') : Delivered(c)'
      BY <1>0, <1>3, <2>1 DEF Delivered
    <2>3. ASSUME gpu.next # gpu.ignored, Entry.epoch = gpu.next, Entry.cell \notin exposed
          PROVE  "ram" \in fresh[Entry.cell]
      <3>1. gpu.at = "range"
        BY <1>6 DEF JournalRange, GpuAt
      <3>2. gpu.next > synced /\ Index(gpu.next) \in DOMAIN journal
        BY <1>0, <1>1 DEF BoundaryInv, GpuShape, EpochTypes, JournalTypes
      <3>3. PICK x \in Cells : x = Entry.cell
        BY <1>1, <3>1, <3>2 DEF JournalTypes, Entry, BoundaryInv, JournalShape
      <3>4. newest[x] = None \/ newest[x] >= gpu.next
        BY <1>1, <2>3, <3>2, <3>3 DEF PublishInv, EntriesCovered, Entry, EpochTypes
      <3>5. Pending(x)
        BY <1>1, <3>2, <3>4 DEF Pending, Taken, CellTypes, EpochTypes
      <3> QED
        BY <2>3, <3>3, <3>5 DEF FreshInv, RamInv
    <2>4. Exact' => \A c \in gpu'.found \ exposed' : "ram" \in fresh[c]
      <3>1. Exact' => Entry.epoch = gpu.next
        <4>1. gpu'.next = gpu.next /\ journal' = journal
          BY <1>1, <1>6, RangeBecomes DEF GpuBecomes, JournalRange, coherency
        <4> QED
          BY <2>1, <4>1 DEF Exact, Entry
      <3> QED
        BY <1>0, <1>4, <2>1, <2>3, <3>1
    <2> QED
      BY <1>0, <1>1, <1>2, <2>1, <2>2, <2>4, SyncFresh DEF Syncing, Ingesting
  <1> QED
    BY <1>5, <1>6

\* The tracker takes in everything up to the boundary and nothing that only
\* the GPU holds.
LEMMA ApplyFresh ==
  ASSUME BoundaryInv, PublishInv, FreshInv, NEW cells \in SUBSET Cells, Apply(cells),
         UNCHANGED <<fresh, cpu, raced, newest>>, gpu.at \in {"after", "pages"},
         gpu'.at = gpu.then, gpu'.req = gpu.req, gpu'.todo = gpu.todo, gpu'.cell = gpu.cell, gpu'.then = gpu.then,
         exposed \subseteq exposed',
         \A c \in Cells \ exposed' : newest[c] # None /\ newest[c] > synced /\ newest[c] <= gpu.through => c \in cells,
         \A c \in (cells \cap gpuDirty) \ exposed' : "ram" \in fresh[c]
  PROVE  FreshInv'
  <1>0. gpu.at \in Syncing /\ gpu.at \in Ingesting
    BY DEF Syncing, Ingesting
  <1>1. /\ gpu.then \in {"upload", "readback", "prepare", "commit"} /\ (InWindow => gpu.cell \in Cells)
        /\ valid \subseteq Cells /\ gpu.req \subseteq Cells /\ EpochTypes /\ CellTypes
    BY <1>0, SyncFacts DEF MirrorTypes
  <1>2. /\ synced' = gpu.through /\ gpuDirty' = gpuDirty \ cells /\ valid' = valid \ cells
        /\ cpuDirty' = cpuDirty \cup cells
    BY DEF Apply
  <1>3. synced <= gpu.through
    BY <1>0, <1>1 DEF BoundaryInv, GpuShape, EpochTypes
  <1>4. ASSUME NEW c \in Cells, Pending(c)' PROVE Pending(c)
    BY <1>1, <1>2, <1>3, <1>4 DEF Pending, Taken, CellTypes, EpochTypes
  <1>5. ASSUME NEW c \in Cells \ exposed', Pending(c), c \notin cells PROVE Pending(c)'
    BY <1>1, <1>2, <1>5 DEF Pending, Taken, CellTypes, EpochTypes
  <1>6. /\ gpu'.at \notin {"idle", "stage", "copy", "submit", "download", "open", "write", "close", "check", "collect"}
        /\ gpu'.at \notin Ingesting /\ gpu'.at \notin Syncing /\ ~Exact'
    BY <1>1 DEF Ingesting, Syncing, Exact
  <1>7. TrackerShape'
    BY <1>2 DEF FreshInv, TrackerShape
  <1>8. MirrorInv'
    BY <1>1, <1>2, <1>5 DEF FreshInv, MirrorInv
  <1>9. RamInv'
    <2>1. RamIsCurrent'
      BY <1>2 DEF FreshInv, RamInv, RamIsCurrent
    <2> QED
      BY <1>4, <1>6, <2>1 DEF FreshInv, RamInv
  <1>10. UploadInv'
    BY <1>6 DEF UploadInv
  <1>11. ReadbackInv'
    <2>1. InWindow' => InWindow
      BY <1>0, <1>1, <1>6 DEF InWindow
    <2>2. ~OwnWrite' /\ (gpu'.at = "commit" => OwnWrite)
      BY <1>0, <1>6 DEF OwnWrite
    <2>3. InWindow' => gpu.cell \in exposed' \/ gpu.cell \notin gpuDirty' \/ Pending(gpu.cell)' \/ "stage" \in fresh[gpu.cell]
      BY <1>1, <1>2, <1>5, <2>1 DEF FreshInv, ReadbackInv
    <2>4. InWindow' => gpuDirty' \cap gpu.req \subseteq gpu.todo \cup {gpu.cell}
      BY <1>2, <2>1 DEF FreshInv, ReadbackInv
    <2>5. gpu'.at = "commit" => gpu.cell \in exposed \/ "ram" \in fresh[gpu.cell]
      BY <2>2 DEF FreshInv, ReadbackInv
    <2> QED
      BY <1>6, <2>2, <2>3, <2>4, <2>5 DEF ReadbackInv
  <1>12. RequestInv'
    <2>1. \A w \in Writers : ~At(w, "idle")' => cpu'[w].cell \in raced'
      BY <1>0 DEF FreshInv, RequestInv, At, Ingesting
    <2>2. \A c \in gpu.req \ (raced \cup exposed) : newest[c] # None /\ newest[c] <= gpu.through
      BY <1>0 DEF FreshInv, RequestInv, Ingesting
    <2> QED
      BY <1>2, <1>6, <2>1, <2>2 DEF RequestInv
  <1> QED
    BY <1>7, <1>8, <1>9, <1>10, <1>11, <1>12 DEF FreshInv

\* By the journal, entry by entry.
LEMMA AfterFresh ==
  ASSUME BoundaryInv, PublishInv, FreshInv, JournalAfter
  PROVE  FreshInv'
  <1>0. /\ UNCHANGED <<fresh, cpu, raced, newest, exposed>>
        /\ gpu.at = "after" /\ gpu.at \in Syncing /\ gpu.at \in Ingesting
    BY DEF JournalAfter, ghosts, GpuAt, Syncing, Ingesting
  <1>1. /\ gpu.then \in {"upload", "readback", "prepare", "commit"}
        /\ InWindow => gpu.cell \in Cells
        /\ gpu \in GpuRecord /\ valid \subseteq Cells /\ gpu.req \subseteq Cells /\ gpu.found \in SUBSET Cells
        /\ EpochTypes /\ CellTypes
    BY <1>0, SyncFacts DEF MirrorTypes
  <1>2. /\ gpu'.at = IF Entry.epoch # gpu.next THEN "pages"
                     ELSE IF gpu.next = gpu.through THEN gpu.then ELSE "before"
        /\ gpu'.req = gpu.req /\ gpu'.todo = gpu.todo /\ gpu'.cell = gpu.cell
        /\ gpu'.then = gpu.then /\ gpu'.through = gpu.through /\ gpu'.found = gpu.found
    BY <1>1, AfterBecomes DEF GpuBecomes
  <1>3. Entry.epoch = gpu.next => \A c \in gpu.found \ exposed : "ram" \in fresh[c]
    BY <1>0 DEF FreshInv, RamInv, Exact
  <1>4. CASE Entry.epoch = gpu.next /\ gpu.next = gpu.through
    <2>1. Apply(gpu.found) /\ gpu'.at = gpu.then
      BY <1>2, <1>4 DEF JournalAfter
    <2>2. \A c \in Cells \ exposed : newest[c] # None /\ newest[c] > synced /\ newest[c] <= gpu.through => c \in gpu.found
      BY <1>0, <1>1, <1>4 DEF PublishInv, LookupInv, CellTypes, EpochTypes
    <2> QED
      BY <1>0, <1>1, <1>2, <1>3, <1>4, <2>1, <2>2, ApplyFresh
  <1>5. CASE ~(Entry.epoch = gpu.next /\ gpu.next = gpu.through)
    <2>1. UNCHANGED <<synced, cpuDirty, gpuDirty, valid>> /\ gpu'.at \in {"pages", "before"}
      BY <1>2, <1>5 DEF JournalAfter, tracker
    <2>2. \A c \in gpu.req \ (raced \cup exposed) : newest[c] # None /\ newest[c] <= gpu.through
      BY <1>0 DEF FreshInv, RequestInv
    <2>3. \A c \in gpu.req \ (raced \cup exposed') : Delivered(c)'
      BY <1>0, <1>2, <2>1, <2>2 DEF Delivered
    <2>4. \A c \in Cells : Pending(c)' <=> Pending(c)
      BY <1>0, <2>1, SameAge
    <2>5. Exact' => Entry.epoch = gpu.next
      BY <1>2, <2>1 DEF Exact
    <2> QED
      BY <1>0, <1>1, <1>2, <1>3, <2>1, <2>3, <2>4, <2>5, SyncFresh DEF Syncing, Ingesting
  <1> QED
    BY <1>4, <1>5

\* By whole pages, which take from the GPU only cells with a store of their
\* own, and expose the others.
LEMMA PagesFresh ==
  ASSUME BoundaryInv, PublishInv, FreshInv, IngestPages
  PROVE  FreshInv'
  <1>0. /\ UNCHANGED <<fresh, cpu, raced, newest>> /\ exposed' = exposed \cup Neighbours
        /\ gpu.at = "pages" /\ gpu.at \in Syncing /\ gpu.at \in Ingesting
    BY DEF IngestPages, GpuAt, Syncing, Ingesting
  <1>1. gpu \in GpuRecord /\ EpochTypes /\ CellTypes /\ PageTypes
    BY <1>0, SyncFacts DEF MirrorTypes
  <1>2. Moves(gpu.then)
    BY <1>1, GotoMoves DEF IngestPages
  <1>3. PICK cells \in SUBSET Cells : cells = {c \in Cells : pageEpoch[Page[c]] > synced}
    OBVIOUS
  <1>4. Apply(cells)
    BY <1>3 DEF IngestPages
  <1>5. \A c \in Cells \ exposed : newest[c] # None /\ newest[c] > synced /\ newest[c] <= gpu.through => c \in cells
    <2> SUFFICES ASSUME NEW c \in Cells \ exposed, newest[c] # None, newest[c] > synced, newest[c] <= gpu.through,
                        ~(pageEpoch[Page[c]] > synced)
                 PROVE  FALSE
      BY <1>3
    <2>1. PICK w \in Writers : At(w, "page") /\ cpu[w].cell = c /\ cpu[w].epoch = newest[c]
      BY DEF PublishInv, PagesShow, PageShows
    <2>2. Ahead(w, gpu.through)
      BY <1>0, <2>1 DEF BoundaryInv, BoundaryAhead, Flying, At
    <2>3. cpu[w].epoch > gpu.through
      BY <2>1, <2>2 DEF Ahead
    <2> QED
      BY <1>1, <2>1, <2>3 DEF CellTypes, EpochTypes
  <1>6. \A c \in (cells \cap gpuDirty) \ exposed' : "ram" \in fresh[c]
    <2> SUFFICES ASSUME NEW c \in Cells \ exposed', pageEpoch[Page[c]] > synced, c \in gpuDirty
                 PROVE  "ram" \in fresh[c]
      BY <1>3
    <2>1. ~OwnWrite /\ c \notin exposed /\ c \notin Neighbours
      BY <1>0 DEF PublishInv, LevelInv
    <2>2. PICK d \in Cells : Page[d] = Page[c] /\ (newest[d] = None \/ newest[d] >= pageEpoch[Page[c]])
      BY <1>1, <2>1 DEF PublishInv, PagesCovered, PageTypes, EpochTypes
    <2>3. ~Taken(d)
      BY <1>1, <2>2 DEF Taken, CellTypes, PageTypes, EpochTypes
    <2>4. Pending(c)
      BY <2>1, <2>2, <2>3 DEF Neighbours
    <2> QED
      BY <2>1, <2>4 DEF FreshInv, RamInv
  <1> QED
    BY <1>0, <1>2, <1>4, <1>5, <1>6, ApplyFresh DEF Moves, GpuBecomes

-----------------------------------------------------------------------------
(***************************************************************************)
(* The freshness invariant: the mirror's operations.                       *)
(***************************************************************************)

\* An operation ends, whether it succeeded or not.
LEMMA ReturnFresh ==
  ASSUME FreshInv, Return, UNCHANGED <<cpu, newest, synced, gpuDirty, fresh, exposed>>, TrackerShape', valid' \subseteq Cells,
         \A c \in valid' : c \in valid /\ ~(gpu.at \in {"copy", "submit"} /\ gpu.cell = c)
  PROVE  FreshInv'
  <1>1. gpu'.at = "idle" /\ gpu'.req = {}
    BY ReturnIdles DEF GpuBecomes
  <1>2. \A c : Pending(c)' <=> Pending(c)
    BY SameAge
  <1>3. ~InWindow' /\ ~OwnWrite' /\ gpu'.at \notin Ingesting /\ ~Exact'
    BY <1>1 DEF InWindow, OwnWrite, Exact, Syncing, Ingesting
  <1>4. MirrorInv' /\ RamInv'
    BY <1>2, <1>3 DEF FreshInv, MirrorInv, RamInv, RamIsCurrent
  <1>5. UploadInv' /\ ReadbackInv' /\ RequestInv'
    BY <1>1, <1>3 DEF UploadInv, ReadbackInv, RequestInv
  <1> QED
    BY <1>4, <1>5 DEF FreshInv

LEMMA RequestFresh ==
  ASSUME BoundaryInv, FreshInv, NEW op \in Ops, NEW cells \in SUBSET Cells, Request(op, cells)
  PROVE  FreshInv'
  <1>1. gpu'.at = "collect" /\ gpu'.then \in {"upload", "readback"} /\ gpu.at = "idle"
    BY RequestBecomes DEF GpuBecomes, Request, GpuAt
  <1>2. /\ UNCHANGED <<cpu, newest, synced, cpuDirty, gpuDirty, valid, fresh, exposed>>
        /\ raced' = {cpu[w].cell : w \in {v \in Writers : ~At(v, "idle")}}
    BY DEF Request, tracker
  <1>3. \A c : Pending(c)' <=> Pending(c)
    BY <1>2, SameAge
  <1>4. ~InWindow' /\ ~OwnWrite' /\ gpu'.at \notin Ingesting /\ ~Exact'
    BY <1>1 DEF InWindow, OwnWrite, Exact, Syncing, Ingesting
  <1>5. TrackerShape' /\ MirrorInv' /\ RamInv'
    BY <1>1, <1>2, <1>3, <1>4 DEF FreshInv, TrackerShape, MirrorInv, RamInv, RamIsCurrent
  <1>6. UploadInv' /\ ReadbackInv'
    BY <1>1, <1>4 DEF UploadInv, ReadbackInv
  <1>7. RequestInv'
    BY <1>1, <1>2, <1>4 DEF RequestInv, At
  <1> QED
    BY <1>5, <1>6, <1>7 DEF FreshInv

\* What no store has touched since the request is not pending once it has
\* been taken in.
LEMMA NotRaced ==
  ASSUME BoundaryInv, FreshInv, gpu.at = "upload", NEW c \in gpu.req \ (raced \cup exposed)
  PROVE  ~Pending(c)
  <1>0. c \in Cells /\ EpochTypes /\ CellTypes
    BY TypesHold DEF BoundaryInv, MirrorType, GpuRecord, MirrorTypes
  <1>1. newest[c] # None /\ newest[c] <= synced
    BY DEF FreshInv, RequestInv
  <1>2. \A w \in Writers : cpu[w].cell = c => cpu[w].at = "idle"
    BY DEF FreshInv, RequestInv, At
  <1> QED
    BY <1>0, <1>1, <1>2 DEF Pending, Taken, CellTypes, EpochTypes

LEMMA PlanUploadFresh ==
  ASSUME BoundaryInv, FreshInv, PlanUpload
  PROVE  FreshInv'
  <1>0. gpu \in GpuRecord /\ valid \subseteq Cells /\ gpu.req \subseteq Cells /\ gpu.at = "upload"
    BY DEF BoundaryInv, MirrorType, GpuRecord, PlanUpload, GpuAt
  <1>1. /\ gpu'.at = "stage" /\ gpu'.req = gpu.req /\ gpu'.todo = (cpuDirty \cap gpu.req) \cup (gpu.req \ valid)
    BY <1>0, PlansBecome DEF GpuBecomes
  <1>2. UNCHANGED <<cpu, newest, synced, cpuDirty, gpuDirty, valid, fresh, raced, exposed>>
    BY DEF PlanUpload, tracker, ghosts
  <1>3. \A c : Pending(c)' <=> Pending(c)
    BY <1>2, SameAge
  <1>4. ~InWindow' /\ ~OwnWrite' /\ gpu'.at \notin Ingesting /\ ~Exact'
    BY <1>1 DEF InWindow, OwnWrite, Exact, Syncing, Ingesting
  <1>5. TrackerShape' /\ MirrorInv' /\ RamInv'
    BY <1>0, <1>1, <1>2, <1>3, <1>4 DEF FreshInv, TrackerShape, MirrorInv, RamInv, RamIsCurrent
  <1>6. UploadInv' /\ ReadbackInv'
    BY <1>1, <1>2, <1>4 DEF FreshInv, TrackerShape, UploadInv, ReadbackInv
  <1>7. RequestInv'
    <2>1. \A w \in Writers : ~At(w, "idle")' => cpu'[w].cell \in raced'
      BY <1>0, <1>2 DEF FreshInv, RequestInv, At
    <2>2. \A c \in gpu.req \ (raced \cup exposed) : newest[c] # None /\ ("mirror" \in fresh[c] \/ c \in gpu'.todo)
      <3> SUFFICES ASSUME NEW c \in gpu.req \ (raced \cup exposed)
                   PROVE  newest[c] # None /\ (c \in valid => "mirror" \in fresh[c])
        BY <1>1
      <3>1. ~Pending(c)
        BY <1>0, NotRaced
      <3>2. newest[c] # None
        BY <3>1 DEF Pending, Taken
      <3> QED
        BY <1>0, <3>1, <3>2 DEF FreshInv, MirrorInv
    <2> QED
      BY <1>1, <1>2, <1>4, <2>1, <2>2 DEF RequestInv
  <1> QED
    BY <1>5, <1>6, <1>7 DEF FreshInv

\* The cell is called valid before its bytes are copied.
LEMMA UploadCommitFresh ==
  ASSUME BoundaryInv, FreshInv, NEW x \in Cells, UploadCommit(x)
  PROVE  FreshInv'
  <1>0. gpu \in GpuRecord /\ gpu.at = "stage" /\ x \in gpu.todo
    BY DEF BoundaryInv, MirrorType, UploadCommit, GpuAt
  <1>1. gpu'.at = "copy" /\ gpu'.req = gpu.req /\ gpu'.todo = gpu.todo \ {x} /\ gpu'.cell = x
    BY <1>0, TakesBecome DEF GpuBecomes
  <1>2. /\ UNCHANGED <<cpu, newest, synced, gpuDirty, fresh, raced, exposed>>
        /\ cpuDirty' = cpuDirty \ {x} /\ valid' = valid \cup {x}
    BY DEF UploadCommit, ghosts
  <1>3. \A c : Pending(c)' <=> Pending(c)
    BY <1>2, SameAge
  <1>4. ~InWindow' /\ ~OwnWrite' /\ gpu'.at \notin Ingesting /\ ~Exact'
    BY <1>1 DEF InWindow, OwnWrite, Exact, Syncing, Ingesting
  <1>5. TrackerShape' /\ RamInv'
    BY <1>2, <1>3, <1>4 DEF FreshInv, TrackerShape, RamInv, RamIsCurrent
  <1>6. MirrorInv'
    BY <1>0, <1>1, <1>2, <1>3 DEF FreshInv, MirrorInv
  <1>7. UploadInv' /\ ReadbackInv'
    BY <1>0, <1>1, <1>2, <1>4 DEF FreshInv, UploadInv, ReadbackInv
  <1>8. RequestInv'
    BY <1>0, <1>1, <1>2, <1>4 DEF FreshInv, RequestInv, At
  <1> QED
    BY <1>5, <1>6, <1>7, <1>8 DEF FreshInv

\* A copy changes one place of one cell.
LEMMA CopiedOnly ==
  ASSUME fresh \in [Cells -> SUBSET Places], NEW x \in Cells, NEW from \in Places, NEW to \in Places, Copied(x, from, to)
  PROVE  /\ \A c \in Cells : c # x => fresh'[c] = fresh[c]
         /\ \A p \in Places : p # to => (p \in fresh'[x] <=> p \in fresh[x])
         /\ to \in fresh'[x] <=> from \in fresh[x]
  BY DEF Copied

LEMMA UploadCopyFresh ==
  ASSUME BoundaryInv, FreshInv, UploadCopy
  PROVE  FreshInv'
  <1>0. gpu \in GpuRecord /\ gpu.at = "copy" /\ gpu.cell \in Cells /\ valid \subseteq Cells /\ gpu.req \subseteq Cells
    BY DEF BoundaryInv, MirrorType, GpuShape, GpuRecord, UploadCopy, GpuAt
  <1>1. gpu'.at = "submit" /\ gpu'.req = gpu.req /\ gpu'.todo = gpu.todo /\ gpu'.cell = gpu.cell
    BY <1>0, GotoMoves DEF UploadCopy, Moves, GpuBecomes
  <1>2. UNCHANGED <<cpu, newest, synced, cpuDirty, gpuDirty, valid, raced, exposed>>
    BY DEF UploadCopy, tracker
  <1>3. \A c : Pending(c)' <=> Pending(c)
    BY <1>2, SameAge
  <1>4. ~InWindow' /\ ~OwnWrite' /\ gpu'.at \notin Ingesting /\ ~Exact'
    BY <1>1 DEF InWindow, OwnWrite, Exact, Syncing, Ingesting
  <1>5. /\ \A c \in Cells : "ram" \in fresh'[c] <=> "ram" \in fresh[c]
        /\ \A c \in Cells : "mirror" \in fresh'[c] <=> "mirror" \in fresh[c]
        /\ gpu.cell \in exposed \/ "stage" \in fresh'[gpu.cell]
    <2>1. gpu.cell \in exposed \/ "ram" \in fresh[gpu.cell]
      BY <1>0 DEF FreshInv, UploadInv, RamInv, RamIsCurrent
    <2> QED
      BY <1>0, <2>1, CopiedOnly DEF UploadCopy, BoundaryInv, MirrorType, Places
  <1>6. TrackerShape' /\ MirrorInv'
    BY <1>0, <1>1, <1>2, <1>3, <1>5 DEF FreshInv, TrackerShape, MirrorInv
  <1>7. RamInv'
    BY <1>2, <1>3, <1>4, <1>5 DEF FreshInv, RamInv, RamIsCurrent
  <1>8. UploadInv' /\ ReadbackInv'
    BY <1>0, <1>1, <1>2, <1>4, <1>5 DEF FreshInv, UploadInv, ReadbackInv
  <1>9. RequestInv'
    BY <1>0, <1>1, <1>2, <1>4, <1>5 DEF FreshInv, RequestInv, At
  <1> QED
    BY <1>6, <1>7, <1>8, <1>9 DEF FreshInv

LEMMA UploadSubmitFresh ==
  ASSUME BoundaryInv, FreshInv, UploadSubmit
  PROVE  FreshInv'
  <1>0. gpu \in GpuRecord /\ gpu.at = "submit" /\ gpu.cell \in Cells /\ valid \subseteq Cells /\ gpu.req \subseteq Cells
    BY DEF BoundaryInv, MirrorType, GpuShape, GpuRecord, UploadSubmit, GpuAt
  <1>1. gpu'.at = "stage" /\ gpu'.req = gpu.req /\ gpu'.todo = gpu.todo
    BY <1>0, LeavesBecome DEF GpuBecomes
  <1>2. UNCHANGED <<cpu, newest, synced, cpuDirty, gpuDirty, valid, raced, exposed>>
    BY DEF UploadSubmit, tracker
  <1>3. \A c : Pending(c)' <=> Pending(c)
    BY <1>2, SameAge
  <1>4. ~InWindow' /\ ~OwnWrite' /\ gpu'.at \notin Ingesting /\ ~Exact'
    BY <1>1 DEF InWindow, OwnWrite, Exact, Syncing, Ingesting
  <1>5. /\ \A c \in Cells : "ram" \in fresh'[c] <=> "ram" \in fresh[c]
        /\ \A c \in Cells : c # gpu.cell => fresh'[c] = fresh[c]
        /\ "mirror" \in fresh'[gpu.cell] <=> "stage" \in fresh[gpu.cell]
    BY <1>0, CopiedOnly DEF UploadSubmit, BoundaryInv, MirrorType, Places
  <1>6. TrackerShape'
    BY <1>2 DEF FreshInv, TrackerShape
  <1>7. MirrorInv'
    <2> SUFFICES ASSUME NEW c \in valid \ exposed PROVE Pending(c) \/ "mirror" \in fresh'[c]
      BY <1>2, <1>3 DEF MirrorInv
    <2>1. CASE c = gpu.cell
      BY <1>0, <1>5, <2>1 DEF FreshInv, UploadInv
    <2>2. CASE c # gpu.cell
      BY <1>0, <1>5, <2>2 DEF FreshInv, MirrorInv
    <2> QED
      BY <2>1, <2>2
  <1>8. RamInv'
    BY <1>2, <1>3, <1>4, <1>5 DEF FreshInv, RamInv, RamIsCurrent
  <1>9. UploadInv' /\ ReadbackInv'
    BY <1>0, <1>1, <1>2, <1>4 DEF FreshInv, UploadInv, ReadbackInv
  <1>10. RequestInv'
    BY <1>0, <1>1, <1>2, <1>4, <1>5 DEF FreshInv, RequestInv, At
  <1> QED
    BY <1>6, <1>7, <1>8, <1>9, <1>10 DEF FreshInv

\* The rollback gives the cell back to the CPU, which holds its newest bytes.
LEMMA UploadFailFresh ==
  ASSUME BoundaryInv, FreshInv, UploadFail
  PROVE  FreshInv'
  <1>1. /\ gpu.at \in {"copy", "submit"} /\ gpu.cell \in Cells /\ gpu.cell \notin gpuDirty /\ valid \subseteq Cells
    BY DEF BoundaryInv, MirrorType, GpuShape, FreshInv, UploadInv, UploadFail
  <1>2. /\ Return /\ UNCHANGED <<cpu, newest, synced, gpuDirty, fresh, exposed>>
        /\ valid' = valid \ {gpu.cell} /\ cpuDirty' = cpuDirty \cup {gpu.cell}
    BY DEF UploadFail
  <1>3. TrackerShape'
    BY <1>1, <1>2 DEF FreshInv, TrackerShape
  <1> QED
    BY <1>1, <1>2, <1>3, ReturnFresh

LEMMA EndFresh ==
  ASSUME BoundaryInv, FreshInv, UploadRefused \/ Draw \/ DownloadFail \/ Visible
  PROVE  FreshInv'
  <1>1. /\ Return /\ UNCHANGED <<cpu, newest, synced, cpuDirty, gpuDirty, valid, fresh, exposed>>
        /\ gpu.at \notin {"copy", "submit"} /\ valid \subseteq Cells
    BY DEF UploadRefused, Draw, DownloadFail, Visible, Uploaded, Downloaded, GpuAt, tracker, BoundaryInv, MirrorType
  <1>2. TrackerShape'
    BY <1>1 DEF FreshInv, TrackerShape
  <1> QED
    BY <1>1, <1>2, ReturnFresh

\* GPU work owns its cells, but for a store to one that is still pending.
LEMMA GpuWriteFresh ==
  ASSUME BoundaryInv, FreshInv, GpuWrite
  PROVE  FreshInv'
  <1>0. gpu \in GpuRecord /\ gpu.at = "stage" /\ valid \subseteq Cells /\ gpu.req \subseteq Cells /\ gpu.req \subseteq GpuCells
    BY DEF BoundaryInv, MirrorType, GpuShape, GpuRecord, GpuWrite, Uploaded, GpuAt
  <1>1. \/ gpu'.at = "idle" /\ gpu'.req = {} /\ raced' = {}
        \/ gpu'.at = "collect" /\ gpu'.req = gpu.req /\ gpu'.then = "readback" /\ raced' = raced
    <2>1. CASE gpu.op = "resolve"
      <3>1. raced' = raced
        BY <2>1 DEF GpuWrite
      <3> QED
        BY <1>0, <2>1, <3>1, ResolveBecomes DEF GpuBecomes
    <2>2. CASE gpu.op # "resolve"
      <3>1. Return
        BY <2>2 DEF GpuWrite
      <3> QED
        BY <3>1, ReturnIdles DEF GpuBecomes, Return
    <2> QED
      BY <2>1, <2>2
  <1>2. /\ UNCHANGED <<cpu, newest, synced, exposed>> /\ gpuDirty' = gpuDirty \cup gpu.req
        /\ cpuDirty' = cpuDirty \ gpu.req /\ valid' = valid \cup gpu.req
        /\ \A c \in Cells : fresh'[c] = IF c \notin gpu.req THEN fresh[c]
                                        ELSE IF Pending(c) THEN fresh[c] \ {"mirror"} ELSE {"mirror"}
    BY DEF GpuWrite
  <1>3. \A c : Pending(c)' <=> Pending(c)
    BY <1>2, SameAge
  <1>4. ~InWindow' /\ ~OwnWrite' /\ gpu'.at \notin Ingesting /\ ~Exact'
    BY <1>1 DEF InWindow, OwnWrite, Exact, Syncing, Ingesting
  <1>5. TrackerShape'
    BY <1>0, <1>2 DEF FreshInv, TrackerShape
  <1>6. MirrorInv'
    <2> SUFFICES ASSUME NEW c \in (valid \cup gpu.req) \ exposed PROVE Pending(c) \/ "mirror" \in fresh'[c]
      BY <1>2, <1>3 DEF MirrorInv
    <2>1. CASE c \in gpu.req
      BY <1>0, <1>2, <2>1
    <2>2. CASE c \notin gpu.req
      BY <1>0, <1>2, <2>2 DEF FreshInv, MirrorInv
    <2> QED
      BY <2>1, <2>2
  <1>7. RamInv'
    <2>1. RamIsCurrent'
      BY <1>2 DEF FreshInv, RamInv, RamIsCurrent
    <2>2. \A c \in Cells \ exposed : Pending(c) => "ram" \in fresh'[c]
      BY <1>2 DEF FreshInv, RamInv
    <2> QED
      BY <1>2, <1>3, <1>4, <2>1, <2>2 DEF RamInv
  <1>8. UploadInv' /\ ReadbackInv'
    BY <1>1, <1>4 DEF UploadInv, ReadbackInv
  <1>9. RequestInv'
    BY <1>0, <1>1, <1>2, <1>4 DEF FreshInv, RequestInv, At
  <1> QED
    BY <1>5, <1>6, <1>7, <1>8, <1>9 DEF FreshInv

\* Steps of a readback that move nothing but the operation.
LEMMA ReadbackMoves ==
  ASSUME FreshInv, UNCHANGED <<cpu, newest, synced, cpuDirty, gpuDirty, valid, fresh, raced, exposed>>,
         gpu.at \notin {"idle", "collect", "copy", "submit"}, gpu'.at \in {"download", "collect", "write", "close"},
         gpu'.req = gpu.req, ReadbackInv'
  PROVE  FreshInv'
  <1>1. \A c : Pending(c)' <=> Pending(c)
    BY SameAge
  <1>2. gpu'.at \notin Ingesting /\ ~Exact'
    BY DEF Ingesting, Exact
  <1>3. TrackerShape' /\ MirrorInv'
    BY <1>1 DEF FreshInv, TrackerShape, MirrorInv
  <1>4. RamInv'
    BY <1>1, <1>2 DEF FreshInv, RamInv, RamIsCurrent
  <1>5. UploadInv'
    BY DEF UploadInv
  <1>6. RequestInv'
    BY <1>2 DEF FreshInv, RequestInv, At
  <1> QED
    BY <1>3, <1>4, <1>5, <1>6 DEF FreshInv

LEMMA PlanReadbackFresh ==
  ASSUME BoundaryInv, FreshInv, PlanReadback
  PROVE  FreshInv'
  <1>0. gpu \in GpuRecord /\ gpu.at = "readback"
    BY DEF BoundaryInv, MirrorType, PlanReadback, GpuAt
  <1>1. gpu'.at = "download" /\ gpu'.req = gpu.req /\ gpu'.todo = gpuDirty \cap gpu.req /\ gpu'.cell = gpu.cell
    BY <1>0, PlansBecome DEF GpuBecomes
  <1>2. UNCHANGED <<cpu, newest, synced, cpuDirty, gpuDirty, valid, fresh, raced, exposed>>
    BY DEF PlanReadback, tracker, ghosts
  <1>3. ~InWindow' /\ ~OwnWrite'
    BY <1>1 DEF InWindow, OwnWrite, Syncing, Ingesting
  <1>4. ReadbackInv'
    BY <1>1, <1>2, <1>3 DEF ReadbackInv
  <1> QED
    BY <1>0, <1>1, <1>2, <1>4, ReadbackMoves

\* What the GPU owns is in the mirror, or a store to it is pending.
LEMMA DownloadCopyFresh ==
  ASSUME BoundaryInv, FreshInv, NEW x \in Cells, DownloadCopy(x)
  PROVE  FreshInv'
  <1>0. gpu \in GpuRecord /\ gpu.at = "download" /\ x \in gpu.todo /\ valid \subseteq Cells
    BY DEF BoundaryInv, MirrorType, DownloadCopy, GpuAt
  <1>1. gpu'.at = "open" /\ gpu'.req = gpu.req /\ gpu'.todo = gpu.todo \ {x} /\ gpu'.cell = x
    BY <1>0, TakesBecome DEF GpuBecomes
  <1>2. UNCHANGED <<cpu, newest, synced, cpuDirty, gpuDirty, valid, raced, exposed>>
    BY DEF DownloadCopy, tracker
  <1>3. \A c : Pending(c)' <=> Pending(c)
    BY <1>2, SameAge
  <1>4. ~InWindow' /\ ~OwnWrite' /\ gpu'.at \notin Ingesting /\ ~Exact'
    BY <1>1 DEF InWindow, OwnWrite, Exact, Syncing, Ingesting
  <1>5. /\ \A c \in Cells : "ram" \in fresh'[c] <=> "ram" \in fresh[c]
        /\ \A c \in Cells : "mirror" \in fresh'[c] <=> "mirror" \in fresh[c]
        /\ "stage" \in fresh'[x] <=> "mirror" \in fresh[x]
    BY CopiedOnly DEF DownloadCopy, BoundaryInv, MirrorType, Places
  <1>6. TrackerShape' /\ MirrorInv'
    BY <1>0, <1>1, <1>2, <1>3, <1>5 DEF FreshInv, TrackerShape, MirrorInv
  <1>7. RamInv'
    BY <1>2, <1>3, <1>4, <1>5 DEF FreshInv, RamInv, RamIsCurrent
  <1>8. UploadInv'
    BY <1>1 DEF UploadInv
  <1>9. ReadbackInv'
    <2>1. gpuDirty \cap gpu.req \subseteq gpu.todo
      BY <1>0 DEF FreshInv, ReadbackInv
    <2>2. x \in gpuDirty => x \in exposed \/ Pending(x) \/ "mirror" \in fresh[x]
      BY <1>0 DEF FreshInv, TrackerShape, MirrorInv
    <2> QED
      BY <1>1, <1>2, <1>3, <1>4, <1>5, <2>1, <2>2 DEF ReadbackInv
  <1>10. RequestInv'
    BY <1>0, <1>1, <1>2, <1>4 DEF FreshInv, RequestInv, At
  <1> QED
    BY <1>6, <1>7, <1>8, <1>9, <1>10 DEF FreshInv

LEMMA WindowFresh ==
  ASSUME BoundaryInv, FreshInv, WindowOpen \/ Prepare \/ WindowClose
  PROVE  FreshInv'
  <1>0. gpu \in GpuRecord
    BY DEF BoundaryInv, MirrorType
  <1>1. UNCHANGED <<cpu, newest, synced, cpuDirty, gpuDirty, valid, fresh, raced, exposed>>
    BY DEF WindowOpen, Prepare, WindowClose, tracker, ghosts
  <1>2. \A c : Pending(c)' <=> Pending(c)
    BY <1>1, SameAge
  <1>3. CASE WindowOpen
    <2>1. gpu.at = "open"
      BY <1>3 DEF WindowOpen, GpuAt
    <2>2. /\ gpu'.at = "collect" /\ gpu'.then = "prepare" /\ gpu'.req = gpu.req /\ gpu'.todo = gpu.todo
          /\ gpu'.cell = gpu.cell
      BY <1>0, <1>3, OpenBecomes DEF GpuBecomes
    <2>3. ReadbackInv'
      BY <1>1, <1>2, <2>1, <2>2 DEF FreshInv, ReadbackInv, OwnWrite, Ingesting
    <2> QED
      BY <1>1, <2>1, <2>2, <2>3, ReadbackMoves
  <1>4. CASE Prepare
    <2>1. gpu.at = "prepare" /\ InWindow
      BY <1>4 DEF Prepare, GpuAt, InWindow
    <2>2. PICK l \in {"write", "close"} : GpuGoto(l) /\ (l = "write" <=> gpu.cell \in gpuDirty)
      BY <1>4 DEF Prepare
    <2>3. Moves(l)
      BY <1>0, <2>2, GotoMoves
    <2>4. ReadbackInv'
      BY <1>1, <1>2, <2>1, <2>2, <2>3 DEF FreshInv, ReadbackInv, OwnWrite, Ingesting, Moves, GpuBecomes
    <2> QED
      BY <1>1, <2>1, <2>2, <2>3, <2>4, ReadbackMoves DEF Moves, GpuBecomes
  <1>5. CASE WindowClose
    <2>1. gpu.at = "close" /\ InWindow
      BY <1>5 DEF WindowClose, GpuAt, InWindow
    <2>2. gpu'.at = "download" /\ gpu'.req = gpu.req /\ gpu'.todo = gpu.todo /\ gpu'.cell = None
      BY <1>0, <1>5, LeavesBecome DEF GpuBecomes
    <2>3. ~InWindow' /\ ~OwnWrite'
      BY <2>2 DEF InWindow, OwnWrite, Syncing, Ingesting
    <2>4. ReadbackInv'
      BY <1>1, <2>1, <2>2, <2>3 DEF FreshInv, ReadbackInv
    <2> QED
      BY <1>1, <2>1, <2>2, <2>4, ReadbackMoves
  <1> QED
    BY <1>3, <1>4, <1>5

\* The bytes that were read back are the cell's newest, unless a native store
\* to it is pending, and then it is exposed.
LEMMA WriteFresh ==
  ASSUME BoundaryInv, PublishInv, FreshInv, WindowWrite
  PROVE  FreshInv'
  <1>0. /\ gpu \in GpuRecord /\ gpu.at = "write" /\ InWindow /\ gpu.cell \in Cells /\ valid \subseteq Cells
        /\ gpu.cell \in gpuDirty /\ synced = epoch /\ EpochTypes /\ CellTypes
    BY TypesHold DEF BoundaryInv, MirrorType, GpuShape, InWindow, WindowWrite, GpuAt, FreshInv, ReadbackInv, PublishInv,
                     LevelInv, MirrorTypes
  <1>12. exposed' = exposed \cup Overwritten
    BY DEF WindowWrite
  <1>1. gpu.cell \in exposed' \/ "stage" \in fresh[gpu.cell]
    BY <1>0, <1>12 DEF FreshInv, ReadbackInv, Overwritten
  <1>2. PICK e \in Nat : e = epoch + 1
    BY <1>0 DEF EpochTypes
  <1>3. /\ gpu'.at \in {"before", "pages"} /\ gpu'.then = "commit" /\ gpu'.through = e /\ gpu'.found = {}
        /\ gpu'.req = gpu.req /\ gpu'.todo = gpu.todo /\ gpu'.cell = gpu.cell
    <2>1. Ingest(e, e, "commit") /\ IngestLabel(e, "commit") \in {"before", "pages"}
      BY <1>0, <1>2 DEF WindowWrite, IngestLabel, EpochTypes
    <2> QED
      BY <1>0, <2>1, IngestBecomes DEF GpuBecomes
  <1>4. UNCHANGED <<cpu, newest, synced, cpuDirty, gpuDirty, valid, raced>> /\ exposed \subseteq exposed'
    BY DEF WindowWrite, tracker
  <1>5. \A c : Pending(c)' <=> Pending(c)
    BY <1>4, SameAge
  <1>6. /\ gpu.cell \in exposed' \/ "ram" \in fresh'[gpu.cell]
        /\ \A c \in Cells : c # gpu.cell => fresh'[c] = fresh[c]
        /\ \A c \in Cells : "mirror" \in fresh'[c] <=> "mirror" \in fresh[c]
        /\ gpu.cell \in exposed' \/ "stage" \in fresh'[gpu.cell]
    BY <1>0, <1>1, CopiedOnly DEF WindowWrite, BoundaryInv, MirrorType, Places
  <1>7. TrackerShape' /\ MirrorInv'
    BY <1>0, <1>3, <1>4, <1>5, <1>6 DEF FreshInv, TrackerShape, MirrorInv
  <1>8. RamInv'
    BY <1>3, <1>4, <1>5, <1>6 DEF FreshInv, RamInv, RamIsCurrent
  <1>9. UploadInv'
    BY <1>3 DEF UploadInv
  <1>10. ReadbackInv'
    BY <1>0, <1>3, <1>4, <1>6 DEF FreshInv, ReadbackInv
  <1>11. RequestInv'
    <2>1. \A c \in gpu.req \ (raced \cup exposed) : newest[c] # None /\ newest[c] <= e
      <3>1. \A c \in gpu.req \ (raced \cup exposed) : c \in Cells /\ newest[c] # None
        BY <1>0 DEF FreshInv, RequestInv, GpuRecord
      <3> QED
        BY <1>0, <1>2, <3>1 DEF PublishInv, EpochsBounded, CellTypes, EpochTypes
    <2> QED
      BY <1>0, <1>3, <1>4, <2>1 DEF FreshInv, RequestInv, At
  <1> QED
    BY <1>7, <1>8, <1>9, <1>10, <1>11 DEF FreshInv

LEMMA DownloadCommitFresh ==
  ASSUME BoundaryInv, FreshInv, DownloadCommit
  PROVE  FreshInv'
  <1>0. gpu \in GpuRecord /\ gpu.at = "commit" /\ InWindow /\ gpu.cell \in Cells /\ valid \subseteq Cells
    BY DEF BoundaryInv, MirrorType, GpuShape, InWindow, DownloadCommit, GpuAt
  <1>1. gpu'.at = "close" /\ gpu'.req = gpu.req /\ gpu'.todo = gpu.todo /\ gpu'.cell = gpu.cell
    BY <1>0, GotoMoves DEF DownloadCommit, Moves, GpuBecomes
  <1>2. /\ UNCHANGED <<cpu, newest, synced, cpuDirty, fresh, raced, exposed>> /\ gpuDirty' = gpuDirty \ {gpu.cell}
        /\ valid' = (valid \cup {gpu.cell}) \ (cpuDirty \cap {gpu.cell})
    BY DEF DownloadCommit, ghosts
  <1>3. \A c : Pending(c)' <=> Pending(c)
    BY <1>2, SameAge
  <1>4. ~OwnWrite' /\ gpu'.at \notin Ingesting /\ ~Exact'
    BY <1>1 DEF OwnWrite, Ingesting, Exact
  <1>5. valid' = valid
    BY <1>0, <1>2 DEF FreshInv, TrackerShape
  <1>6. TrackerShape' /\ MirrorInv'
    BY <1>0, <1>1, <1>2, <1>3, <1>5 DEF FreshInv, TrackerShape, MirrorInv
  <1>7. RamInv'
    <2>1. gpu.cell \in exposed \/ "ram" \in fresh[gpu.cell]
      BY <1>0 DEF FreshInv, ReadbackInv
    <2> QED
      BY <1>2, <1>3, <1>4, <2>1 DEF FreshInv, RamInv, RamIsCurrent
  <1>8. UploadInv'
    BY <1>1 DEF UploadInv
  <1>9. ReadbackInv'
    BY <1>0, <1>1, <1>2, <1>4 DEF FreshInv, ReadbackInv
  <1>10. RequestInv'
    BY <1>0, <1>1, <1>2, <1>4 DEF FreshInv, RequestInv, At
  <1> QED
    BY <1>6, <1>7, <1>8, <1>9, <1>10 DEF FreshInv

LEMMA FreshStep ==
  ASSUME BoundaryInv, PublishInv, FreshInv, [Next]_vars
  PROVE  FreshInv'
  <1>1. CASE Synchronize \/ Snapshot
    BY <1>1, CollectFresh, WaitFresh, LookupFresh, AfterFresh, PagesFresh DEF Synchronize
  <1>2. CASE Upload \/ \E c \in Cells : UploadCommit(c)
    BY <1>2, PlanUploadFresh, UploadCommitFresh, UploadCopyFresh, UploadSubmitFresh, UploadFailFresh, EndFresh,
       GpuWriteFresh DEF Upload
  <1>3. CASE Readback \/ \E c \in Cells : DownloadCopy(c)
    BY <1>3, PlanReadbackFresh, DownloadCopyFresh, EndFresh, WindowFresh, WriteFresh, DownloadCommitFresh DEF Readback
  <1>4. ASSUME NEW op \in Ops, NEW cells \in Requests, Request(op, cells) PROVE FreshInv'
    BY <1>4, RequestFresh, WriterAssumption
  <1>5. ASSUME NEW w \in Writers, Store(w) PROVE FreshInv'
    BY <1>5, StoreFresh
  <1>6. CASE UNCHANGED vars
    <2>1. UNCHANGED <<synced, cpuDirty, gpuDirty, valid, gpu, fresh, newest, raced, cpu, journal, exposed>>
      BY <1>6 DEF vars, coherency, tracker, ghosts
    <2>4. Exact' <=> Exact
      BY <2>1 DEF Exact, Entry
    <2>2. AllRaced'
      BY <2>1 DEF AllRaced, FreshInv, RequestInv, At
    <2>3. \A c \in Cells : Pending(c)' <=> Pending(c)
      BY <2>1, SameAge
    <2> QED
      BY <2>1, <2>2, <2>3, <2>4, CellsOfGpu, QuietFresh
  <1> QED
    BY <1>1, <1>2, <1>3, <1>4, <1>5, <1>6 DEF Next, Gpu

LEMMA FreshInit ==
  ASSUME Init PROVE FreshInv
  <1>1. /\ cpuDirty = Cells /\ gpuDirty = {} /\ valid = {} /\ gpu.at = "idle" /\ gpu.req = {}
        /\ \A c \in Cells : fresh[c] = {"ram"}
    BY DEF Init, IdleGpu
  <1>2. ~InWindow /\ ~OwnWrite /\ gpu.at \notin Ingesting /\ ~Exact
    BY <1>1 DEF InWindow, OwnWrite, Exact, Syncing, Ingesting
  <1>3. TrackerShape /\ MirrorInv /\ RamInv
    BY <1>1, <1>2 DEF TrackerShape, MirrorInv, RamInv, RamIsCurrent
  <1>4. UploadInv /\ ReadbackInv /\ RequestInv
    BY <1>1, <1>2 DEF UploadInv, ReadbackInv, RequestInv
  <1> QED
    BY <1>3, <1>4 DEF FreshInv

-----------------------------------------------------------------------------
(***************************************************************************)
(* The theorems about bytes.                                               *)
(***************************************************************************)

\* The tracker's claims are true at every moment, but for exposed cells: who
\* holds the newest bytes, what is pending, and what an operation has in hand.
THEOREM FreshInvHolds == Spec => [](BoundaryInv /\ PublishInv /\ FreshInv)
  <1> DEFINE Inv == BoundaryInv /\ PublishInv /\ FreshInv
  <1>1. Init => Inv
    BY BoundaryInit, PublishInit, FreshInit
  <1>2. Inv /\ [Next]_vars => Inv'
    BY BoundaryStep, PublishStep, FreshStep
  <1> QED
    BY <1>1, <1>2, PTL DEF Spec

\* Guest RAM holds the newest bytes of every cell that the tracker does not
\* call GPU-dirty, unless one of the steps listed under Gaps reached the cell:
\* no store and no GPU output is lost to the CPU in any other way.
THEOREM RamCurrentHolds == Spec => []RamIsCurrent
  <1>1. BoundaryInv /\ PublishInv /\ FreshInv => RamIsCurrent
    BY DEF FreshInv, RamInv
  <1> QED
    BY <1>1, FreshInvHolds, PTL

\* The mirror holds the newest bytes of every cell that the tracker calls
\* valid and clean, unless a store to it is still to be taken in, its upload is
\* under way or a gap reached it: synchronization misses no other store for good.
THEOREM MirrorCurrentHolds == Spec => []MirrorIsCurrent
  <1>1. BoundaryInv /\ PublishInv /\ FreshInv => MirrorIsCurrent
    BY DEF FreshInv, MirrorInv, MirrorIsCurrent
  <1> QED
    BY <1>1, FreshInvHolds, PTL

\* A draw finds in the mirror, and the CPU after a readback finds in RAM, the
\* newest bytes of every requested cell that no store touched meanwhile and no
\* gap reached.
THEOREM RequestDeliversHolds == Spec => []RequestDelivers
  <1>1. BoundaryInv /\ PublishInv /\ FreshInv => RequestDelivers
    <2> SUFFICES ASSUME BoundaryInv, FreshInv PROVE RequestDelivers
      OBVIOUS
    <2>1. Uploaded => \A c \in gpu.req \ (raced \cup exposed) : "mirror" \in fresh[c]
      BY DEF Uploaded, GpuAt, FreshInv, RequestInv
    <2>2. Downloaded => \A c \in gpu.req \ (raced \cup exposed) : "ram" \in fresh[c]
      BY DEF Downloaded, GpuAt, FreshInv, ReadbackInv, RamInv, RamIsCurrent, BoundaryInv, MirrorType, GpuRecord
    <2> QED
      BY <2>1, <2>2 DEF RequestDelivers
  <1> QED
    BY <1>1, FreshInvHolds, PTL

=============================================================================
