------------------------------ MODULE GpuMirror ------------------------------
(***************************************************************************)
(* Coherency of guest RAM and the GPU's mirror of it: the epochs and the   *)
(* journal that stores publish (include/xenon/memory/coherency.hpp and     *)
(* publish_write_metadata of include/xenon/cpu/memory_port.hpp), the       *)
(* ownership tracker that consumes them (gpu_coherency.hpp), and the       *)
(* mirror that copies bytes both ways                                      *)
(* (src/graphics/vulkan/guest_memory_mirror.cpp).                          *)
(*                                                                         *)
(* Writers are the threads that store to RAM; one GPU thread runs every    *)
(* mirror operation.  A cell is the bytes one store writes, and ranges are *)
(* sets of cells.  Bytes are kept by their age only: fresh[c] is the set   *)
(* of places ("ram", "mirror", "stage": the staging buffers) that hold the *)
(* newest value of c.  The tracker's GPU generations are left out: one     *)
(* thread marks and reads back, so a planned generation never changes.     *)
(* The page fallback, the journal and the boundary have gaps: exposed is   *)
(* the set of cells that one of them has reached (the section Gaps).       *)
(* Opening the physical write window, and a store waiting for it, are one  *)
(* step each here; the module Reservations has the protocol.  Ordering     *)
(* domains and executable generations are not modelled.                    *)
(***************************************************************************)
EXTENDS Naturals, FiniteSets

CONSTANTS
    Cells,       \* the bytes of one store
    Page,        \* the 4 KiB physical page of each cell
    Word,        \* the word of cpu_dirty_page_bits_ that has a page's bit
    Writers,     \* threads that store to RAM
    Views,       \* assignments of a FastMemoryView, native or strict, to each
    Touches,     \* the cells each writer stores to
    Conditional, \* cells that strict writers also store to by stwcx.
    Paths,       \* the code paths stwcx. may take, of "fast" and "slow"
    GpuCells,    \* the cells GPU work writes
    Capacity,    \* kWriteJournalCapacity
    Requests,    \* the ranges that GPU operations name
    MaxEpoch,    \* bound, for each of Views: no store or GPU write starts at this epoch
    None

ASSUME PageAssumption == DOMAIN Page = Cells /\ DOMAIN Word = {Page[c] : c \in Cells}
ASSUME WriterAssumption ==
    /\ IsFiniteSet(Writers) /\ Views \subseteq [Writers -> {"native", "strict"}]
    /\ Touches \in [Writers -> SUBSET Cells]
    /\ Conditional \subseteq Cells /\ GpuCells \subseteq Cells
    /\ Paths \subseteq {"fast", "slow"} /\ Requests \subseteq SUBSET Cells
ASSUME BoundAssumption == Capacity \in Nat \ {0} /\ MaxEpoch \in [Views -> Nat]
ASSUME NoneAssumption == None \notin Cells \cup Nat

VARIABLES
    epoch,      \* write_epoch_
    pageEpoch,  \* page_epochs_
    journal,    \* write_journal_epochs_ and write_journal_ranges_
    writers,    \* active_writers_
    dirty,      \* cpu_dirty_page_bits_
    summary,    \* cpu_dirty_summary_bits_
    window,     \* a PhysicalWriteWindow is open
    view,       \* the FastMemoryView of each writer
    cpu,        \* each writer: at, path, cell, epoch, counted
    synced,     \* synchronized_epoch_
    cpuDirty,   \* cpu_dirty_
    gpuDirty,   \* gpu_dirty_
    valid,      \* device_valid_
    gpu,        \* the GPU thread's operation and where it is in it
    fresh,      \* history: the places that hold the newest bytes
    newest,     \* history: the epoch of a cell's newest store, None until it is collected
    raced,      \* history: cells stored to during the GPU operation
    exposed     \* history: cells that a gap of the protocol has reached

bits      == <<dirty, summary>>
coherency == <<epoch, pageEpoch, journal, writers, bits>>
tracker   == <<synced, cpuDirty, gpuDirty, valid>>
ghosts    == <<fresh, newest, raced, exposed>>
vars      == <<coherency, window, view, cpu, tracker, gpu, ghosts>>

Pages    == {Page[c] : c \in Cells}
Index(e) == e % Capacity
Places   == {"ram", "mirror", "stage"}
Words    == {Word[p] : p \in Pages}

IdleWriter == [at |-> "idle", path |-> None, cell |-> None, epoch |-> 0, counted |-> FALSE]

\* A GPU operation: what it is, the cells it asks for, those left to copy and
\* the one in hand; then the ingestion of CPU writes it is in (through an
\* epoch, the next to look up, an ignored one, the cells found, what follows).
IdleGpu ==
    [at |-> "idle", op |-> None, req |-> {}, todo |-> {}, cell |-> None,
     through |-> 0, next |-> 0, ignored |-> 0, found |-> {}, then |-> None]

\* GuestMemoryGpuCoherency::reset: everything is CPU-dirty and nothing is
\* valid on the device.
Init ==
    /\ epoch = 0
    /\ pageEpoch = [p \in Pages |-> 0]
    /\ journal = [i \in 0..(Capacity - 1) |-> [epoch |-> 0, cell |-> None]]
    /\ writers = 0
    /\ dirty = {} /\ summary = {}
    /\ window = FALSE
    /\ view \in Views
    /\ cpu = [w \in Writers |-> IdleWriter]
    /\ synced = 0
    /\ cpuDirty = Cells
    /\ gpuDirty = {}
    /\ valid = {}
    /\ gpu = IdleGpu
    /\ fresh = [c \in Cells |-> {"ram"}]
    /\ newest = [c \in Cells |-> 0]
    /\ raced = {} /\ exposed = {}

At(w, label) == cpu[w].at = label
Goto(w, label) == cpu' = [cpu EXCEPT ![w].at = label]
GpuAt(label) == gpu.at = label
GpuGoto(label) == gpu' = [gpu EXCEPT !.at = label]

\* A CPU store to c that the tracker has not taken in yet.
Taken(c) == newest[c] # None /\ newest[c] <= synced
Pending(c) == ~Taken(c) \/ \E w \in Writers : cpu[w].cell = c /\ cpu[w].at \in {"epoch", "mark"}

-----------------------------------------------------------------------------
(***************************************************************************)
(* Gaps: what the code does not order.  Each is the set of cells that one  *)
(* step reaches through it, and such a cell stays exposed.                 *)
(***************************************************************************)

Ingesting == {"before", "range", "after", "pages"}

\* The epochs that stores are compared with: what is taken in, and the
\* boundary once it has been read.
Limits == {synced} \cup IF gpu.at \in {"check"} \cup Ingesting THEN {gpu.through} ELSE {}

\* StorePage: a page's epoch goes back below a limit that a newer store to the
\* page is above.
LatePage(w) ==
    {c \in Cells : /\ Page[c] = Page[cpu[w].cell] /\ newest[c] # None
                   /\ \E e \in Limits : cpu[w].epoch <= e /\ e < newest[c]}

\* Stores that are between the range and the epoch of a journal slot.
InSlot(i) == {w \in Writers : At(w, "journal") /\ Index(cpu[w].epoch) = i}

\* StoreRange: a slot is shared with a store that has its range there already,
\* or with a newer one.
LappedSlot(w) ==
    LET i == Index(cpu[w].epoch) IN
    {cpu[v].cell : v \in InSlot(i)}
    \cup IF InSlot(i) # {} \/ journal[i].epoch > cpu[w].epoch THEN {cpu[w].cell} ELSE {}

\* JournalRange: the range read may be that of another store, whose epoch is
\* still to come.
LappedRead ==
    {c \in Cells : /\ newest[c] = gpu.next
                   /\ \E w \in InSlot(Index(gpu.next)) : cpu[w].epoch # gpu.next}

\* BoundaryCheck: stores below the boundary that nothing counts.
Uncounted ==
    {cpu[w].cell : w \in {v \in Writers : /\ At(v, "page") /\ ~cpu[v].counted
                                          /\ cpu[v].epoch <= gpu.through}}

\* IngestPages: GPU output on a page that is taken for a store to another cell.
Neighbours ==
    {c \in gpuDirty : ~Pending(c) /\ \E d \in Cells : Page[d] = Page[c] /\ ~Taken(d)}

\* WindowWrite: a native store came after the collection; no window stops it.
Overwritten == {c \in {gpu.cell} : Pending(c)}

\* Collect: cells stored to whose page is marked in a word that is not in the
\* summary yet, because the thread that made the word nonzero has still to put
\* it there.  The stores of the others are done, and the collection misses them.
Marked == {p \in dirty : Word[p] \in summary}
Unannounced == {c \in Cells : newest[c] = None /\ Page[c] \notin Marked}

-----------------------------------------------------------------------------
(***************************************************************************)
(* Stores                                                                  *)
(***************************************************************************)

\* The bytes of c in RAM are newer than any other copy.
Written(c) == fresh' = [fresh EXCEPT ![c] = {"ram"}]

\* A store-conditional holds the reservation commit gate until it returns.
Committing == \E w \in Writers : cpu[w].path \in {"fast", "slow"}

Begin(w, c, path, label) ==
    /\ At(w, "idle") /\ epoch < MaxEpoch[view]
    /\ cpu' = [cpu EXCEPT ![w] = [at |-> label, path |-> path, cell |-> c, epoch |-> 0,
                                  counted |-> path = "plain"]]
    /\ raced' = IF gpu.at = "idle" THEN raced ELSE raced \cup {c}

\* enter_write: counted once no window is open and, on a granule that has
\* been reserved, no conditional store is committing.
StoreEnter(w, c) ==
    /\ view[w] = "strict" /\ c \in Touches[w]
    /\ ~window
    /\ c \in Conditional => ~Committing
    /\ Begin(w, c, "plain", "store")
    /\ writers' = writers + 1
    /\ UNCHANGED <<epoch, pageEpoch, journal, bits, window, tracker, gpu, fresh, newest, exposed>>

\* store_conditional32/64 of a session without native access: the commit gate
\* is taken and the writers have drained.  It does not enter as a writer itself.
ConditionalEnter(w, c, path) ==
    /\ \A v \in Writers : view[v] = "strict"
    /\ c \in Touches[w] \cap Conditional
    /\ ~window /\ ~Committing /\ writers = 0
    /\ Begin(w, c, path, "store")
    /\ UNCHANGED <<coherency, window, tracker, gpu, fresh, newest, exposed>>

StoreBytes(w) ==
    /\ At(w, "store") /\ Goto(w, "epoch")
    /\ Written(cpu[w].cell)
    /\ UNCHANGED <<coherency, window, tracker, gpu, newest, raced, exposed>>

\* AddressSpace's conditional store publishes through mark_write, which counts
\* a writer first; MemoryAccessContext's calls publish_write_metadata, which
\* does not.
ConditionalCount(w) ==
    /\ At(w, "epoch") /\ cpu[w].path = "slow" /\ ~cpu[w].counted
    /\ cpu' = [cpu EXCEPT ![w].counted = TRUE]
    /\ writers' = writers + 1
    /\ UNCHANGED <<epoch, pageEpoch, journal, bits, window, tracker, gpu, ghosts>>

\* publish_write_metadata: a new epoch, then the page's epoch, the journal's
\* range and last the journal's epoch.
StoreEpoch(w) ==
    /\ At(w, "epoch")
    /\ cpu[w].path = "slow" => cpu[w].counted
    /\ epoch' = epoch + 1
    /\ cpu' = [cpu EXCEPT ![w].at = "page", ![w].epoch = epoch + 1]
    /\ newest' = [newest EXCEPT ![cpu[w].cell] = IF @ = None THEN None ELSE epoch + 1]
    /\ UNCHANGED <<pageEpoch, journal, writers, bits, window, tracker, gpu, fresh, raced, exposed>>

StorePage(w) ==
    /\ At(w, "page") /\ Goto(w, "range")
    /\ pageEpoch' = [pageEpoch EXCEPT ![Page[cpu[w].cell]] = cpu[w].epoch]
    /\ exposed' = exposed \cup LatePage(w)
    /\ UNCHANGED <<epoch, journal, writers, bits, window, tracker, gpu, fresh, newest, raced>>

StoreRange(w) ==
    /\ At(w, "range") /\ Goto(w, "journal")
    /\ journal' = [journal EXCEPT ![Index(cpu[w].epoch)].cell = cpu[w].cell]
    /\ exposed' = exposed \cup LappedSlot(w)
    /\ UNCHANGED <<epoch, pageEpoch, writers, bits, window, tracker, gpu, fresh, newest, raced>>

\* The journal's epoch, and finish_write's release of the count.
StoreFinish(w) ==
    /\ At(w, "journal")
    /\ journal' = [journal EXCEPT ![Index(cpu[w].epoch)].epoch = cpu[w].epoch]
    /\ writers' = IF cpu[w].counted THEN writers - 1 ELSE writers
    /\ cpu' = [cpu EXCEPT ![w] = IdleWriter]
    /\ UNCHANGED <<epoch, pageEpoch, bits, window, tracker, gpu, ghosts>>

\* A native store: the bytes, and then the page's dirty bit.  Nothing holds
\* it back, and nothing counts it.
NativeStore(w, c) ==
    /\ view[w] = "native" /\ c \in Touches[w]
    /\ Begin(w, c, "native", "mark")
    /\ Written(c)
    /\ UNCHANGED <<coherency, window, tracker, gpu, newest, exposed>>

\* mark_cpu_dirty_pages: the page's bit is set.  Only who makes the word
\* nonzero goes on to set the word's summary bit; everybody else returns.
NativeMark(w) ==
    LET page  == Page[cpu[w].cell]
        first == \A p \in dirty : Word[p] # Word[page]
    IN  /\ At(w, "mark")
        /\ dirty' = dirty \cup {page}
        /\ newest' = [newest EXCEPT ![cpu[w].cell] = None]
        /\ IF first THEN Goto(w, "summary") ELSE cpu' = [cpu EXCEPT ![w] = IdleWriter]
        /\ UNCHANGED <<epoch, pageEpoch, journal, writers, summary, window, tracker, gpu, fresh,
                       raced, exposed>>

NativeSummary(w) ==
    /\ At(w, "summary")
    /\ summary' = summary \cup {Word[Page[cpu[w].cell]]}
    /\ cpu' = [cpu EXCEPT ![w] = IdleWriter]
    /\ UNCHANGED <<epoch, pageEpoch, journal, writers, dirty, window, tracker, gpu, ghosts>>

Store(w) ==
    \/ \E c \in Cells : StoreEnter(w, c) \/ NativeStore(w, c)
    \/ \E c \in Conditional, path \in Paths : ConditionalEnter(w, c, path)
    \/ ConditionalCount(w) \/ StoreBytes(w) \/ StoreEpoch(w) \/ StorePage(w) \/ StoreRange(w)
    \/ StoreFinish(w) \/ NativeMark(w) \/ NativeSummary(w)

-----------------------------------------------------------------------------
(***************************************************************************)
(* The epoch boundary and the ingestion of CPU writes.  Every mirror       *)
(* operation reads the boundary (current_epoch) and then ingests what was  *)
(* published up to it (ingest_cpu_writes_unlocked).                        *)
(***************************************************************************)

\* collect_cpu_dirty_pages: the marked pages of the words in the summary get a
\* new epoch, which has no journal entry.  Only the GPU thread collects, and a
\* mark that falls between its steps counts as before or after all of them.
Collected ==
    /\ summary' = {}
    /\ dirty' = dirty \ Marked
    /\ IF Marked = {} THEN UNCHANGED <<epoch, pageEpoch, newest>>
       ELSE /\ epoch' = epoch + 1
            /\ newest' = [c \in Cells |-> IF newest[c] = None /\ Page[c] \in Marked THEN epoch + 1
                                          ELSE newest[c]]
            /\ pageEpoch' = [p \in Pages |-> IF p \in Marked THEN epoch + 1 ELSE pageEpoch[p]]

\* current_epoch outside a mirror operation (texture dirty tracking).
Snapshot ==
    /\ GpuAt("idle") /\ summary # {}
    /\ Collected
    /\ UNCHANGED <<journal, writers, window, cpu, tracker, gpu, fresh, raced, exposed>>

\* Mutant: the native stores' dirty bits are not collected.
CollectNothing ==
    /\ GpuAt("collect") /\ GpuGoto("wait")
    /\ UNCHANGED <<coherency, window, cpu, tracker, ghosts>>

\* current_epoch: collect, then read the epoch between two moments without a
\* counted writer.
Collect ==
    /\ GpuAt("collect") /\ GpuGoto("wait")
    /\ Collected
    /\ exposed' = exposed \cup Unannounced
    /\ UNCHANGED <<journal, writers, window, cpu, tracker, fresh, raced>>

BoundaryWait ==
    /\ GpuAt("wait") /\ writers = 0 /\ GpuGoto("read")
    /\ UNCHANGED <<coherency, window, cpu, tracker, ghosts>>

BoundaryRead ==
    /\ GpuAt("read")
    /\ gpu' = [gpu EXCEPT !.at = "check", !.through = epoch]
    /\ UNCHANGED <<coherency, window, cpu, tracker, ghosts>>

\* Ingestion through an epoch: nothing to do, exact while the journal still
\* reaches back, by whole pages otherwise.
Ingest(through, ignored, then) ==
    gpu' = [gpu EXCEPT
              !.at = IF through <= synced THEN then
                     ELSE IF through - synced > Capacity THEN "pages"
                     ELSE "before",
              !.through = through, !.next = synced + 1, !.ignored = ignored,
              !.found = {}, !.then = then]

\* Mutant: the epoch is taken without looking for writers again.
BoundaryUnchecked ==
    /\ GpuAt("check")
    /\ Ingest(gpu.through, 0, gpu.then)
    /\ exposed' = exposed \cup Uncounted
    /\ UNCHANGED <<coherency, window, cpu, tracker, fresh, newest, raced>>

BoundaryCheck ==
    /\ GpuAt("check")
    /\ IF writers = 0 THEN Ingest(gpu.through, 0, gpu.then) /\ exposed' = exposed \cup Uncounted
       ELSE GpuGoto("wait") /\ UNCHANGED exposed
    /\ UNCHANGED <<coherency, window, cpu, tracker, fresh, newest, raced>>

\* mark_cpu_writes_unlocked: CPU writes take the cells from the GPU.
Apply(cells) ==
    /\ gpuDirty' = gpuDirty \ cells
    /\ valid' = valid \ cells
    /\ cpuDirty' = cpuDirty \cup cells
    /\ synced' = gpu.through

Entry == journal[Index(gpu.next)]

\* collect_exact_dirty_writes, one journal entry: its epoch, its range, its
\* epoch again.
JournalBefore ==
    /\ GpuAt("before")
    /\ GpuGoto(IF Entry.epoch = gpu.next THEN "range" ELSE "pages")
    /\ UNCHANGED <<coherency, window, cpu, tracker, ghosts>>

JournalRange ==
    /\ GpuAt("range")
    /\ gpu' = [gpu EXCEPT
                 !.at = "after",
                 !.found = IF gpu.next = gpu.ignored THEN @ ELSE @ \cup {Entry.cell}]
    /\ exposed' = exposed \cup LappedRead
    /\ UNCHANGED <<coherency, window, cpu, tracker, fresh, newest, raced>>

JournalAfter ==
    LET exact == Entry.epoch = gpu.next
        last  == gpu.next = gpu.through
    IN  /\ GpuAt("after")
        /\ gpu' = [gpu EXCEPT !.at = IF ~exact THEN "pages" ELSE IF last THEN gpu.then ELSE "before",
                              !.next = @ + 1]
        /\ IF exact /\ last THEN Apply(gpu.found) ELSE UNCHANGED tracker
        /\ UNCHANGED <<coherency, window, cpu, ghosts>>

\* collect_dirty_ranges: every cell of every page whose epoch is newer.
IngestPages ==
    /\ GpuAt("pages") /\ GpuGoto(gpu.then)
    /\ Apply({c \in Cells : pageEpoch[Page[c]] > synced})
    /\ exposed' = exposed \cup Neighbours
    /\ UNCHANGED <<coherency, window, cpu, fresh, newest, raced>>

-----------------------------------------------------------------------------
(***************************************************************************)
(* The mirror's operations.  A draw ("read") uploads what it reads; an     *)
(* export also writes its cells and keeps them on the device; a resolve    *)
(* writes them and reads them back; "visible" reads back.                  *)
(***************************************************************************)

Ops == {"read", "export", "resolve", "visible"}
Writes(op) == op \in {"export", "resolve"}

Request(op, cells) ==
    /\ GpuAt("idle")
    /\ Writes(op) => cells \subseteq GpuCells /\ epoch < MaxEpoch[view]
    /\ gpu' = [IdleGpu EXCEPT !.at = "collect", !.op = op, !.req = cells,
                              !.then = IF op = "visible" THEN "readback" ELSE "upload"]
    /\ raced' = {cpu[w].cell : w \in {v \in Writers : ~At(v, "idle")}}
    /\ UNCHANGED <<coherency, window, cpu, tracker, fresh, newest, exposed>>

\* The operation returns, or gives up with an error.
Return ==
    /\ gpu' = IdleGpu
    /\ raced' = {}

\* plan_upload: CPU-new cells and cells never made valid on the device.
PlanUpload ==
    /\ GpuAt("upload")
    /\ gpu' = [gpu EXCEPT !.at = "stage", !.todo = (cpuDirty \cap gpu.req) \cup (gpu.req \ valid)]
    /\ UNCHANGED <<coherency, window, cpu, tracker, ghosts>>

\* commit_cpu_upload, before the bytes are read.
UploadCommit(c) ==
    /\ GpuAt("stage") /\ c \in gpu.todo
    /\ gpu' = [gpu EXCEPT !.at = "copy", !.cell = c, !.todo = @ \ {c}]
    /\ cpuDirty' = cpuDirty \ {c}
    /\ valid' = valid \cup {c}
    /\ UNCHANGED <<coherency, window, cpu, synced, gpuDirty, ghosts>>

\* The copy of c from one place to another carries its age along.
Copied(c, from, to) ==
    fresh' = [fresh EXCEPT ![c] = IF from \in @ THEN @ \cup {to} ELSE @ \ {to}]

\* copy_physical_range into the upload ring
UploadCopy ==
    /\ GpuAt("copy") /\ GpuGoto("submit")
    /\ Copied(gpu.cell, "ram", "stage")
    /\ UNCHANGED <<coherency, window, cpu, tracker, newest, raced, exposed>>

\* The queue copies the staged bytes into the mirror, before any later work.
UploadSubmit ==
    /\ GpuAt("submit")
    /\ gpu' = [gpu EXCEPT !.at = "stage", !.cell = None]
    /\ Copied(gpu.cell, "stage", "mirror")
    /\ UNCHANGED <<coherency, window, cpu, tracker, newest, raced, exposed>>

\* Mutant: a failed upload is not rolled back.
UploadFailKept ==
    /\ gpu.at \in {"copy", "submit"}
    /\ Return
    /\ UNCHANGED <<coherency, window, cpu, tracker, fresh, newest, exposed>>

\* rollback_cpu_upload: the snapshot or the submission failed.
UploadFail ==
    /\ gpu.at \in {"copy", "submit"}
    /\ valid' = valid \ {gpu.cell}
    /\ cpuDirty' = cpuDirty \cup {gpu.cell}
    /\ Return
    /\ UNCHANGED <<coherency, window, cpu, synced, gpuDirty, fresh, newest, exposed>>

\* The upload ring has no room and the queue fails: nothing was committed.
UploadRefused ==
    /\ GpuAt("stage") /\ gpu.todo # {}
    /\ Return
    /\ UNCHANGED <<coherency, window, cpu, tracker, fresh, newest, exposed>>

Uploaded == GpuAt("stage") /\ gpu.todo = {}

\* The draw has been recorded; nothing was written.
Draw ==
    /\ Uploaded /\ ~Writes(gpu.op)
    /\ Return
    /\ UNCHANGED <<coherency, window, cpu, tracker, fresh, newest, exposed>>

\* GPU work writes its cells in the mirror (mark_gpu_write).  A CPU store to
\* the same cell that is still pending is not ordered with it: the code gives
\* the cell to the CPU, and so does fresh.
GpuWrite ==
    /\ Uploaded /\ Writes(gpu.op)
    /\ gpuDirty' = gpuDirty \cup gpu.req
    /\ cpuDirty' = cpuDirty \ gpu.req
    /\ valid' = valid \cup gpu.req
    /\ fresh' = [c \in Cells |-> IF c \notin gpu.req THEN fresh[c]
                                 ELSE IF Pending(c) THEN fresh[c] \ {"mirror"}
                                 ELSE {"mirror"}]
    /\ IF gpu.op = "resolve"
       THEN /\ gpu' = [gpu EXCEPT !.at = "collect", !.then = "readback"]
            /\ UNCHANGED raced
       ELSE Return
    /\ UNCHANGED <<coherency, window, cpu, synced, newest, exposed>>

\* plan_readback: the cells the GPU owns.
PlanReadback ==
    /\ GpuAt("readback")
    /\ gpu' = [gpu EXCEPT !.at = "download", !.todo = gpuDirty \cap gpu.req]
    /\ UNCHANGED <<coherency, window, cpu, tracker, ghosts>>

\* The queue copies the mirror's bytes into the readback buffer; the CPU may
\* store to the same cell meanwhile.
DownloadCopy(c) ==
    /\ GpuAt("download") /\ c \in gpu.todo
    /\ gpu' = [gpu EXCEPT !.at = "open", !.cell = c, !.todo = @ \ {c}]
    /\ Copied(c, "mirror", "stage")
    /\ UNCHANGED <<coherency, window, cpu, tracker, newest, raced, exposed>>

\* The copy failed, or the window could not be had.
DownloadFail ==
    /\ GpuAt("open")
    /\ Return
    /\ UNCHANGED <<coherency, window, cpu, tracker, fresh, newest, exposed>>

\* physical_write_window: strict writers have drained and wait outside.
WindowOpen ==
    /\ GpuAt("open") /\ writers = 0 /\ ~Committing
    /\ window' = TRUE
    /\ gpu' = [gpu EXCEPT !.at = "collect", !.then = "prepare"]
    /\ UNCHANGED <<coherency, cpu, tracker, ghosts>>

\* Mutant: the plan made before the copy is trusted.
PrepareStale ==
    /\ GpuAt("prepare") /\ GpuGoto("write")
    /\ UNCHANGED <<coherency, window, cpu, tracker, ghosts>>

\* prepare_gpu_download: only what the GPU still owns is written back.
Prepare ==
    /\ GpuAt("prepare")
    /\ GpuGoto(IF gpu.cell \in gpuDirty THEN "write" ELSE "close")
    /\ UNCHANGED <<coherency, window, cpu, tracker, ghosts>>

\* write_physical_exclusive publishes the write like any other store;
\* commit_gpu_download then ingests through that epoch, which it ignores.
WindowWrite ==
    /\ GpuAt("write")
    /\ epoch' = epoch + 1
    /\ pageEpoch' = [pageEpoch EXCEPT ![Page[gpu.cell]] = epoch + 1]
    /\ journal' = [journal EXCEPT ![Index(epoch + 1)] = [epoch |-> epoch + 1, cell |-> gpu.cell]]
    /\ Copied(gpu.cell, "stage", "ram")
    /\ Ingest(epoch + 1, epoch + 1, "commit")
    /\ exposed' = exposed \cup Overwritten
    /\ UNCHANGED <<writers, bits, window, cpu, tracker, newest, raced>>

\* commit_gpu_download
DownloadCommit ==
    /\ GpuAt("commit") /\ GpuGoto("close")
    /\ gpuDirty' = gpuDirty \ {gpu.cell}
    /\ valid' = (valid \cup {gpu.cell}) \ (cpuDirty \cap {gpu.cell})
    /\ UNCHANGED <<coherency, window, cpu, synced, cpuDirty, ghosts>>

WindowClose ==
    /\ GpuAt("close")
    /\ window' = FALSE
    /\ gpu' = [gpu EXCEPT !.at = "download", !.cell = None]
    /\ UNCHANGED <<coherency, cpu, tracker, ghosts>>

Downloaded == GpuAt("download") /\ gpu.todo = {}

\* make_cpu_visible returns.
Visible ==
    /\ Downloaded
    /\ Return
    /\ UNCHANGED <<coherency, window, cpu, tracker, fresh, newest, exposed>>

Synchronize ==
    \/ Collect \/ BoundaryWait \/ BoundaryRead \/ BoundaryCheck
    \/ JournalBefore \/ JournalRange \/ JournalAfter \/ IngestPages

Upload == PlanUpload \/ UploadCopy \/ UploadSubmit \/ UploadFail \/ UploadRefused \/ Draw \/ GpuWrite

Readback ==
    \/ PlanReadback \/ DownloadFail \/ WindowOpen \/ Prepare \/ WindowWrite
    \/ DownloadCommit \/ WindowClose \/ Visible

Gpu ==
    \/ Snapshot
    \/ \E op \in Ops, cells \in Requests : Request(op, cells)
    \/ \E c \in Cells : UploadCommit(c) \/ DownloadCopy(c)
    \/ Synchronize \/ Upload \/ Readback

Next == (Gpu \/ \E w \in Writers : Store(w)) /\ UNCHANGED view

Spec == Init /\ [][Next]_vars

-----------------------------------------------------------------------------
(***************************************************************************)
(* Properties                                                              *)
(***************************************************************************)

\* current_epoch promises that every write at or below the boundary has
\* published its page epoch.  It keeps the promise for the stores it counts.
BoundaryIsComplete ==
    gpu.at \in Ingesting =>
        \A w \in Writers : At(w, "page") /\ cpu[w].counted => cpu[w].epoch > gpu.through

\* Guest RAM holds the newest bytes of everything the tracker does not call
\* GPU-dirty: neither a store nor GPU output is lost to the CPU, except on a
\* cell that the page fallback or an uncounted store has exposed.
RamIsCurrent == \A c \in Cells \ (gpuDirty \cup exposed) : "ram" \in fresh[c]

\* The mirror holds the newest bytes of every cell the tracker calls valid
\* and clean, unless a store to it is still to be taken in, its upload is
\* under way or a gap has exposed it.  A store that synchronization missed for
\* good breaks this.
MirrorIsCurrent ==
    \A c \in valid \ (cpuDirty \cup exposed) :
        Pending(c) \/ gpu.cell = c \/ "mirror" \in fresh[c]

\* What an operation is for: a draw finds in the mirror, and the CPU after a
\* readback finds in RAM, the newest bytes of every requested cell that no
\* store touched while the operation ran and that no gap has exposed.
RequestDelivers ==
    /\ Uploaded => \A c \in gpu.req \ (raced \cup exposed) : "mirror" \in fresh[c]
    /\ Downloaded => \A c \in gpu.req \ (raced \cup exposed) : "ram" \in fresh[c]

(***************************************************************************)
(* The same without the exception: what the gaps break.                    *)
(***************************************************************************)

\* coherency.hpp 56: "every writer at or below the returned epoch has finished
\* publishing its page epochs", counted or not.
NothingUnpublished ==
    gpu.at \in Ingesting => \A w \in Writers : At(w, "page") => cpu[w].epoch > gpu.through

\* Neither a store nor GPU output is ever lost to the CPU.
RamAlwaysCurrent == \A c \in Cells \ gpuDirty : "ram" \in fresh[c]

\* Synchronization misses no store for good.
MirrorAlwaysCurrent ==
    \A c \in valid \ cpuDirty : Pending(c) \/ gpu.cell = c \/ "mirror" \in fresh[c]

\* A draw finds the newest bytes of every store that had returned before it.
DrawsSeeStores == Uploaded => \A c \in gpu.req \ raced : "mirror" \in fresh[c]

=============================================================================
