------------------------------- MODULE VmSave -------------------------------
(***************************************************************************)
(* The memory section of a save, uxenvm_savevm_write_pages in              *)
(* src/dm/vm-save.c, with vm_save_execute reporting the result and        *)
(* vm_save_finalize keeping or deleting the file.                          *)
(*                                                                         *)
(* The file is a sequence of cells, one per filebuf_write of a logical     *)
(* item (marker, frame list, compress_size, one page, a cs16_t prefix, a   *)
(* bulk LZ4 blob, the zero bitmap, the page-offset table, the end marker,  *)
(* the index pointer).  File offsets are cell offsets (0-based), so a page *)
(* offset in the index names the cell that holds the page.  A page is one *)
(* value of a small set; LZ4 shrinks exactly the values in Compressible.   *)
(***************************************************************************)
EXTENDS SaveFormat, Integers, Sequences, FiniteSets, TLC

CONSTANTS
  P2M,                \* p2m_size: xc_domain_maximum_gpfn() + 1
  MEM_FRAMES,         \* vm_mem_mb in frames
  Data,               \* the non-zero page contents
  Compressible,       \* the page contents LZ4 makes smaller than a page
  CompressSettings,   \* the (compress_mode, single_page) pairs a save may use
  CaptureCanBeShort,  \* xc_domain_memory_capture may return batch_done < batch
  AbortCanHappen,     \* something sets vm_save_info.save_abort during a save
  ZeroPage,           \* the content of a normal page that is all zero
  ZeroBitmapCanBeRaw  \* the zero bitmap may not shrink under LZ4 (or its
                      \* buffer may not be allocated) and is written raw

ASSUME /\ P2M \in Nat /\ MEM_FRAMES \in Nat
       /\ ZeroPage \notin Data /\ Compressible \subseteq Data \cup {ZeroPage}

Pfns == 0 .. P2M - 1
Slots == 0 .. MAX_BATCH_SIZE - 1

(* A guest frame as xc_domain_memory_capture reports it: populate-on-      *)
(* demand (shared from the template), a hypervisor zero page, or a normal *)
(* page with content; ZeroPage is a normal page that is all zero.        *)
Contents == {"pod", "hzero", ZeroPage} \cup Data

(* A gpfn_info_list entry: its masked type and the page it points at.      *)
(* "other" stands for the bits of an entry malloc left uninitialised.     *)
InfoTypes == {"normal", "zero", "pod", "other"}
InfoRecs == [type : InfoTypes, v : {ZeroPage} \cup Data]

(* One entry of poi.pfn_off: a cell offset and the compressed flag (bit   *)
(* 63, PAGE_OFFSET_INDEX_PFN_OFF_COMPRESSED); calloc leaves [0, FALSE].   *)
NoOffset == [off |-> 0, c |-> FALSE]

MaxGpfn  == SaveMaxGpfn(MEM_FRAMES)
IndexNr  == SavePfnOffNr(MEM_FRAMES)

(* A cell of the file.                                                     *)
C(kind) == [k |-> kind, n |-> 0, l |-> <<>>, d |-> <<>>, z |-> {}, b |-> FALSE,
            v |-> ZeroPage]
DataCell(x, lz) == [C("data") EXCEPT !.v = x, !.b = lz]
Cs16Cell(raw)   == [C("cs16") EXCEPT !.b = raw]

VARIABLES
  guest,        \* the content of every guest frame while the VM is suspended
  compress,     \* vm_save_info.compress_mode
  single_page,  \* vm_save_info.single_page
  free_mem,     \* vm_save_info.free_mem
  pc,           \* "loop", "index", "end", "saved", "failed", "final"
  pfn,          \* the loop variable pfn
  info,         \* gpfn_info_list: kept from one batch to the next
  file,         \* the cells written so far
  poi,          \* poi.pfn_off, indexed by poi_pfn_index
  zero,         \* the frames set in zero_bitmap
  repop,        \* frames re-populated on demand by the rezero pass
  idx_off,      \* page_offsets_index.offset
  save_abort,   \* vm_save_info.save_abort
  quit,         \* vm_quit_interrupt
  kept          \* vm_save_finalize left the file on disk

vars == <<guest, compress, single_page, free_mem, pc, pfn, info, file, poi,
          zero, repop, idx_off, save_abort, quit, kept>>

Aborted == save_abort \/ quit

-----------------------------------------------------------------------------
Init ==
  /\ guest \in [Pfns -> Contents]
  /\ \E s \in CompressSettings : compress = s[1] /\ single_page = s[2]
  /\ free_mem \in BOOLEAN
  /\ pc = "start"
  /\ pfn = 0
  \* malloc'd, never written before the first capture
  /\ info \in IF CaptureCanBeShort THEN [Slots -> InfoRecs]
              ELSE {[j \in Slots |-> [type |-> "other", v |-> ZeroPage]]}
  /\ file = <<>>
  /\ poi = [s \in 0 .. IndexNr - 1 |-> NoOffset]
  /\ zero = {}
  /\ repop = {}
  /\ idx_off = 0
  /\ save_abort = FALSE
  /\ quit = FALSE
  /\ kept = FALSE

(* Mutation: a hypervisor zero page is taken for a template page.        *)
CaptureZeroAsPod(x) ==
  CASE x \in {"pod", "hzero"} -> [type |-> "pod", v |-> ZeroPage]
    [] x = ZeroPage -> [type |-> "zero", v |-> ZeroPage]
    [] OTHER       -> [type |-> "normal", v |-> x]

(* The entry xc_domain_memory_capture fills in for a frame, after the type *)
(* mask and the all-zero scan: a normal page of zeros becomes zero.        *)
Capture(x) ==
  CASE x = "pod"   -> [type |-> "pod", v |-> ZeroPage]
    [] x = "hzero" -> [type |-> "zero", v |-> ZeroPage]
    [] x = ZeroPage -> [type |-> "zero", v |-> ZeroPage]
    [] OTHER       -> [type |-> "normal", v |-> x]

(* Mutation: frame numbers counted from one past the batch start.         *)
RunPagesShifted(t, base, batch) ==
  LET js == {j \in 0 .. batch - 1 : t[j].type = "normal"}
      ord == CHOOSE s \in [1 .. Cardinality(js) -> js] :
               \A a, b \in DOMAIN s : a < b => s[a] < s[b]
  IN [i \in DOMAIN ord |-> [p |-> base + ord[i] + 1, v |-> t[ord[i]].v]]

(* The pages a batch writes: every normal entry j < batch in order, with   *)
(* its frame and the content it points at.                                *)
RunPages(t, base, batch) ==
  LET js == {j \in 0 .. batch - 1 : t[j].type = "normal"}
      ord == CHOOSE s \in [1 .. Cardinality(js) -> js] :
               \A a, b \in DOMAIN s : a < b => s[a] < s[b]
  IN [i \in DOMAIN ord |-> [p |-> base + ord[i], v |-> t[ord[i]].v]]

RawCells(pages) == [i \in DOMAIN pages |-> DataCell(pages[i].v, FALSE)]

(* Per-page LZ4: each page is a cs16_t size and its bytes, stored raw when *)
(* compression does not shrink it (cs1 == PAGE_SIZE).                      *)
Shrinks(x) == x \in Compressible
PerPageCells(pages) ==
  [c \in 1 .. 2 * Len(pages) |->
     LET pg == pages[(c + 1) \div 2] IN
     IF c % 2 = 1 THEN Cs16Cell(~Shrinks(pg.v)) ELSE DataCell(pg.v, Shrinks(pg.v))]

(* Bulk LZ4: the whole run is one block, written raw after a -1 size when  *)
(* it does not shrink.                                                    *)
BulkVain(pages) == \A i \in DOMAIN pages : ~Shrinks(pages[i].v)
BulkCells(pages) ==
  IF BulkVain(pages)
  THEN <<[C("csize") EXCEPT !.n = Len(pages), !.b = TRUE]>> \o RawCells(pages)
  ELSE << [C("csize") EXCEPT !.n = Len(pages)],
          [C("blob") EXCEPT !.d = [i \in DOMAIN pages |-> pages[i].v]] >>

(* Mutation: the offset of a raw per-page entry misses sizeof(cs16_t).    *)
PageOffsetNoPrefix(pages, i, base) ==
  IF compress = COMPRESS_NONE THEN [off |-> base + i - 1, c |-> FALSE]
  ELSE IF Shrinks(pages[i].v) THEN [off |-> base + 1 + 2 * (i - 1), c |-> TRUE]
  ELSE [off |-> base + 1 + 2 * (i - 1), c |-> FALSE]

(* The index entry of the i-th page written, the page data starting at    *)
(* cell offset base (mem_pos is base + 1 in per-page mode).               *)
PageOffset(pages, i, base) ==
  IF compress = COMPRESS_NONE THEN [off |-> base + i - 1, c |-> FALSE]
  ELSE IF Shrinks(pages[i].v) THEN [off |-> base + 1 + 2 * (i - 1), c |-> TRUE]
  ELSE [off |-> base + 1 + 2 * (i - 1) + 1, c |-> FALSE]

(* Bulk LZ4 records no offsets.                                            *)
IndexPages(pages, base) ==
  IF compress = COMPRESS_LZ4 /\ ~single_page THEN poi
  ELSE [s \in DOMAIN poi |->
          IF \E i \in DOMAIN pages : poi_valid_pfn(MaxGpfn, pages[i].p)
                                     /\ skip_pci_hole(pages[i].p) = s
          THEN PageOffset(pages,
                 CHOOSE i \in DOMAIN pages : skip_pci_hole(pages[i].p) = s
                                             /\ poi_valid_pfn(MaxGpfn, pages[i].p),
                 base)
          ELSE poi[s]]

BatchDone(batch) == IF CaptureCanBeShort THEN 0 .. batch ELSE {batch}

(***************************************************************************)
(* One turn of the while loop of uxenvm_savevm_write_pages: capture up to  *)
(* MAX_BATCH_SIZE frames; classify the batch_done entries returned (the    *)
(* rest keep what the previous turn left); re-populate the zero pages on   *)
(* demand unless free_mem; if any captured page is normal, write the batch *)
(* marker and frame list, then every normal entry of the whole batch in    *)
(* runs, per compression mode, updating the page-offset index.            *)
(***************************************************************************)
WriteBatch ==
  /\ pc = "loop"
  /\ pfn < P2M /\ ~Aborted
  /\ LET batch == IF P2M - pfn < MAX_BATCH_SIZE THEN P2M - pfn ELSE MAX_BATCH_SIZE IN
     \E done \in BatchDone(batch) :
       LET t       == [j \in Slots |-> IF j < done THEN Capture(guest[pfn + j]) ELSE info[j]]
           listed  == RunPages(t, pfn, done)
           pages   == RunPages(t, pfn, batch)
           rezero  == {pfn + j : j \in {j \in 0 .. done - 1 : guest[pfn + j] = ZeroPage}}
           base    == Len(file) + 2
           body    == CASE compress = COMPRESS_NONE -> RawCells(pages)
                        [] single_page ->
                             <<[C("csize") EXCEPT !.n = Len(pages)]>> \o PerPageCells(pages)
                        [] OTHER -> BulkCells(pages)
       IN
       /\ info' = t
       /\ zero' = zero \cup {pfn + j : j \in {j \in 0 .. done - 1 : t[j].type = "zero"}}
       /\ repop' = IF free_mem THEN repop ELSE repop \cup rezero
       /\ IF Len(listed) > 0
          THEN /\ file' = file \o
                    << [C("marker") EXCEPT !.n = EncodeBatchMarker(Len(listed), compress, single_page)],
                       [C("pfns") EXCEPT !.l = [i \in DOMAIN listed |-> listed[i].p]] >> \o body
               /\ poi' = IndexPages(pages, base)
          ELSE UNCHANGED <<file, poi>>
       /\ pfn' = pfn + batch
  /\ UNCHANGED <<guest, compress, single_page, free_mem, pc, idx_off, save_abort,
                 quit, kept>>

(* The loop ends when every frame is done or an abort flag is set.         *)
EndLoop ==
  /\ pc = "loop"
  /\ pfn >= P2M \/ Aborted
  /\ pc' = "index"
  /\ UNCHANGED <<guest, compress, single_page, free_mem, pfn, info, file, poi,
                 zero, repop, idx_off, save_abort, quit, kept>>

(* Unless aborted, write the zero bitmap - LZ4-compressed, or raw when     *)
(* that does not shrink it or the buffer cannot be had - and the          *)
(* page-offset table, remembering where the table starts.                 *)
WriteIndex ==
  /\ pc = "index"
  /\ IF ~Aborted
     THEN /\ \E lz \in IF ZeroBitmapCanBeRaw THEN BOOLEAN ELSE {TRUE} :
               file' = file \o << [C("zbitmap") EXCEPT !.z = zero, !.b = lz],
                                [C("poi") EXCEPT !.n = IndexNr] >>
          /\ idx_off' = Len(file) + 1
     ELSE UNCHANGED <<file, idx_off>>
  /\ pc' = "end"
  /\ UNCHANGED <<guest, compress, single_page, free_mem, pfn, info, poi, zero,
                 repop, save_abort, quit, kept>>

(* Unless aborted, write the end marker and the pointer to the table; the  *)
(* function returns 0 either way and vm_save_execute reports success.      *)
WriteEnd ==
  /\ pc = "end"
  /\ IF ~Aborted
     THEN file' = file \o << C("end"), [C("ptr") EXCEPT !.n = idx_off] >>
     ELSE UNCHANGED file
  /\ pc' = "saved"
  /\ UNCHANGED <<guest, compress, single_page, free_mem, pfn, info, poi, zero,
                 repop, idx_off, save_abort, quit, kept>>

(***************************************************************************)
(* Before the loop: xc_domain_maximum_gpfn and the buffer allocations of   *)
(* uxenvm_savevm_write_pages (and the header of vm_save_execute before     *)
(* it) may fail; vm_save_execute then closes the file, which is deleted.   *)
(***************************************************************************)
Start ==
  /\ pc = "start"
  /\ pc' \in {"loop", "failed"}
  /\ UNCHANGED <<guest, compress, single_page, free_mem, pfn, info, file, poi,
                 zero, repop, idx_off, save_abort, quit, kept>>

(* vm_save_finalize: the file is kept unless the quit interrupt is set.    *)
Finalize ==
  /\ pc = "saved"
  /\ kept' = ~quit
  /\ pc' = "final"
  /\ UNCHANGED <<guest, compress, single_page, free_mem, pfn, info, file, poi,
                 zero, repop, idx_off, save_abort, quit>>

(* Another thread sets vm_quit_interrupt, or the save is aborted.          *)
Interrupt ==
  /\ pc \notin {"final", "failed"}
  /\ \/ /\ ~quit
        /\ quit' = TRUE
        /\ UNCHANGED save_abort
     \/ /\ AbortCanHappen
        /\ ~save_abort
        /\ save_abort' = TRUE
        /\ UNCHANGED quit
  /\ UNCHANGED <<guest, compress, single_page, free_mem, pc, pfn, info, file,
                 poi, zero, repop, idx_off, kept>>

Stopped ==
  /\ pc \in {"final", "failed"}
  /\ UNCHANGED vars

Next ==
  \/ Start \/ WriteBatch \/ EndLoop \/ WriteIndex \/ WriteEnd \/ Finalize
  \/ Interrupt \/ Stopped

Spec == Init /\ [][Next]_vars

-----------------------------------------------------------------------------
(***************************************************************************)
(* Reading the file back the way uxenvm_loadvm_execute does: every batch   *)
(* marker is decoded, its frame list read, and its pages taken from raw    *)
(* cells, from the first count cs16_t/data pairs of a per-page block, or   *)
(* from a bulk block whose length must match; the zero bitmap is applied, *)
(* the page-offset table skipped, and the end marker stops the stream.    *)
(***************************************************************************)
EmptyMem == [q \in {} |-> 0]
Bad == [ok |-> FALSE, mem |-> EmptyMem, zero |-> {}]

(* The page contents of a batch of count pages starting at cell i, and the *)
(* cell after them; ok is FALSE when the cells do not fit.                 *)
ReadPages(f, i, d) ==
  LET RawAt(j, cnt) ==
        IF j + cnt - 1 <= Len(f) /\ \A x \in 0 .. cnt - 1 : f[j + x].k = "data" /\ ~f[j + x].b
        THEN [ok |-> TRUE, vals |-> [x \in 1 .. cnt |-> f[j + x - 1].v], next |-> j + cnt]
        ELSE [ok |-> FALSE, vals |-> <<>>, next |-> j]
  IN
  IF ~d.decompress THEN RawAt(i, d.count)
  ELSE IF i > Len(f) \/ f[i].k # "csize" THEN [ok |-> FALSE, vals |-> <<>>, next |-> i]
  ELSE IF f[i].b THEN RawAt(i + 1, d.count)                 \* compress_size == -1
  ELSE IF d.single_page
  THEN IF f[i].n >= d.count /\ i + 2 * f[i].n <= Len(f)
       THEN [ok |-> TRUE, vals |-> [x \in 1 .. d.count |-> f[i + 2 * x].v],
             next |-> i + 1 + 2 * f[i].n]
       ELSE [ok |-> FALSE, vals |-> <<>>, next |-> i]
  ELSE IF i + 1 <= Len(f) /\ f[i + 1].k = "blob" /\ Len(f[i + 1].d) = d.count
  THEN [ok |-> TRUE, vals |-> f[i + 1].d, next |-> i + 2]
  ELSE [ok |-> FALSE, vals |-> <<>>, next |-> i]

RECURSIVE DecodeFrom(_, _, _, _)
DecodeFrom(f, i, mem, zs) ==
  IF i > Len(f) THEN Bad
  ELSE CASE f[i].k = "end"     -> [ok |-> TRUE, mem |-> mem, zero |-> zs]
         [] f[i].k = "zbitmap" ->                \* always LZ4_decompress_fast
              IF f[i].b THEN DecodeFrom(f, i + 1, mem, zs \cup f[i].z) ELSE Bad
         [] f[i].k = "poi"     -> DecodeFrom(f, i + 1, mem, zs)
         [] f[i].k = "marker"  ->
              LET d == DecodeBatchMarker(f[i].n) IN
              IF ~d.valid \/ i + 1 > Len(f) \/ f[i + 1].k # "pfns"
                 \/ Len(f[i + 1].l) # d.count
              THEN Bad
              ELSE LET r    == ReadPages(f, i + 2, d)
                       list == f[i + 1].l
                   IN IF ~r.ok \/ \E x \in DOMAIN list : list[x] \in DOMAIN mem
                      THEN Bad
                      ELSE DecodeFrom(f, r.next,
                             [q \in DOMAIN mem \cup {list[x] : x \in DOMAIN list} |->
                                IF q \in DOMAIN mem THEN mem[q]
                                ELSE r.vals[CHOOSE x \in DOMAIN list : list[x] = q]],
                             zs)
         [] OTHER -> Bad

Decode(f) == DecodeFrom(f, 1, EmptyMem, {})

(* A frame as the restored VM sees it: loaded from a batch, a demand-zero  *)
(* page, or left to the template.                                         *)
Restored(r, p) ==
  IF p \in DOMAIN r.mem THEN r.mem[p] ELSE IF p \in r.zero THEN ZeroPage ELSE "pod"

(* The frame as the suspended guest had it.                                *)
Expected(p) == IF guest[p] = "hzero" THEN ZeroPage ELSE guest[p]

(* The file ends with the end marker and the index pointer.                *)
Complete(f) == Len(f) >= 2 /\ f[Len(f) - 1].k = "end" /\ f[Len(f)].k = "ptr"

(* vm_lazy_load_page: the content found at an index entry.                 *)
LazyRead(e) ==
  LET at(o) == IF o + 1 <= Len(file) THEN file[o + 1] ELSE C("none") IN
  IF e.c
  THEN IF at(e.off).k = "cs16" /\ at(e.off + 1).k = "data" /\ at(e.off + 1).b = ~at(e.off).b
       THEN at(e.off + 1).v ELSE "garbage"
  ELSE IF at(e.off).k = "data" /\ ~at(e.off).b THEN at(e.off).v ELSE "garbage"

-----------------------------------------------------------------------------
(* Properties *)

(* vm_save_execute reported success (ret 0) to the controller.            *)
SaveReported == pc \in {"saved", "final"}

Cell == [k : {"marker", "pfns", "csize", "data", "cs16", "blob", "zbitmap",
              "poi", "end", "ptr"},
         n : Int, l : Seq(Pfns), d : Seq(Data \cup {ZeroPage}), z : SUBSET Pfns,
         b : BOOLEAN, v : Data \cup {ZeroPage}]

TypeOK ==
  /\ guest \in [Pfns -> Contents]
  /\ compress \in {COMPRESS_NONE, COMPRESS_LZ4} /\ single_page \in BOOLEAN
  /\ free_mem \in BOOLEAN
  /\ pc \in {"start", "loop", "index", "end", "saved", "failed", "final"}
  /\ pfn \in 0 .. P2M
  /\ info \in [Slots -> InfoRecs]
  /\ file \in Seq(Cell)
  /\ \A i \in DOMAIN file : file[i].k = "pfns" =>
        \A x \in DOMAIN file[i].l : file[i].l[x] \in Pfns
  /\ poi \in [0 .. IndexNr - 1 -> [off : Nat, c : BOOLEAN]]
  /\ zero \subseteq Pfns /\ repop \subseteq Pfns
  /\ idx_off \in Nat
  /\ save_abort \in BOOLEAN /\ quit \in BOOLEAN /\ kept \in BOOLEAN

(* Round trip (the save pipeline's classification and emit steps against  *)
(* the loader's record loop): once uxenvm_savevm_write_pages has written a *)
(* complete file, reading it back restores every guest frame - normal     *)
(* pages from exactly one batch with their content, zero pages (hypervisor *)
(* zero pages and the normal pages found all-zero) through the zero       *)
(* bitmap, and template pages left to the template - whatever the batch   *)
(* boundaries, compression mode and compressibility of each page.          *)
SaveRestoresGuest ==
  (SaveReported /\ Complete(file))
    => LET r == Decode(file) IN
       /\ r.ok
       /\ DOMAIN r.mem \cap r.zero = {}
       /\ \A p \in Pfns : Restored(r, p) = Expected(p)

(* Index completeness (the page-offset index of uxenvm_savevm_write_pages  *)
(* read by vm_lazy_load_page): after a complete save, the entry of every   *)
(* indexed frame holding non-zero data locates that data - the raw page,  *)
(* or, with the compressed flag, the cs16_t prefix of its LZ4 block.       *)
IndexLocatesData ==
  (SaveReported /\ Complete(file))
    => \A p \in Pfns :
         (poi_valid_pfn(MaxGpfn, p) /\ guest[p] \in Data)
           => LazyRead(poi[skip_pci_hole(p)]) = guest[p]

(* In raw and per-page LZ4 mode (the modes uxenvm_savevm_write_pages      *)
(* fills pfn_off in) the page-offset index of a complete reported save     *)
(* locates every saved page's data, wherever the batches, the PCI hole and *)
(* the zero pages fall.                                                   *)
IndexedSaveLocatesData ==
  (compress = COMPRESS_NONE \/ single_page) => IndexLocatesData

(* The spec (save abort policy): on abort "the caller is informed the file *)
(* is incomplete so it can be discarded".  A save vm_save_execute reports *)
(* as successful to the controller wrote a complete file; but             *)
(* uxenvm_savevm_write_pages returns 0 when the loop was aborted.         *)
ReportedSaveComplete == SaveReported => Complete(file)

=============================================================================
