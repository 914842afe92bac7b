----------------------------- MODULE SaveFormat -----------------------------
(***************************************************************************)
(* The wire-level definitions shared by save and restore in               *)
(* src/dm/vm-save.c: the record markers, the page-batch marker encoding   *)
(* (count + k * MAX_BATCH_SIZE, k the compression variant), and the       *)
(* compaction of guest frame numbers over the PCI hole used by the page   *)
(* offset index.  Pure operators: no VARIABLES.                           *)
(***************************************************************************)
EXTENDS Integers, Sequences

CONSTANTS
  MAX_BATCH_SIZE,      \* 1023 in the code; frames per page-batch record
  PCI_HOLE_START_PFN,  \* first frame of the MMIO hole
  PCI_HOLE_END_PFN     \* first frame after the MMIO hole

ASSUME /\ MAX_BATCH_SIZE \in Nat \ {0}
       /\ PCI_HOLE_START_PFN \in Nat
       /\ PCI_HOLE_END_PFN \in Nat
       /\ PCI_HOLE_START_PFN <= PCI_HOLE_END_PFN

(* Record markers (the XC_SAVE_ID_ defines).                                *)
XC_SAVE_ID_VCPU_INFO       == -2
XC_SAVE_ID_TSC_INFO        == -7
XC_SAVE_ID_HVM_MAGIC_PFNS  == -11
XC_SAVE_ID_HVM_CONTEXT     == -12
XC_SAVE_ID_HVM_DM          == -13
XC_SAVE_ID_VERSION         == -16
XC_SAVE_ID_PAGE_OFFSETS    == -20
XC_SAVE_ID_ZERO_BITMAP     == -21
SAVE_FORMAT_VERSION        == 4

(* The compression settings of a save session: vm_save_info.compress_mode *)
(* and vm_save_info.single_page.                                          *)
COMPRESS_NONE == "none"
COMPRESS_LZ4  == "lz4"

(* Mutation: the bulk and per-page offsets swapped.                       *)
EncodeBatchMarkerSwapped(n, compress_mode, single_page) ==
  IF compress_mode = COMPRESS_LZ4
  THEN n + (IF single_page THEN MAX_BATCH_SIZE ELSE 2 * MAX_BATCH_SIZE)
  ELSE n

(***************************************************************************)
(* uxenvm_savevm_write_pages: the marker of a batch of n pages is n, plus *)
(* MAX_BATCH_SIZE for bulk LZ4 and 2 * MAX_BATCH_SIZE for per-page LZ4.    *)
(***************************************************************************)
EncodeBatchMarker(n, compress_mode, single_page) ==
  IF compress_mode = COMPRESS_LZ4
  THEN n + (IF single_page THEN 2 * MAX_BATCH_SIZE ELSE MAX_BATCH_SIZE)
  ELSE n

(* Mutation: the per-page range starts one marker early.                  *)
DecodeBatchMarkerAtBound(marker) ==
  IF marker < 0 \/ marker > 3 * MAX_BATCH_SIZE
  THEN [valid |-> FALSE, count |-> 0, decompress |-> FALSE, single_page |-> FALSE]
  ELSE IF marker >= 2 * MAX_BATCH_SIZE
  THEN [valid |-> TRUE, count |-> marker - 2 * MAX_BATCH_SIZE,
        decompress |-> TRUE, single_page |-> TRUE]
  ELSE IF marker > MAX_BATCH_SIZE
  THEN [valid |-> TRUE, count |-> marker - MAX_BATCH_SIZE,
        decompress |-> TRUE, single_page |-> FALSE]
  ELSE [valid |-> TRUE, count |-> marker, decompress |-> FALSE, single_page |-> FALSE]

(***************************************************************************)
(* uxenvm_load_batch: the cast (unsigned int)marker makes every negative  *)
(* marker larger than 3 * MAX_BATCH_SIZE, so it is rejected like a too    *)
(* large one.  Otherwise the variant is recovered by the range of the     *)
(* marker and subtracted.                                                 *)
(***************************************************************************)
DecodeBatchMarker(marker) ==
  IF marker < 0 \/ marker > 3 * MAX_BATCH_SIZE
  THEN [valid |-> FALSE, count |-> 0, decompress |-> FALSE, single_page |-> FALSE]
  ELSE IF marker > 2 * MAX_BATCH_SIZE
  THEN [valid |-> TRUE, count |-> marker - 2 * MAX_BATCH_SIZE,
        decompress |-> TRUE, single_page |-> TRUE]
  ELSE IF marker > MAX_BATCH_SIZE
  THEN [valid |-> TRUE, count |-> marker - MAX_BATCH_SIZE,
        decompress |-> TRUE, single_page |-> FALSE]
  ELSE [valid |-> TRUE, count |-> marker, decompress |-> FALSE, single_page |-> FALSE]

(***************************************************************************)
(* skip_pci_hole / poi_valid_pfn / poi_pfn_index: frames at or above the  *)
(* end of the hole are moved down by the size of the hole; a frame is      *)
(* indexed only below max_gpfn and outside the hole.                      *)
(***************************************************************************)
HoleSize == PCI_HOLE_END_PFN - PCI_HOLE_START_PFN

(* Mutation: the first frame after the hole is not moved down.            *)
skip_pci_hole_incl(pfn) ==
  IF pfn <= PCI_HOLE_END_PFN THEN pfn ELSE pfn - HoleSize

skip_pci_hole(pfn) ==
  IF pfn < PCI_HOLE_END_PFN THEN pfn ELSE pfn - HoleSize

poi_valid_pfn(max_gpfn, pfn) ==
  /\ pfn < max_gpfn
  /\ pfn < PCI_HOLE_START_PFN \/ pfn >= PCI_HOLE_END_PFN

(* uxenvm_savevm_write_pages: max_gpfn is vm_mem_mb in frames; pfn_off is  *)
(* allocated with that many entries, then max_gpfn is moved past the hole. *)
SaveMaxGpfn(mem_frames) ==
  IF mem_frames > PCI_HOLE_START_PFN THEN mem_frames + HoleSize ELSE mem_frames

(* The pfn_off_nr written in the page-offsets record.                    *)
SavePfnOffNr(mem_frames) == skip_pci_hole(SaveMaxGpfn(mem_frames))

(* uxenvm_loadvm_execute (lazy-load info): max_gpfn rebuilt from          *)
(* pfn_off_nr as read back from the index record.                          *)
LazyMaxGpfn(pfn_off_nr) ==
  IF pfn_off_nr > PCI_HOLE_START_PFN THEN pfn_off_nr + HoleSize ELSE pfn_off_nr


(* uxenvm_savevm_write_pages: the zero bitmap has one bit per frame of the *)
(* p2m, rounded up to whole bytes.                                        *)
ZeroBitmapSize(p2m_size) == (p2m_size + 7) \div 8

(* Mutation: the last, partial batch is not flushed.                      *)
RECURSIVE ZeroBitmapCallsNoTail(_, _, _, _, _)
ZeroBitmapCallsNoTail(bits, nbits, max, i, pfn_type) ==
  IF i >= nbits THEN <<>>
  ELSE LET cur == IF i \in bits THEN Append(pfn_type, i) ELSE pfn_type
       IN IF Len(cur) = max
          THEN <<cur>> \o ZeroBitmapCallsNoTail(bits, nbits, max, i + 1, <<>>)
          ELSE ZeroBitmapCallsNoTail(bits, nbits, max, i + 1, cur)

(***************************************************************************)
(* The loop of uxenvm_load_zero_bitmap from bit i on, pfn_type holding the *)
(* j frames collected so far: every set bit is appended, and the batch is *)
(* handed to xc_domain_populate_physmap_exact when it holds max frames or *)
(* at the last bit.  The result is the sequence of pfn lists of the calls. *)
(***************************************************************************)
RECURSIVE ZeroBitmapCalls(_, _, _, _, _)
ZeroBitmapCalls(bits, nbits, max, i, pfn_type) ==
  IF i >= nbits THEN <<>>
  ELSE LET cur == IF i \in bits THEN Append(pfn_type, i) ELSE pfn_type
       IN IF Len(cur) = max \/ i = nbits - 1
          THEN <<cur>> \o ZeroBitmapCalls(bits, nbits, max, i + 1, <<>>)
          ELSE ZeroBitmapCalls(bits, nbits, max, i + 1, cur)

(* The populate calls for a zero bitmap of zero_bitmap_size bytes, with    *)
(* max the size of the pfn_type array (MAX_BATCH_SIZE).                    *)
uxenvm_load_zero_bitmap(bits, zero_bitmap_size, max) ==
  ZeroBitmapCalls(bits, 8 * zero_bitmap_size, max, 0, <<>>)

=============================================================================
