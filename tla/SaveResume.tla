----------------------------- MODULE SaveResume -----------------------------
(***************************************************************************)
(* A save followed by vm_resume (src/dm/vm-save.c): the VM keeps running   *)
(* after the save.  With free_mem, xc_domain_memory_capture removed every *)
(* captured frame from the guest (XENMEM_MCGI_FLAGS_REMOVE_PFN), so        *)
(* vm_resume first runs vm_restore_memory, which reads the page batches   *)
(* of the save file back from vm_save_info.page_batch_offset, skipping    *)
(* the zero-bitmap and page-offset records, and populates the frames.     *)
(* Then the VM is resumed.                                                *)
(***************************************************************************)
EXTENDS VmSave

CONSTANTS
  CallCanFail,   \* a seek, read, allocation or populate hypercall may fail
  JobCanFail     \* a decompression job of the pool may fail

VARIABLES
  rpc,        \* "idle", "loop" (restore loop), "out", "resumed"
  rpos,       \* the cell vm_restore_memory reads next
  restored,   \* the frames vm_restore_memory populated, with their content
  rfail,      \* vm_restore_memory returned an error
  dc_failed   \* dc.ret # 0: a pool worker of vm_restore_memory failed

rvars == <<rpc, rpos, restored, rfail, dc_failed>>
allvars == <<vars, rvars>>

CallOutcomes == IF CallCanFail THEN BOOLEAN ELSE {TRUE}
JobOutcomes  == IF JobCanFail  THEN BOOLEAN ELSE {TRUE}

(* vm_save_info.page_batch_offset: filebuf_tell before the page loop, the  *)
(* first cell of the memory section.                                      *)
PageBatchOffset == 1

(* The frames xc_domain_memory_capture has taken out of the guest: with   *)
(* free_mem every frame of every batch captured so far.                   *)
Removed == IF free_mem THEN {p \in Pfns : p < pfn} ELSE {}

(* A frame as the running VM sees it after the save.                       *)
VmFrame(p) ==
  IF p \in DOMAIN restored THEN restored[p]
  ELSE IF p \in Removed THEN "absent"
  ELSE guest[p]

RInit ==
  /\ Init
  /\ rpc = "idle"
  /\ rpos = 0
  /\ restored = EmptyMem
  /\ rfail = FALSE
  /\ dc_failed = FALSE

RFail ==
  /\ rpc' = "out"
  /\ rfail' = TRUE
  /\ UNCHANGED <<rpos, restored, dc_failed>>

(* Mutation: memory is restored only when it was not freed.              *)
ResumeStartInverted ==
  /\ pc = "saved" /\ rpc = "idle"
  /\ IF ~free_mem
     THEN \E ok \in CallOutcomes :
            IF ok THEN /\ rpc' = "loop"
                       /\ rpos' = PageBatchOffset
                       /\ UNCHANGED <<restored, rfail, dc_failed>>
            ELSE RFail
     ELSE /\ rpc' = "out"
          /\ UNCHANGED <<rpos, restored, rfail, dc_failed>>
  /\ UNCHANGED vars

(***************************************************************************)
(* vm_resume with the save file still open: if free_mem, vm_restore_memory *)
(* seeks to page_batch_offset and allocates its arrays (uxenvm_load_alloc);*)
(* either may fail.                                                       *)
(***************************************************************************)
ResumeStart ==
  /\ pc = "saved" /\ rpc = "idle"
  /\ IF free_mem
     THEN \E ok \in CallOutcomes :
            IF ok THEN /\ rpc' = "loop"
                       /\ rpos' = PageBatchOffset
                       /\ UNCHANGED <<restored, rfail, dc_failed>>
            ELSE RFail
     ELSE /\ rpc' = "out"
          /\ UNCHANGED <<rpos, restored, rfail, dc_failed>>
  /\ UNCHANGED vars

(* Populate the frames of list with vals.                                  *)
Populate(list, vals) ==
  [q \in DOMAIN restored \cup {list[x] : x \in DOMAIN list} |->
     IF \E x \in DOMAIN list : list[x] = q
     THEN vals[CHOOSE x \in DOMAIN list : list[x] = q]
     ELSE restored[q]]

(***************************************************************************)
(* One turn of the while (1) loop of vm_restore_memory.  The marker read   *)
(* fails past the end of the file; 0 ends the loop; page-offset and zero- *)
(* bitmap records are skipped by the size in their header; anything else  *)
(* goes to uxenvm_load_batch (populate_compressed = 0, no lazy load),     *)
(* whose failures end the loop.  A compressed batch is populated by a     *)
(* pool worker, whose failure only sets dc->ret; uxenvm_load_readbatch    *)
(* fails on it when the next compressed batch wants a buffer.             *)
(***************************************************************************)
RestoreRecord ==
  /\ rpc = "loop"
  /\ \/ /\ rpos > Len(file)
        /\ RFail
     \/ /\ rpos <= Len(file)
        /\ file[rpos].k = "end"
        /\ rpc' = "out"
        /\ UNCHANGED <<rpos, restored, rfail, dc_failed>>
     \/ /\ rpos <= Len(file)
        /\ file[rpos].k \in {"zbitmap", "poi"}
        /\ \E ok \in CallOutcomes :
             IF ok THEN /\ rpos' = rpos + 1
                        /\ UNCHANGED <<rpc, restored, rfail, dc_failed>>
             ELSE RFail
     \/ /\ rpos <= Len(file)
        /\ file[rpos].k \notin {"end", "zbitmap", "poi"}
        /\ LET d    == DecodeBatchMarker(file[rpos].n)
               r    == ReadPages(file, rpos + 2, d)
               list == file[rpos + 1].l
               pooled == d.decompress /\ ~file[rpos + 2].b
           IN IF file[rpos].k # "marker" \/ ~d.valid \/ rpos + 1 > Len(file)
                 \/ file[rpos + 1].k # "pfns" \/ ~r.ok
              THEN RFail
              ELSE IF pooled /\ dc_failed
              THEN RFail
              ELSE \E ok \in CallOutcomes, jobOk \in IF pooled THEN JobOutcomes ELSE {TRUE} :
                     IF ok
                     THEN /\ restored' = IF jobOk THEN Populate(list, r.vals) ELSE restored
                          /\ rpos' = r.next
                          /\ dc_failed' = (dc_failed \/ ~jobOk)
                          /\ UNCHANGED <<rpc, rfail>>
                     ELSE RFail
  /\ UNCHANGED vars

(* out: the pool is drained, its result discarded; vm_resume ignores the   *)
(* result of vm_restore_memory, closes the file and resumes the domain.   *)
ResumeEnd ==
  /\ rpc = "out"
  /\ rpc' = "resumed"
  /\ UNCHANGED <<rpos, restored, rfail, dc_failed>>
  /\ UNCHANGED vars

Resumed ==
  /\ rpc = "resumed"
  /\ UNCHANGED allvars

RNext ==
  \/ Next /\ rpc = "idle" /\ UNCHANGED rvars
  \/ ResumeStart \/ RestoreRecord \/ ResumeEnd \/ Resumed

RSpec == RInit /\ [][RNext]_allvars

-----------------------------------------------------------------------------
(* Properties *)

(* After a save with free_mem the domain is resumed (vm_resume) with      *)
(* every frame that held data before the save holding it again: the       *)
(* batches vm_restore_memory reads from page_batch_offset cover every     *)
(* frame the page loop removed, whether the loop ran to the end or was    *)
(* stopped by save_abort or vm_quit_interrupt, and whatever the zero      *)
(* bitmap and page-offset records between them look like.                 *)
ResumedDataIntact ==
  rpc = "resumed" => \A p \in Pfns : guest[p] \in Data => VmFrame(p) = guest[p]

=============================================================================
