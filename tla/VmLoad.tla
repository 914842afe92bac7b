------------------------------- MODULE VmLoad -------------------------------
(***************************************************************************)
(* The restore path of src/dm/vm-save.c: uxenvm_loadvm_execute reading    *)
(* the record stream, uxenvm_load_batch / uxenvm_load_readbatch populating *)
(* guest memory, and the threaded decompression pool (decompress_cb on a   *)
(* worker, decompress_complete and decompress_wait_all on the control      *)
(* thread) that compressed batches are handed to.                         *)
(*                                                                         *)
(* A record of the file is abstracted to its kind; a page batch stands for *)
(* the frames it lists and is identified by its position in the file.     *)
(* Every call that can fail (hypercall, file read, allocation) fails as a *)
(* nondeterministic choice, enabled by the CONSTANTS below.                *)
(***************************************************************************)
EXTENDS Integers, Sequences, FiniteSets

CONSTANTS
  DECOMPRESS_THREADS, \* pool buffers (DECOMPRESS_THREADS = 2 in the code)
  Files,              \* the record streams the loader may be given
  JobCanFail,         \* decompress_batch or populate_from_buffer may fail
  CallCanFail,        \* a file read or hypercall of the control thread may fail
  AllocCanFail,       \* an allocation (uxenvm_load_alloc, pool buffers) may fail
  OpAddCanFail        \* async_op_add may fail

ASSUME DECOMPRESS_THREADS \in Nat \ {0}

(* Record kinds.  "version"/"badversion": the first record; "meta": a     *)
(* fixed metadata record (tsc, vcpu, hvm params, context, dm state, uuid, *)
(* mapcache, template file); "tmpluuid": XC_SAVE_ID_VM_TEMPLATE_UUID;     *)
(* "raw", "bulk", "bulkvain" (bulk record whose compress_size is -1),     *)
(* "perpage": page batches; "badmarker": a marker uxenvm_load_batch       *)
(* rejects; "end": the 0 end marker.                                      *)
BatchKinds      == {"raw", "bulk", "bulkvain", "perpage", "badmarker"}
CompressedKinds == {"bulk", "perpage"}
RecordKinds     == {"version", "badversion", "meta", "tmpluuid", "zbitmap",
                    "pageoffsets", "end"} \cup BatchKinds
ASSUME /\ Files \subseteq Seq(RecordKinds)
       /\ \A f \in Files : \A i \in 2 .. Len(f) : f[i] \notin {"version", "badversion"}

RestoreModes == {"normal", "template", "clone"}

Bufs == 1 .. DECOMPRESS_THREADS

(* A pool buffer (struct decompress_buf_ctx) is unallocated ("none"), on   *)
(* the free list ("free"), held by an async op whose worker has not run   *)
(* ("running"), or done and waiting for decompress_complete ("completed"). *)
(* "lost" is an allocated buffer on no list and with no op: taken off the *)
(* list for an async_op_add that failed, or half built by a failed pool   *)
(* set-up.                                                                *)
BufStates == {"none", "free", "running", "completed", "lost"}

Locations == {"start", "loop", "acquire", "take", "waitbuf", "skipmem", "out",
              "drain", "draintake", "drainwait", "returned", "aborted"}

VARIABLES
  file,         \* the record stream being read
  restore_mode, \* restore_mode argument (clone turns into normal once cloned)
  has_tmpl,     \* vm_has_template_uuid
  pc,           \* control thread location
  pos,          \* index of the next record to read
  ret,          \* "zero" or "nonzero": the int ret of uxenvm_loadvm_execute
  pool,         \* dc.async_op_ctx # NULL
  event_init,   \* ioh_event_init(&dc->process_event) was called
  event,        \* dc->process_event is set
  buf,          \* state of each pool buffer
  job,          \* the batch (file position) a pool buffer carries
  dc_ret,       \* dc->ret # 0: some worker recorded an error
  drain_i,      \* loop counter i of decompress_wait_all
  drain_ret,    \* ret of decompress_wait_all
  drain_next,   \* where control continues after decompress_wait_all
  populated,    \* batches whose pages reached guest memory
  submitted,    \* compressed batches handed to the pool (history)
  failed_jobs,  \* batches whose worker failed (history)
  quit,         \* vm_quit_interrupt
  mem_skipped   \* first-generation clone: the batches were skipped

vars == <<file, restore_mode, has_tmpl, pc, pos, ret, pool, event_init, event,
          buf, job, dc_ret, drain_i, drain_ret, drain_next, populated,
          submitted, failed_jobs, quit, mem_skipped>>

poolVars == <<pool, event_init, event, buf, job, dc_ret, drain_i, drain_ret,
              drain_next>>

-----------------------------------------------------------------------------
(* Failure choices: a call fails only where the configuration allows it.  *)
CallOutcomes  == IF CallCanFail  THEN BOOLEAN ELSE {TRUE}
AllocOutcomes == IF AllocCanFail THEN BOOLEAN ELSE {TRUE}
JobOutcomes   == IF JobCanFail   THEN BOOLEAN ELSE {TRUE}
OpAddOutcomes == IF OpAddCanFail THEN BOOLEAN ELSE {TRUE}

Rec == file[pos]

(* async_op_process: decompress_complete puts every finished buffer back   *)
(* on the free list.                                                      *)
ProcessCompleted(b) ==
  [i \in Bufs |-> IF b[i] = "completed" THEN "free" ELSE b[i]]

(* Mutation: the head of the list is taken whether or not its buffer is   *)
(* back from its worker.                                                  *)
ListFirstAny(b) ==
  IF \E i \in Bufs : b[i] \in {"free", "running"}
  THEN CHOOSE i \in Bufs : b[i] \in {"free", "running"}
                           /\ \A k \in Bufs : b[k] \in {"free", "running"} => i <= k
  ELSE 0

(* LIST_FIRST(&dc->list) after processing, or 0 when the list is empty.    *)
ListFirst(b) ==
  IF \E i \in Bufs : b[i] = "free"
  THEN CHOOSE i \in Bufs : b[i] = "free" /\ \A k \in Bufs : b[k] = "free" => i <= k
  ELSE 0

(* goto out: leave the record loop with an error.                         *)
GotoOut ==
  /\ pc' = "out"
  /\ ret' = "nonzero"

-----------------------------------------------------------------------------
Init ==
  /\ file \in Files
  /\ restore_mode \in RestoreModes
  /\ has_tmpl \in BOOLEAN
  /\ pc = "start"
  /\ pos = 1
  /\ ret = "zero"
  /\ pool = FALSE
  /\ event_init = FALSE
  /\ event = FALSE
  /\ buf = [i \in Bufs |-> "none"]
  /\ job = [i \in Bufs |-> 0]
  /\ dc_ret = FALSE
  /\ drain_i = 0
  /\ drain_ret = "zero"
  /\ drain_next = "returned"
  /\ populated = {}
  /\ submitted = {}
  /\ failed_jobs = {}
  /\ quit = FALSE
  /\ mem_skipped = FALSE

(***************************************************************************)
(* uxenvm_loadvm_execute, up to the record loop: uxenvm_load_alloc, then   *)
(* the first marker; unless it is XC_SAVE_ID_VERSION with version 4 the    *)
(* zero-initialised s_version_info mismatches and the load fails.          *)
(***************************************************************************)
ReadVersion ==
  /\ pc = "start"
  /\ \E ok \in AllocOutcomes \cap CallOutcomes :
       IF ok /\ Len(file) >= 1 /\ file[1] = "version"
       THEN /\ pc' = "loop"
            /\ pos' = 2
            /\ ret' = "nonzero"     \* ret holds the byte count read
       ELSE /\ GotoOut
            /\ UNCHANGED pos
  /\ UNCHANGED <<file, restore_mode, has_tmpl, poolVars, populated, submitted,
                 failed_jobs, quit, mem_skipped>>

(* Mutation: the loop is left straight for skip_mem, not draining the pool. *)
ExitLoopNoDrain ==
  /\ pc' = "skipmem"
  /\ UNCHANGED <<drain_i, drain_ret, drain_next>>

(* Leaving the record loop (end marker or vm_quit_interrupt): drain the    *)
(* pool if it was started, then continue at skip_mem.                     *)
ExitLoop ==
  /\ IF pool
     THEN /\ pc' = "drain"
          /\ drain_i' = 0
          /\ drain_ret' = "zero"
          /\ drain_next' = "skipmem"
     ELSE /\ pc' = "skipmem"
          /\ UNCHANGED <<drain_i, drain_ret, drain_next>>

(***************************************************************************)
(* One turn of while (!vm_quit_interrupt) for the end marker, a metadata   *)
(* record, the page-offsets record, a record read past the end of the     *)
(* file, and the template uuid record.                                    *)
(***************************************************************************)
ReadRecord ==
  /\ pc = "loop"
  /\ \/ /\ quit
        /\ ExitLoop
        /\ UNCHANGED <<pos, ret, has_tmpl>>
     \/ /\ ~quit
        /\ pos > Len(file)                 \* truncated file: the read fails
        /\ GotoOut
        /\ UNCHANGED <<pos, has_tmpl, drain_i, drain_ret, drain_next>>
     \/ /\ ~quit
        /\ pos <= Len(file)
        /\ Rec = "end"
        /\ ExitLoop
        /\ ret' = "nonzero"                 \* the 4 bytes of the marker
        /\ UNCHANGED <<pos, has_tmpl>>
     \/ /\ ~quit
        /\ pos <= Len(file)
        /\ Rec \in {"meta", "tmpluuid", "pageoffsets"}
        /\ \E ok \in CallOutcomes :
             IF ok
             THEN /\ pos' = pos + 1
                  /\ pc' = "loop"
                  \* struct reads leave the byte count in ret; the
                  \* page-offsets seek leaves 0
                  /\ ret' = IF Rec = "pageoffsets" THEN "zero" ELSE "nonzero"
                  /\ has_tmpl' = (has_tmpl \/ Rec = "tmpluuid")
             ELSE /\ GotoOut
                  /\ UNCHANGED <<pos, has_tmpl>>
        /\ UNCHANGED <<drain_i, drain_ret, drain_next>>
  /\ UNCHANGED <<file, restore_mode, pool, event_init, event, buf, job, dc_ret,
                 populated, submitted, failed_jobs, quit, mem_skipped>>

(***************************************************************************)
(* uxenvm_check_restore_clone, run before the zero bitmap and every page   *)
(* batch: in clone mode clone the template physmap once; a first-         *)
(* generation clone then jumps to skip_mem, past the rest of the stream.   *)
(* Result: "fail", "skip" or "go"; the mode after it.                     *)
(***************************************************************************)
CheckRestoreClone(ok) ==
  IF restore_mode # "clone" THEN [res |-> "go", mode |-> restore_mode]
  ELSE IF ~ok THEN [res |-> "fail", mode |-> restore_mode]
  ELSE IF ~has_tmpl THEN [res |-> "skip", mode |-> restore_mode]
  ELSE [res |-> "go", mode |-> "normal"]

(***************************************************************************)
(* XC_SAVE_ID_ZERO_BITMAP: read and LZ4-decompress the bitmap, check the   *)
(* clone, then uxenvm_load_zero_bitmap populates every zero frame on       *)
(* demand.                                                                *)
(***************************************************************************)
LoadZeroBitmap ==
  /\ pc = "loop"
  /\ ~quit
  /\ pos <= Len(file)
  /\ Rec = "zbitmap"
  /\ \E readOk \in CallOutcomes, cloneOk \in CallOutcomes, popOk \in CallOutcomes :
       LET c == CheckRestoreClone(cloneOk) IN
       IF ~readOk \/ c.res = "fail" \/ (c.res = "go" /\ ~popOk)
       THEN /\ GotoOut
            /\ UNCHANGED <<pos, restore_mode, has_tmpl, populated, mem_skipped>>
       ELSE IF c.res = "skip"
       THEN /\ pc' = "skipmem"
            /\ ret' = "zero"
            /\ has_tmpl' = TRUE
            /\ mem_skipped' = TRUE
            /\ UNCHANGED <<pos, restore_mode, populated>>
       ELSE /\ pc' = "loop"
            /\ ret' = "zero"
            /\ pos' = pos + 1
            /\ restore_mode' = c.mode
            /\ populated' = populated \cup {pos}
            /\ UNCHANGED <<has_tmpl, mem_skipped>>
  /\ UNCHANGED <<file, poolVars, submitted, failed_jobs, quit>>

(***************************************************************************)
(* uxenvm_load_readbatch up to the pool: read the frame list and, for a    *)
(* compressed batch, compress_size (-1 for a bulk batch stored raw); an    *)
(* uncompressed batch is populated on demand, mapped and read straight    *)
(* into guest memory; a compressed one is read into a malloc'd buffer and *)
(* needs a pool buffer.  Any failing read, allocation or hypercall goes   *)
(* to out.                                                                *)
(***************************************************************************)
uxenvm_load_readbatch(callOk) ==
  IF ~callOk
  THEN /\ GotoOut
       /\ UNCHANGED <<pos, populated>>
  ELSE IF Rec \in CompressedKinds
  THEN /\ pc' = "acquire"
       /\ UNCHANGED <<pos, ret, populated>>
  ELSE /\ pc' = "loop"
       /\ ret' = "zero"
       /\ pos' = pos + 1
       /\ populated' = populated \cup {pos}

(***************************************************************************)
(* A page batch (the default case of the record switch): the clone check,  *)
(* then uxenvm_load_batch decodes the marker and, for a compressed batch, *)
(* sets the pool up on first use; uxenvm_load_readbatch then reads the    *)
(* frame list and compress_size, and either populates on demand and reads *)
(* the pages straight into the mapped frames (raw batch, or bulk batch    *)
(* stored raw with compress_size -1), or hands the compressed bytes to a  *)
(* pool buffer.  This action covers every path up to the point where a    *)
(* compressed batch needs a buffer.  The pool set-up builds buffer after  *)
(* buffer; k of them get onto the list, and when the next one fails its   *)
(* calloc leaves nothing, a later allocation leaves it half built and on  *)
(* no list.  dc->xc_handle and the event are set only once all are *)
(* built.                                                                 *)
(***************************************************************************)
LoadBatch ==
  /\ pc = "loop"
  /\ ~quit
  /\ pos <= Len(file)
  /\ Rec \in BatchKinds
  /\ \E cloneOk \in CallOutcomes, callOk \in CallOutcomes,
        k \in (IF AllocCanFail THEN 0 .. DECOMPRESS_THREADS ELSE {DECOMPRESS_THREADS}),
        callocOk \in AllocOutcomes :
       LET c        == CheckRestoreClone(cloneOk)
           needPool == Rec \in CompressedKinds \cup {"bulkvain"} /\ ~pool
       IN
       IF c.res = "fail" \/ (c.res = "go" /\ Rec = "badmarker")
       THEN /\ GotoOut
            /\ UNCHANGED <<pos, restore_mode, has_tmpl, pool, event_init, buf,
                           dc_ret, populated, mem_skipped>>
       ELSE IF c.res = "skip"
       THEN /\ pc' = "skipmem"
            /\ ret' = "zero"
            /\ has_tmpl' = TRUE
            /\ mem_skipped' = TRUE
            /\ UNCHANGED <<pos, restore_mode, pool, event_init, buf, dc_ret,
                           populated>>
       ELSE \* the pool is set up before the batch is read
            /\ restore_mode' = c.mode
            /\ pool' = (pool \/ needPool)
            /\ event_init' = (event_init \/ (needPool /\ k = DECOMPRESS_THREADS))
            /\ buf' = IF needPool
                      THEN [i \in Bufs |-> IF i <= k THEN "free"
                                           ELSE IF i = k + 1 /\ callocOk THEN "lost"
                                           ELSE "none"]
                      ELSE buf
            /\ dc_ret' = IF needPool THEN FALSE ELSE dc_ret
            /\ UNCHANGED <<has_tmpl, mem_skipped>>
            /\ IF needPool /\ k < DECOMPRESS_THREADS
               THEN /\ GotoOut                    \* calloc / alloc_pages failed
                    /\ UNCHANGED <<pos, populated>>
               ELSE uxenvm_load_readbatch(callOk)
  /\ UNCHANGED <<file, job, event, drain_i, drain_ret, drain_next, submitted,
                 failed_jobs, quit>>

(***************************************************************************)
(* uxenvm_load_readbatch, threaded branch, once the compressed bytes are   *)
(* read: ioh_event_reset(&dc->process_event).  Workers may finish between *)
(* this step and the next.                                                *)
(***************************************************************************)
AcquireReset ==
  /\ pc = "acquire"
  /\ event' = FALSE
  /\ pc' = "take"
  /\ UNCHANGED <<file, restore_mode, has_tmpl, pos, ret, pool, event_init, buf,
                 job, dc_ret, drain_i, drain_ret, drain_next, populated,
                 submitted, failed_jobs, quit, mem_skipped>>

(* Mutation: the job is tagged with the batch after the one it carries.   *)
SubmitAfterAdvance(b, i) ==
  \E ok \in OpAddOutcomes :
    IF ok
    THEN /\ buf' = [b EXCEPT ![i] = "running"]
         /\ job' = [job EXCEPT ![i] = pos + 1]
         /\ submitted' = submitted \cup {pos}
         /\ pos' = pos + 1
         /\ pc' = "loop"
         /\ ret' = "zero"
    ELSE /\ buf' = [b EXCEPT ![i] = "lost"]
         /\ GotoOut
         /\ UNCHANGED <<job, submitted, pos>>

(* LIST_REMOVE the buffer, hand it the batch, async_op_add; a failed       *)
(* async_op_add leaves the buffer neither on the list nor with an op.     *)
Submit(b, i) ==
  \E ok \in OpAddOutcomes :
    IF ok
    THEN /\ buf' = [b EXCEPT ![i] = "running"]
         /\ job' = [job EXCEPT ![i] = pos]
         /\ submitted' = submitted \cup {pos}
         /\ pos' = pos + 1
         /\ pc' = "loop"
         /\ ret' = "zero"
    ELSE /\ buf' = [b EXCEPT ![i] = "lost"]
         /\ GotoOut
         /\ UNCHANGED <<job, submitted, pos>>

(* async_op_process, then fail if a worker recorded an error in dc->ret,   *)
(* else take LIST_FIRST or wait on the event.                              *)
AcquireTake ==
  /\ pc = "take"
  /\ LET b == ProcessCompleted(buf) IN
       IF dc_ret
       THEN /\ buf' = b
            /\ GotoOut
            /\ UNCHANGED <<job, submitted, pos>>
       ELSE IF ListFirst(b) # 0
       THEN Submit(b, ListFirst(b))
       ELSE /\ buf' = b
            /\ pc' = "waitbuf"
            /\ UNCHANGED <<job, submitted, pos, ret>>
  /\ UNCHANGED <<file, restore_mode, has_tmpl, pool, event_init, event, dc_ret,
                 drain_i, drain_ret, drain_next, populated, failed_jobs, quit,
                 mem_skipped>>

(* ioh_event_wait returns once a worker has set the event; process, and    *)
(* take LIST_FIRST or fail with "no decompress_buf_ctx".                  *)
AcquireWait ==
  /\ pc = "waitbuf"
  /\ event
  /\ LET b == ProcessCompleted(buf) IN
       IF ListFirst(b) # 0
       THEN Submit(b, ListFirst(b))
       ELSE /\ buf' = b
            /\ GotoOut
            /\ UNCHANGED <<job, submitted, pos>>
  /\ UNCHANGED <<file, restore_mode, has_tmpl, pool, event_init, event, dc_ret,
                 drain_i, drain_ret, drain_next, populated, failed_jobs, quit,
                 mem_skipped>>

(* Mutation: the worker puts its buffer back on the free list itself,      *)
(* bypassing decompress_complete on the control thread.                   *)
decompress_cbFreesBuffer(i) ==
  /\ buf[i] = "running"
  /\ \E ok \in JobOutcomes :
       IF ok
       THEN /\ populated' = populated \cup {job[i]}
            /\ UNCHANGED <<dc_ret, failed_jobs>>
       ELSE /\ dc_ret' = TRUE
            /\ failed_jobs' = failed_jobs \cup {job[i]}
            /\ UNCHANGED populated
  /\ buf' = [buf EXCEPT ![i] = "free"]
  /\ event' = TRUE
  /\ UNCHANGED <<file, restore_mode, has_tmpl, pc, pos, ret, pool, event_init,
                 job, drain_i, drain_ret, drain_next, submitted, quit,
                 mem_skipped>>

(***************************************************************************)
(* decompress_cb on a worker thread, and the async op completing: the     *)
(* batch is decompressed (or copied) and populated from the buffer; on    *)
(* failure the error goes to dc->ret.  The op is then done and the event  *)
(* is signalled for the control thread.                                   *)
(***************************************************************************)
decompress_cb(i) ==
  /\ buf[i] = "running"
  /\ \E ok \in JobOutcomes :
       IF ok
       THEN /\ populated' = populated \cup {job[i]}
            /\ UNCHANGED <<dc_ret, failed_jobs>>
       ELSE /\ dc_ret' = TRUE
            /\ failed_jobs' = failed_jobs \cup {job[i]}
            /\ UNCHANGED populated
  /\ buf' = [buf EXCEPT ![i] = "completed"]
  /\ event' = TRUE
  /\ UNCHANGED <<file, restore_mode, has_tmpl, pc, pos, ret, pool, event_init,
                 job, drain_i, drain_ret, drain_next, submitted, quit,
                 mem_skipped>>

(***************************************************************************)
(* decompress_wait_all: assert(dc->xc_handle), which a pool whose set-up  *)
(* failed half way never got, so the process aborts; then                *)
(* DECOMPRESS_THREADS times reset the event, process, and free            *)
(* LIST_FIRST, waiting on the event when the list is empty.  A turn that  *)
(* finds no buffer even after the wait sets ret = -1.  Then the event and *)
(* the async op context are freed.                                        *)
(***************************************************************************)
DrainReset ==
  /\ pc = "drain"
  /\ drain_i < DECOMPRESS_THREADS
  /\ IF drain_i = 0 /\ ~event_init
     THEN /\ pc' = "aborted"
          /\ UNCHANGED event
     ELSE /\ event' = FALSE
          /\ pc' = "draintake"
  /\ UNCHANGED <<file, restore_mode, has_tmpl, pos, ret, pool, event_init, buf,
                 job, dc_ret, drain_i, drain_ret, drain_next, populated,
                 submitted, failed_jobs, quit, mem_skipped>>

(* Mutation: LIST_FIRST without async_op_process first.                  *)
DrainTakeNoProcess ==
  /\ pc = "draintake"
  /\ IF ListFirst(buf) # 0
     THEN /\ buf' = [buf EXCEPT ![ListFirst(buf)] = "none"]
          /\ drain_i' = drain_i + 1
          /\ pc' = "drain"
     ELSE /\ pc' = "drainwait"
          /\ UNCHANGED <<buf, drain_i>>
  /\ UNCHANGED <<file, restore_mode, has_tmpl, pos, ret, pool, event_init, event,
                 job, dc_ret, drain_ret, drain_next, populated, submitted,
                 failed_jobs, quit, mem_skipped>>

DrainTake ==
  /\ pc = "draintake"
  /\ LET b == ProcessCompleted(buf) IN
       IF ListFirst(b) # 0
       THEN /\ buf' = [b EXCEPT ![ListFirst(b)] = "none"]
            /\ drain_i' = drain_i + 1
            /\ pc' = "drain"
       ELSE /\ buf' = b
            /\ pc' = "drainwait"
            /\ UNCHANGED drain_i
  /\ UNCHANGED <<file, restore_mode, has_tmpl, pos, ret, pool, event_init, event,
                 job, dc_ret, drain_ret, drain_next, populated, submitted,
                 failed_jobs, quit, mem_skipped>>

(* The wait returns when the event is set.                                *)
DrainWait ==
  /\ pc = "drainwait"
  /\ event
  /\ LET b == ProcessCompleted(buf) IN
       IF ListFirst(b) # 0
       THEN /\ buf' = [b EXCEPT ![ListFirst(b)] = "none"]
            /\ UNCHANGED drain_ret
       ELSE /\ buf' = b
            /\ drain_ret' = "nonzero"
  /\ drain_i' = drain_i + 1
  /\ pc' = "drain"
  /\ UNCHANGED <<file, restore_mode, has_tmpl, pos, ret, pool, event_init, event,
                 job, dc_ret, drain_next, populated, submitted, failed_jobs,
                 quit, mem_skipped>>

(* Mutation: the pool is torn down one turn early.                       *)
DrainEndEarly ==
  /\ pc = "drain"
  /\ drain_i >= DECOMPRESS_THREADS - 1
  /\ pool' = FALSE
  /\ event_init' = FALSE
  /\ IF drain_next = "skipmem"
     THEN /\ ret' = drain_ret
          /\ pc' = IF drain_ret = "zero" THEN "skipmem" ELSE "returned"
     ELSE /\ pc' = "returned"
          /\ UNCHANGED ret
  /\ UNCHANGED <<file, restore_mode, has_tmpl, pos, event, buf, job, dc_ret,
                 drain_i, drain_ret, drain_next, populated, submitted,
                 failed_jobs, quit, mem_skipped>>

(* After the loop the result of decompress_wait_all becomes ret and a      *)
(* failure goes to out; at out it is ignored and ret is returned.          *)
DrainEnd ==
  /\ pc = "drain"
  /\ drain_i = DECOMPRESS_THREADS
  /\ pool' = FALSE
  /\ event_init' = FALSE
  /\ IF drain_next = "skipmem"
     THEN /\ ret' = drain_ret
          /\ pc' = IF drain_ret = "zero" THEN "skipmem" ELSE "returned"
     ELSE /\ pc' = "returned"
          /\ UNCHANGED ret
  /\ UNCHANGED <<file, restore_mode, has_tmpl, pos, event, buf, job, dc_ret,
                 drain_i, drain_ret, drain_next, populated, submitted,
                 failed_jobs, quit, mem_skipped>>

(* out: drain the pool if it is still set up, then return ret.             *)
Out ==
  /\ pc = "out"
  /\ IF pool
     THEN /\ pc' = "drain"
          /\ drain_i' = 0
          /\ drain_ret' = "zero"
          /\ drain_next' = "returned"
     ELSE /\ pc' = "returned"
          /\ UNCHANGED <<drain_i, drain_ret, drain_next>>
  /\ UNCHANGED <<file, restore_mode, has_tmpl, pos, ret, pool, event_init, event,
                 buf, job, dc_ret, populated, submitted, failed_jobs, quit,
                 mem_skipped>>

(***************************************************************************)
(* skip_mem: an interrupted load returns ret as it stands.  A template     *)
(* sets its handle; any other load applies the deferred records (hvm      *)
(* params, magic pfns, dmreq pages, context), of which the shared_info    *)
(* mapping and the two dmreq params are checked.  Then ret = 0.           *)
(***************************************************************************)
SkipMem ==
  /\ pc = "skipmem"
  /\ IF quit
     THEN /\ pc' = "out"
          /\ UNCHANGED ret
     ELSE \E ok \in CallOutcomes :
            /\ pc' = "out"
            /\ ret' = IF ok THEN "zero" ELSE "nonzero"
  /\ UNCHANGED <<file, restore_mode, has_tmpl, pos, poolVars, populated,
                 submitted, failed_jobs, quit, mem_skipped>>

(* vm_quit_interrupt is set by another thread at any time.                 *)
QuitInterrupt ==
  /\ ~quit
  /\ pc # "returned"
  /\ quit' = TRUE
  /\ UNCHANGED <<file, restore_mode, has_tmpl, pc, pos, ret, poolVars,
                 populated, submitted, failed_jobs, mem_skipped>>

(* The load has returned to vm_load: nothing more happens.                 *)
Returned ==
  /\ pc = "returned"
  /\ UNCHANGED vars

Control ==
  \/ ReadVersion \/ ReadRecord \/ LoadZeroBitmap \/ LoadBatch
  \/ AcquireReset \/ AcquireTake \/ AcquireWait
  \/ DrainReset \/ DrainTake \/ DrainWait \/ DrainEnd
  \/ Out \/ SkipMem

Next ==
  \/ Control
  \/ \E i \in Bufs : decompress_cb(i)
  \/ QuitInterrupt
  \/ Returned

(* The control thread and every worker thread keep running while they can; *)
(* the quit interrupt is an environment event and need not happen.        *)
Spec ==
  /\ Init /\ [][Next]_vars
  /\ WF_vars(Control)
  /\ \A i \in Bufs : WF_vars(decompress_cb(i))


-----------------------------------------------------------------------------
(* Properties *)

TypeOK ==
  /\ file \in Files
  /\ restore_mode \in RestoreModes
  /\ has_tmpl \in BOOLEAN
  /\ pc \in Locations
  /\ pos \in 1 .. Len(file) + 1
  /\ ret \in {"zero", "nonzero"}
  /\ pool \in BOOLEAN /\ event_init \in BOOLEAN /\ event \in BOOLEAN
  /\ buf \in [Bufs -> BufStates]
  /\ job \in [Bufs -> 0 .. Len(file)]
  /\ dc_ret \in BOOLEAN
  /\ drain_i \in 0 .. DECOMPRESS_THREADS
  /\ drain_ret \in {"zero", "nonzero"}
  /\ drain_next \in {"skipmem", "returned"}
  /\ populated \subseteq 1 .. Len(file)
  /\ submitted \subseteq 1 .. Len(file)
  /\ failed_jobs \subseteq submitted
  /\ quit \in BOOLEAN /\ mem_skipped \in BOOLEAN

(* The batches being decompressed right now.                              *)
InFlight == {job[i] : i \in {k \in Bufs : buf[k] = "running"}}

(* The records before position p that carry guest memory.                 *)
MemRecords(p) ==
  {q \in 1 .. p - 1 : file[q] \in {"raw", "bulk", "bulkvain", "perpage", "zbitmap"}}

(* Every compressed batch handed to the pool (uxenvm_load_readbatch,       *)
(* LIST_REMOVE + async_op_add) is, at every moment, either populated by   *)
(* its worker, recorded as failed, or still held by exactly one running   *)
(* buffer: the free-list discipline never hands a buffer that is still in *)
(* use to a second batch, so no batch is silently dropped.                *)
JobsAccounted ==
  /\ submitted = (submitted \cap populated) \cup failed_jobs \cup InFlight
  /\ failed_jobs \cap populated = {}

(* decompress_wait_all tears the pool down (async_op_free, ioh_event_close) *)
(* only when no worker still runs a job and no finished job still waits   *)
(* for decompress_complete, and every buffer it allocated is freed or was *)
(* lost to a failed async_op_add.                                         *)
PoolTornDownIdle ==
  ~pool => \A i \in Bufs : buf[i] \in {"none", "lost"}

(* When uxenvm_loadvm_execute reaches skip_mem to apply the VM context,   *)
(* every page batch and zero bitmap before the end marker has reached     *)
(* guest memory, unless a worker failed, the load was interrupted, or a   *)
(* first-generation clone skipped the memory records.                     *)
ContextAfterMemory ==
  (pc = "skipmem" /\ ~quit /\ failed_jobs = {} /\ ~mem_skipped)
     => MemRecords(pos) \subseteq populated

(* The spec (the Decompression Pool: "a failed job ... does fail the       *)
(* overall restore once drained"): a load that ran to its end and returns *)
(* 0 had no failed decompression job.  decompress_wait_all does not look  *)
(* at dc->ret.  A load stopped by vm_quit_interrupt is left out: the spec  *)
(* defines no cancellation of a restore.                                  *)
FailedJobFailsLoad ==
  (pc = "returned" /\ ret = "zero" /\ ~quit) => failed_jobs = {}

(* The spec (Error Handling: a ResourceError is "recovered at the          *)
(* operation boundary" and surfaced to the caller): whatever allocation  *)
(* fails during the load, uxenvm_loadvm_execute returns to vm_load with an *)
(* error; the process never stops on a failed assertion on the way out,  *)
(* as decompress_wait_all's assert(dc->xc_handle) does after a pool set-up *)
(* that failed half way.                                                  *)
ErrorsReturned == pc # "aborted"

(* Every load returns to vm_load: neither the submitting wait in          *)
(* uxenvm_load_readbatch nor the drain in decompress_wait_all waits       *)
(* forever.                                                               *)
LoadTerminates == <>(pc = "returned")

-----------------------------------------------------------------------------
(***************************************************************************)
(* Refinement: the pool as uxenvm_load_readbatch, decompress_cb,           *)
(* decompress_complete and decompress_wait_all implement it is the        *)
(* abstract DecompressPool.  A job is the file position of its batch; it  *)
(* is running while its buffer is with a worker, finished while its       *)
(* buffer waits for decompress_complete.                                  *)
(***************************************************************************)
JobIds == UNION {DOMAIN f : f \in Files}

Pool == INSTANCE DecompressPool
          WITH N        <- DECOMPRESS_THREADS,
               Jobs     <- JobIds,
               open     <- pool,
               running  <- InFlight,
               finished <- {job[i] : i \in {k \in Bufs : buf[k] = "completed"}},
               issued   <- submitted,
               ok       <- submitted \cap populated,
               failed   <- failed_jobs

(* The free-list discipline of the pool, the workers and the drain         *)
(* implement the abstract pool: no buffer carries two jobs, no job is      *)
(* dropped or worked twice, completions are processed only for finished   *)
(* jobs, the pool is closed only when it holds no job, and every          *)
(* submitted job is eventually worked.                                    *)
PoolRefinement == Pool!PSpec

=============================================================================
