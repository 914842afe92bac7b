# TLA+ models of the uXen VM save/restore path and console keyboard

This directory holds TLA+ models of `src/dm/vm-save.c`, the device-model
code that saves a running uXen guest to a file and restores it, and of the
keyboard path of the Windows console client
(`src/common/uxenconsole/uxenconsole-windows.c`), and the TLC
configurations that check them. Every definition is translated from the C
source. `PROJECT.json` maps each definition to the lines it models, lists the
runs, the mutants that show each property can fail, the findings and the
hazards.

## The system

`vm-save.c` has two halves that share one file format.

* **Save** (`vm_save_execute` → `uxenvm_savevm_write_info`, then
  `uxenvm_savevm_write_pages`, then `vm_save_finalize`).
  * The metadata records go first.
  * The page loop walks the guest frames in batches of up to
    `MAX_BATCH_SIZE`. For each batch it:
    * captures the frames with `xc_domain_memory_capture`;
    * drops zero and populate-on-demand pages, recording them in a zero
      bitmap;
    * writes each batch as one of three kinds: raw, per-page LZ4 (a `cs16_t`
      size before every page) or bulk LZ4 (one `compress_size`, with -1
      meaning "stored raw");
    * with `free_mem` off, repopulates ("rezeroes") the pages it dropped.
  * After the loop come the zero-bitmap record, the page-offset index
    (`pfn_off`, the file offset of every raw or per-page page, compacted over
    the PCI hole) and the end marker.
  * The loop and the two trailers are skipped once `save_abort` or
    `vm_quit_interrupt` is set.
* **Restore** (`vm_load` → `uxenvm_loadvm_execute`).
  * A loop reads records by marker.
  * Page batches go through `uxenvm_load_batch` and `uxenvm_load_readbatch`.
    Uncompressed batches are populated directly. Compressed ones are handed
    to a pool of `DECOMPRESS_THREADS` buffers:
    * `readbatch` takes a free buffer, waiting on `process_event` and running
      `decompress_complete` when none is free;
    * it submits the buffer with `async_op_add`;
    * a worker runs `decompress_cb`, which decompresses and populates;
    * `decompress_wait_all` drains the pool on every exit from the loop.
  * After the loop (`skip_mem`) the deferred metadata (hvm context, dm state
    and so on) is applied.
* **Shared format.**
  * The batch marker is `count + k * MAX_BATCH_SIZE`, where k is 0 for raw,
    1 for bulk and 2 for per-page.
  * Negative markers name records (`XC_SAVE_ID_*`).
  * `skip_pci_hole` and `poi_valid_pfn` index frames.

The **console client** (`uxenconsole-windows.c`) is a separate program. It
shows the guest's framebuffer in a host window and forwards input to the
guest. One thread runs `main_loop`, which dispatches one window message at a
time to `window_proc`. Key messages become `uxenconsole_keyboard_event`
calls. A dead-key composition (dead key, then the key it composes with) and
IME or injected `VK_PACKET` input are handled by the `kbd_state` machine of
`struct console`. In its `DEADKEY_*`, `COMPKEY_PRESSED` and `UNICODE`
states it holds key events back and sends the composed character from
`WM_CHAR` instead.

## Modules

| Module | Models | State ↔ code |
|---|---|---|
| `SaveFormat` | Markers, `EncodeBatchMarker` (write_pages 673-684), `DecodeBatchMarker` (load_batch 1295-1309), `skip_pci_hole`, `poi_valid_pfn`, the `max_gpfn`/`pfn_off_nr` arithmetic, and the zero-bitmap replay `uxenvm_load_zero_bitmap` (recursive `ZeroBitmapCalls`) | Pure operators, no variables |
| `MetaRecords` | The metadata records: `WriteInfo` (`uxenvm_savevm_write_info`), `LoadInfo` (the record loop's struct reads), `ApplyDeferred` (`skip_mem` for a non-template load), `LoadFinish` (`uxenvm_loadvm_execute_finish`) | Pure operators over records; each early return is a named failure point |
| `MCSaveFormat` | Checks those operators over every marker in -3..3·MAX+3, every (count, variant) pair, every memory size up to 9 frames, every zero bitmap of up to 16 frames with batch limits 1-3, and every small domain (params, magic pfns, dm state, template records) with every single failure point | `input`: one input per initial state |
| `VmSave` | `uxenvm_savevm_write_pages`, `vm_save_execute`'s result and `vm_save_finalize`, plus a decoder that reads the file back the way the loader does | See below |
| `MCVmSave` | The compression settings (`CompressSettings`) for the save runs. `mc_savevm_settings` is every (compress_mode, single_page) pair `mc_savevm` and `vm_save` can set | — |
| `VmLoad` | `uxenvm_loadvm_execute`, `uxenvm_load_batch`, `uxenvm_load_readbatch`, `decompress_cb`, `decompress_complete`, `decompress_wait_all` | See below |
| `MCVmLoad` | The record streams the loader is given: well-formed ones with up to 3 batches, and malformed ones | — |
| `DecompressPool` | What the decompression pool promises, without buffers or events: at most N jobs held, each worked once with a result, held until its completion is processed, closed only when empty | `open`, `running`, `finished`, `issued`, `ok`, `failed` |
| `SaveResume` | `vm_resume` after a save: `vm_restore_memory` reading the page batches back from `page_batch_offset` | Extends `VmSave`; see below |
| `MCSaveResume` | Composes `SaveResume` with the settings of `MCVmSave` | — |
| `ConsoleKeyboard` | The key and char messages of `window_proc`: the `kbd_state` switch, `sendkey`, `WM_CHAR` | See below |
| `MCConsoleKeyboard` | The keys and the two keyboard layouts the console runs use | — |

**VmSave**.

Variables:
* `guest` (frame → content), `info` (the `gpfn_info_list` types), `file` (a
  sequence of cells, one per `filebuf_write` group), `poi` (`pfn_off`),
  `zero`, `repop`, `pfn`, `idx_off`;
* `compress`, `single_page` and `free_mem`, the `vm_save_info` settings;
* `save_abort` and `quit`;
* `kept`, the result of finalize.

Actions:
* `Start` is the setup before the loop (it may fail).
* `WriteBatch` is one whole turn of the `while` loop at line 619. It covers
  the capture, the classification of the pages, the marker and pfn list, the
  raw, per-page or bulk body, the zero-bitmap bits and the rezero, in the
  code's order.
* `EndLoop`, `WriteIndex` (806-843) and `WriteEnd` (845-868) come after the
  loop.
* `Finalize` is `vm_save_finalize`.
* `Interrupt` sets `vm_quit_interrupt` or `save_abort`. The code that sets
  `save_abort` is outside src/, so this action is marked spec_modelled.

Page contents are model values:
* `ZeroPage`;
* `"pod"`, a populate-on-demand frame;
* `"hzero"`, a hypervisor zero page;
* the members of `Data`.

`Compressible` is the set of contents that LZ4 shrinks.

`Decode` is a recursive reader of `file`, following `uxenvm_loadvm_execute`
and `decompress_batch`. `LazyRead` follows `vm_lazy_load_page`.

**VmLoad**.

Variables:
* `pc` is the control thread's location. Its values are the code's labels and
  wait points: `loop`, `acquire`, `take`, `waitbuf`, `drain`, `draintake`,
  `drainwait`, `skipmem`, `out`, `returned`, and `aborted` for the process
  stopped by a failed `assert`.
* `pos` is the record being read.
* `pool`, `buf`, `job`, `event`, `event_init`, `dc_ret` and `drain_*` model
  `struct decompress_ctx` and its buffers.
* `populated`, `submitted` and `failed_jobs` are the batches populated,
  submitted and failed.
* `quit`.

Actions:
* There is one action per step between two blocking points of the control
  thread:
  * `ReadVersion`, `ReadRecord`, `LoadZeroBitmap` and `LoadBatch`, which uses
    `uxenvm_load_readbatch`;
  * `AcquireReset`, `AcquireTake`, `AcquireWait` and `Submit`;
  * `DrainReset`, `DrainTake`, `DrainWait` and `DrainEnd`;
  * `ExitLoop`, `SkipMem` and `Out`.
* One `decompress_cb(i)` action per buffer stands for the worker.
* `QuitInterrupt` stands for another thread.

Failure and event constants:
* Every hypercall, read and allocation may fail, each through its own
  constant (`CallCanFail`, `JobCanFail`, `AllocCanFail`, and `OpAddCanFail`
  for `async_op_add`).
* A pool set-up can fail at any of its buffers. `k` buffers reach the free
  list; when the next one fails after its `calloc` it is left half built on
  no list (`lost`). `dc->xc_handle` and the event are set only when all are
  built (1344-1347), which `event_init` records.
* `DrainReset` takes the asserts at the top of `decompress_wait_all`
  (1055-1056): after a half-built pool `xc_handle` is still 0, and the
  process aborts (`pc = "aborted"`). Nothing under `src/` defines `NDEBUG`.
  So a drain never waits on an event that was not initialised.

**DecompressPool and the refinement.** `VmLoad` defines `Pool == INSTANCE
DecompressPool` with this mapping:
* `open` is `pool`.
* `running` is the jobs of the buffers with a worker (`InFlight`).
* `finished` is the jobs of the buffers in state `completed`.
* `issued` is `submitted`, `ok` is the submitted batches that were
  populated, and `failed` is `failed_jobs`.

`PoolRefinement == Pool!PSpec` is checked as a PROPERTY. So every step of the
free list, `async_op_add`, `decompress_cb`, `decompress_complete` and the
drain is a step of the abstract pool or a stutter. The abstract `Work(j)` has
weak fairness. That is implied by the weak fairness of each worker in `VmLoad`.

**SaveResume**.

Variables:
* `rpc` is the location in `vm_resume`: `idle`, `loop`, `out`, `resumed`.
* `rpos` is the cell of the save file being read.
* `restored` is the frames repopulated, with their content.
* `rfail` is the result of `vm_restore_memory`.
* `dc_failed` is `dc.ret`.

Actions:
* `ResumeStart` is the seek to `page_batch_offset` and the allocation, taken
  only with `free_mem`.
* `RestoreRecord` is one turn of the restore loop. It covers the end marker,
  the skipped zero-bitmap and page-offset records, and a page batch through
  `uxenvm_load_batch`. A compressed batch's job may fail, and it fails the next
  compressed batch.
* `ResumeEnd` is the drain, whose result is discarded, and the resume.

`VmFrame(p)` is what the running VM sees after the save: the restored content,
else `absent` if the capture removed the frame, else the old content.

**MetaRecords**. A domain is a record of its hvm params (the four generic
ones and the five magic pfns), tsc, context, dm-state size and template
records. The operators are:
* `WriteInfo` writes the records in the code's order. It omits zero generic
  params. It saves a 0 for any param whose `xc_get_hvm_param` fails, because
  that result is not checked.
* `LoadInfo` keeps the last value of each record, as the `s_*` structs do.
* `ApplyDeferred` gives the params, tsc, context and mapcache a fresh domain
  ends with. It also gives the frames that `skip_mem` clears or maps over (the
  console page, the io range, the dmreq page, and shared_info unless its pfn
  is 0). Only `add_to_physmap` and the two dmreq params are checked. Every
  other set call in `setFails` fails silently.
* `LoadFinish` replays a non-empty dm state.

**ConsoleKeyboard**.

Variables:
* `kbd_state`, `kbd_dead_key`, `kbd_comp_key`, `kbd_last_key` and
  `kbd_unicode_key` are the fields of `struct console`. `NoKey` is the 0
  that `memset` gives them.
* `held` is the keys physically down. It is the environment.
* `guest` is the keys the guest has been sent a down event for and no up
  event since.

Actions:
* `KeyDown(k)` is a key going down or autorepeating. `KeyUp(k)` is a held
  key coming up. Each is one whole `window_proc` call: `kbd_last_key`, then
  the switch, with one operator per case (`OnNormal`, `OnDeadKeyPressed`,
  `OnDeadKeyReleased`, `OnCompKeyPressed`, `OnUnicode`) and `sendkey`.
* A key is its scancode. Its `wParam` is the key itself, except for an IME
  key: that key's down is `VK_PROCESSKEY`, and its up is either
  `VK_PROCESSKEY` or the key itself.
* `layout` is the active keyboard layout (`GetKeyboardLayout(0)`), chosen
  at start and fixed. A layout names its dead keys and its IME keys.
* `ToUnicodeEx` is reduced to the one result the code branches on: -1 on the
  down of a dead key of the layout (`DeadKeys`).
* `Char(k)` is `WM_CHAR` in `COMPKEY_PRESSED` or `UNICODE`. It sends a down
  and an up with the scancode of the held key it was translated from.

## Runs

| Run | Expect | What it shows |
|---|---|---|
| `format` | pass | The batch marker round-trips for every count and variant. The decoder agrees with a reference over all markers, negative ones included. Every indexed frame gets a distinct in-bounds slot in `pfn_off`. `ZeroBitmapReplayExact`: the zero-bitmap replay populates every set bit once, in order, in calls of at most the batch limit, the last partial batch included. `MetaRoundTrip`: with reliable get/set calls, a save followed by a load that returns 0 restores every param, magic pfn, the tsc, context and mapcache, replays the dm state, and clears no guest frame outside the domain's special pages. |
| `load_pool` | pass | Checks these, with failing jobs and failing calls: <ul><li>`PoolRefinement`: the pool refines `DecompressPool`.</li><li>`JobsAccounted`: every submitted job is populated, failed or in flight, never two of these.</li><li>`PoolTornDownIdle`: the pool is only released with no buffer running.</li><li>`ContextAfterMemory`: `skip_mem` is reached only after every batch is populated.</li><li>`LoadTerminates`: the load always returns.</li></ul> |
| `load_alloc` | violation | `ErrorsReturned` (spec.md section 7: a resource error is surfaced to the caller) fails. When a pool buffer's allocation fails, the load goes to `out`, drains the pool, and `assert(dc->xc_handle)` at 1056 stops the device model, because `xc_handle` is only set once every buffer is built (1347). |
| `load_failedjob` | violation | `FailedJobFailsLoad` fails: a job failing after the last submission is ignored by the drain at the end marker, and a load that was never interrupted returns 0. Loads stopped by `vm_quit_interrupt` are excluded; spec.md defines no cancellation of a restore. |
| `load_hang` | violation | After `async_op_add` fails, the drain waits forever for the lost buffer. |
| `save_resume` | pass | Save composed with `vm_resume`, for every setting, content and interruption: <ul><li>`SaveRestoresGuest`: a save that reaches the end marker decodes to the captured guest.</li><li>`IndexedSaveLocatesData`: in raw and per-page mode the index locates every saved page's data. Bulk LZ4 is left out because its branch (773-792) writes no `pfn_off` entry at all, although spec.md section 3 says the index covers bulk pages too.</li><li>`ResumedDataIntact`: after a `free_mem` save the resumed VM has every data frame back, with reliable calls.</li></ul> |
| `save_faults` | violation | With both faults enabled (`MCVmSave_capture.cfg`): a short `xc_domain_memory_capture` loses pages and a zero bitmap stored raw is rejected by the loader, yet the save reports success. Each fault alone violates the invariant at these bounds; TLC prints the shorter trace (the capture one). |
| `save_abort` | violation | An interrupted save returns 0 with no index and no end marker. |
| `resume_fail` | violation | When a read, populate or job of `vm_restore_memory` fails, `vm_resume` resumes the VM anyway with frames missing. |
| `console_keys` | pass | `SwallowingStateHeld`: every `kbd_state` that holds key events back belongs to a key that is still held (the dead key, the compose key, the IME or `VK_PACKET` key). So once all keys are up the console is in `NORMAL` or `DEADKEY_RELEASED`, and no composition that is over keeps swallowing keys. Checked for a dead-key layout and an IME layout, with autorepeat, `VK_PACKET` and `WM_CHAR`. |
| `console_stuckkey` | violation | `GuestKeysHeld` (every key the guest holds is held on the host) fails. A key sent down before the console enters `UNICODE` or `COMPKEY_PRESSED` loses its up event there. TLC's trace is Shift down, an IME key down (`UNICODE`), Shift up (dropped). Without IME keys the dead-key path does the same. One trace is Shift down, dead key down, a Shift autorepeat (taken as the compose key, `COMPKEY_PRESSED`), Shift up (state back to `NORMAL`, up dropped). Another is Shift down, dead key down and up, E down, Shift up. |
| `meta_ignored` | violation | A failed `xc_get_hvm_param` on save (frame 0 is later cleared) or `xc_domain_hvm_setcontext` on load (the context is lost) still gives a load that returns 0. |

The findings in `PROJECT.json` give the source lines behind each violation.

## Bounds

* **`format`:**
  * `MAX_BATCH_SIZE` is the real 1023, so every range boundary of the marker
    is checked exactly.
  * The hole is 3..6 within a guest of up to 9 frames. This covers guests
    that end below, inside and above the hole.
  * The zero-bitmap replay is checked with batch limits 1, 2 and 3 rather than
    1023. With bitmaps of up to 16 frames (two bytes), a batch fills exactly,
    fills more than once, and ends partial at the last bit. It also covers
    padding bits past `p2m_size` and the empty bitmap.
  * Domains take param values from {0, 2, 3}. The io range, the dmreq pfns
    and the mapcache are always set, as on a uXen domain. The shared_info pfn
    and the generic params may be 0. That covers the 'ignore 0' case, omitted
    records, and overlapping special pages. Each failure point is tried alone.
* **Save runs:**
  * `MAX_BATCH_SIZE` is 2 and `P2M` is 5, with the hole at 2..3. So a batch
    straddles the hole, a guest has several batches, and the last one is
    short.
  * Two data values are used, one compressible and one not. This puts every
    branch of the per-page and bulk code in play: shrinks or not, and
    `compress_size` -1.
  * `save_faults` uses 3 frames to stay within time. It still reaches both
    faults: each one alone violates the invariant at these bounds.
  * `save_resume` runs with every setting and interruption. `resume_fail` turns
    on failing calls and jobs.
* **Console runs:** six keys: Shift (no character), E, two dead keys, an IME
  key and `VK_PACKET`. There are two layouts: a European one with the dead
  keys and a CJK one with the IME key. That covers every `kbd_state` and
  every `wParam` case. Two dead keys let one dead key follow another, and
  the search reaches depth 16 with all six keys held. The stuck key needs
  only three messages. The model does not switch layouts in a session.
  A dead key followed by an IME key (the hazard at line 194) needs such a
  switch.
* **Load runs:**
  * Two buffers and up to three compressed batches make a submission wait for
    a buffer and reuse it.
  * Every record kind appears, plus truncated, bad-version and bad-marker
    streams.
  * `load_alloc` and `load_hang` each enable one allocation fault alone
    (pool set-up, `async_op_add`), so each trace shows its own fault.
    Pool set-up may fail at the first or second buffer, before or after
    its `calloc`.

## Fairness

`VmLoad` assumes weak fairness of the control thread and of each worker's
`decompress_cb`:
* the OS keeps scheduling a runnable thread;
* `async_op` runs every submitted job.

`QuitInterrupt` has no fairness. `DecompressPool` asks weak fairness of each
`Work(j)`. A job is running only while its buffer's worker can run, so this
follows from the worker fairness above. `VmSave`, `SaveResume` and
`MetaRecords` and `ConsoleKeyboard` are checked only with invariants, so they need no fairness.

## Not modelled

* In `VmLoad` the metadata records are one `meta` record. Their contents and
  their application are in `MetaRecords`. The uuid and template-file records
  are kept without values. The Windows-only introspection record is left out.
  So is the vcpu map, which is read but never applied.
* The order of the hypercalls inside `skip_mem`. `MetaRoundTrip` checks which
  frames are cleared, not when. The code clears the console and io pages
  before it maps shared_info, while the spec asks for the mapping first. The
  hypervisor side of that is outside src/.
* The result of a load interrupted by `vm_quit_interrupt` (line 1675). It is
  whatever `ret` the last record left, but quitting ends the device model.
* The implementation of `async_op` (`async-op.h` holds only declarations).
* In the console client: mouse capture and coordinate clamping, resize
  requests, surface allocation, painting and the cursor. These are Win32
  I/O glue, and no property is about them. Focus changes are also left out:
  `window_proc` has no `WM_KILLFOCUS` handling, so key-ups that go to
  another window are simply never seen.
* The OS X console and the v4v clients, which are I/O glue.

Lazy load is dead in this build (`do_lazy_load = 0`, line 1449). Only its
page lookup is modelled.

## Plan for later work

1. Let the layout change during a session (a layout hot-key in the middle
   of a composition). That reaches the `kbd_comp_key` hazard at line 194.
2. Compose `VmLoad` with `MetaRecords`, so that the loader's record loop
   carries values instead of one `meta` record.
3. A refinement of `SaveResume`'s restore loop to `VmLoad`'s batch loading.
4. The save controller: `mc_savevm`'s settings are modelled
   (`mc_savevm_settings`). The handshake `vm_save` → `vm_process_suspend` →
   `vm_save_execute`, and who sets and clears `save_abort`, run through code
   outside src/. A model of several saves in a row would show the stale
   `save_abort` hazard (line 1993).
