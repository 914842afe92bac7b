---------------------------- MODULE MetaRecords ----------------------------
(***************************************************************************)
(* The metadata records of a save file (src/dm/vm-save.c) from the domain *)
(* state they are read from to the domain state they are applied to:      *)
(* uxenvm_savevm_write_info writes them, the record loop of               *)
(* uxenvm_loadvm_execute buffers them in its s_* structs, skip_mem applies *)
(* them after the page records, and uxenvm_loadvm_execute_finish replays  *)
(* the device-model state.  Pure operators over records: one call of each *)
(* function is one operator, its early returns the failure points.        *)
(***************************************************************************)
EXTENDS SaveFormat, FiniteSets

(* The hvm params saved as xc_save_hvm_generic_chunk records, in the order *)
(* uxenvm_savevm_write_info writes them.                                  *)
GenericParams == <<"ident_pt", "vm86_tss", "console_pfn", "acpi_ioports_location">>

(* The five entries of xc_save_hvm_magic_pfns.magic_pfns.                  *)
MagicParams == {"io_pfn_first", "io_pfn_last", "shared_info_pfn", "dmreq_pfn",
                "dmreq_vcpu_pfn"}

Params == {GenericParams[i] : i \in 1 .. Len(GenericParams)} \cup MagicParams

(* The three early returns of uxenvm_savevm_get_dm_state, each EPERM.     *)
GetDmStateFailPoints == {"qemu_memopen", "qemu_savevm_state", "qemu_meminfo"}

(* The early returns of vm_save_execute before and in write_info.          *)
SaveFailPoints == GetDmStateFailPoints \cup
                  {"get_tsc_info", "getinfo", "getcontext_size", "hvm_buf_malloc",
                   "getcontext"}

(* The failures that end the record loop, skip_mem and the finish step.   *)
LoadFailPoints == {"hvm_buf_load", "dm_state_load_buf", "add_to_physmap",
                   "set_dmreq_vcpu_pfn", "set_dmreq_pfn", "qemu_memopen",
                   "qemu_loadvm_state"}

Rec(id, v) == [id |-> id, v |-> v]

(***************************************************************************)
(* uxenvm_savevm_write_info for domain d.  getFails are the params whose   *)
(* xc_get_hvm_param fails: the result is not checked, so the 0 the field   *)
(* was set to is saved.  A generic param is written only when non-zero,   *)
(* the magic pfns always.  fail is the step that returns early, if any; a *)
(* failed save closes its file with delete-on-close set, so nothing of it *)
(* survives.                                                              *)
(***************************************************************************)
WriteInfo(d, getFails, fail) ==
  LET got(p)  == IF p \in getFails THEN 0 ELSE d.param[p]
      generic == SelectSeq([i \in 1 .. Len(GenericParams) |->
                              Rec(GenericParams[i], got(GenericParams[i]))],
                           LAMBDA r : r.v # 0)
  IN IF fail \in SaveFailPoints
     THEN [ok |-> FALSE, recs |-> <<>>]
     ELSE [ok |-> TRUE,
           recs |-> <<Rec("version", SAVE_FORMAT_VERSION), Rec("tsc", d.tsc),
                      Rec("vcpu", 0)>>
                    \o generic
                    \o <<Rec("magic", [p \in MagicParams |-> got(p)]),
                         Rec("context", d.context), Rec("dm", d.dm_size),
                         Rec("uuid", 0)>>
                    \o (IF d.has_tmpl THEN <<Rec("tmpluuid", 0)>> ELSE <<>>)
                    \o <<Rec("mapcache", d.mapcache)>>
                    \o (IF d.tmpl_file THEN <<Rec("tmplfile", 0)>> ELSE <<>>)]

(***************************************************************************)
(* The record loop of uxenvm_loadvm_execute on the metadata records: each *)
(* uxenvm_load_read_struct overwrites its s_* struct and sets its marker; *)
(* the context and dm-state bodies need a malloc each.  The result maps   *)
(* each record seen to the value of its last occurrence.                  *)
(***************************************************************************)
LoadInfo(recs, fail) ==
  LET ids     == {recs[k].id : k \in DOMAIN recs}
      last(i) == CHOOSE k \in DOMAIN recs :
                   recs[k].id = i /\ \A l \in DOMAIN recs : recs[l].id = i => l <= k
  IN [ok  |-> ~(fail = "hvm_buf_load" /\ "context" \in ids)
              /\ ~(fail = "dm_state_load_buf" /\ "dm" \in ids),
      buf |-> [i \in ids |-> recs[last(i)].v]]

(* Mutation: a shared_info pfn of 0 is not turned into -1 ("ignore 0").  *)
ApplyDeferredMapsZero(b, setFails, fail) ==
  LET has(i) == i \in DOMAIN b
      m      == IF has("magic") THEN b["magic"] ELSE [p \in MagicParams |-> 0]
      shinfo == m["shared_info_pfn"]
      mapped == has("magic")
      set(p) == has(p) /\ p \notin setFails
  IN [ok |-> ~(mapped /\ fail = "add_to_physmap")
             /\ ~(has("magic") /\ fail \in {"set_dmreq_vcpu_pfn", "set_dmreq_pfn"}),
      param |-> [p \in Params |->
                   IF p \in MagicParams
                   THEN IF has("magic") /\ (p \in {"io_pfn_first", "io_pfn_last"} => p \notin setFails)
                           /\ (p = "shared_info_pfn" => mapped)
                        THEN m[p] ELSE 0
                   ELSE IF set(p) THEN b[p] ELSE 0],
      replaced |-> (IF has("console_pfn") THEN {b["console_pfn"]} ELSE {})
                   \cup (IF has("magic") THEN (m["io_pfn_first"] .. m["io_pfn_last"])
                                              \cup {m["dmreq_pfn"]} ELSE {})
                   \cup (IF mapped THEN {shinfo} ELSE {}),
      tsc      |-> IF set("tsc") THEN b["tsc"] ELSE "none",
      context  |-> IF set("context") THEN b["context"] ELSE "none",
      mapcache |-> IF has("mapcache") THEN b["mapcache"] ELSE "default"]

(***************************************************************************)
(* skip_mem for a load that is not a template load, from the buffer b:    *)
(* mapcache from its record or by vm_mem_mb; then, for each record seen,  *)
(* tsc info, the generic params (the console page is cleared first), the *)
(* io pfn range (its pages cleared), shared_info mapped unless its pfn is *)
(* 0, the dmreq page cleared, the two dmreq params, and the hvm context.  *)
(* Only add_to_physmap and the dmreq params are checked; every other set  *)
(* call in setFails fails unnoticed.  "replaced" is the guest frames whose *)
(* content the calls clear or map over.  A fresh domain has every param 0. *)
(***************************************************************************)
ApplyDeferred(b, setFails, fail) ==
  LET has(i) == i \in DOMAIN b
      m      == IF has("magic") THEN b["magic"] ELSE [p \in MagicParams |-> 0]
      shinfo == m["shared_info_pfn"]
      mapped == has("magic") /\ shinfo # 0
      set(p) == has(p) /\ p \notin setFails
  IN [ok |-> ~(mapped /\ fail = "add_to_physmap")
             /\ ~(has("magic") /\ fail \in {"set_dmreq_vcpu_pfn", "set_dmreq_pfn"}),
      param |-> [p \in Params |->
                   IF p \in MagicParams
                   THEN IF has("magic") /\ (p \in {"io_pfn_first", "io_pfn_last"} => p \notin setFails)
                           /\ (p = "shared_info_pfn" => mapped)
                        THEN m[p] ELSE 0
                   ELSE IF set(p) THEN b[p] ELSE 0],
      replaced |-> (IF has("console_pfn") THEN {b["console_pfn"]} ELSE {})
                   \cup (IF has("magic") THEN (m["io_pfn_first"] .. m["io_pfn_last"])
                                              \cup {m["dmreq_pfn"]} ELSE {})
                   \cup (IF mapped THEN {shinfo} ELSE {}),
      tsc      |-> IF set("tsc") THEN b["tsc"] ELSE "none",
      context  |-> IF set("context") THEN b["context"] ELSE "none",
      mapcache |-> IF has("mapcache") THEN b["mapcache"] ELSE "default"]

(***************************************************************************)
(* uxenvm_loadvm_execute_finish (vm_load_finish): a non-empty dm state is *)
(* opened with qemu_memopen and replayed with qemu_loadvm_state; either   *)
(* may fail.  The buffer is freed in every case.                          *)
(***************************************************************************)
LoadFinish(b, fail) ==
  LET size == IF "dm" \in DOMAIN b THEN b["dm"] ELSE 0
  IN [ok       |-> ~(size # 0 /\ fail \in {"qemu_memopen", "qemu_loadvm_state"}),
      replayed |-> size # 0]

(* The frames a domain d designates as its special pages: the io range,   *)
(* the dmreq page, and the console and shared_info pages when set.  Frame  *)
(* 0 is guest RAM.                                                        *)
SpecialFrames(d) ==
  ((d.param["io_pfn_first"] .. d.param["io_pfn_last"])
   \cup {d.param[p] : p \in {"dmreq_pfn", "console_pfn", "shared_info_pfn"}})
  \ {0}
=============================================================================
