---------------------------- MODULE MCSaveFormat ----------------------------
(***************************************************************************)
(* Checks the pure operators of SaveFormat over every input in bounded    *)
(* ranges: each input is one initial state, and the properties are        *)
(* invariants of it.                                                      *)
(***************************************************************************)
EXTENDS MetaRecords

CONSTANTS MaxMemFrames, MaxPfn, MaxP2m, ReplayBatchSizes,
          PfnValues,   \* non-zero values of params and pfns
          GetCanFail,  \* params whose xc_get_hvm_param may fail on save
          SetCanFail   \* tsc, params and context whose set call may fail on load

SE == INSTANCE SequencesExt

VARIABLE input

MarkerInputs == [kind : {"marker"}, m : -3 .. 3 * MAX_BATCH_SIZE + 3]
EncodeInputs == [kind : {"encode"}, n : 1 .. MAX_BATCH_SIZE,
                 compress_mode : {COMPRESS_NONE, COMPRESS_LZ4},
                 single_page : BOOLEAN]
FrameInputs  == [kind : {"frames"}, mem_frames : 0 .. MaxMemFrames]
(* A zero bitmap as the save path builds it: bits only below p2m_size.   *)
BitmapInputs == UNION {[kind : {"zbitmap"}, p2m_size : {n},
                        bits : SUBSET (0 .. n - 1), max : ReplayBatchSizes]
                         : n \in 0 .. MaxP2m}

(* A uXen domain: its io range, dmreq pages and mapcache are always set; *)
(* the shared_info pfn and the generic params may be 0 (unset).           *)
DomainParams ==
  {f \in [Params -> {0} \cup PfnValues] :
     /\ \A p \in MagicParams \ {"shared_info_pfn"} : f[p] # 0
     /\ f["io_pfn_first"] <= f["io_pfn_last"]}
Domains == [param : DomainParams, tsc : {"tsc"}, context : {"ctx"},
            dm_size : {0, 1}, has_tmpl : BOOLEAN, tmpl_file : BOOLEAN,
            mapcache : {"mc"}]
MetaInputs == [kind : {"meta"}, d : Domains, getFails : SUBSET GetCanFail,
               setFails : SUBSET SetCanFail,
               fail : {"none"} \cup SaveFailPoints \cup LoadFailPoints]

Init == input \in MarkerInputs \cup EncodeInputs \cup FrameInputs \cup BitmapInputs
                  \cup MetaInputs
Next == UNCHANGED input

(***************************************************************************)
(* Marker round trip: the marker uxenvm_savevm_write_pages writes for a    *)
(* batch of n pages in any compression variant is decoded by              *)
(* uxenvm_load_batch to the same count and variant.                       *)
(***************************************************************************)
MarkerRoundTrip ==
  input.kind = "encode" =>
    LET d == DecodeBatchMarker(EncodeBatchMarker(input.n, input.compress_mode,
                                                 input.single_page))
    IN /\ d.valid
       /\ d.count = input.n
       /\ d.decompress = (input.compress_mode = COMPRESS_LZ4)
       /\ d.single_page = (input.compress_mode = COMPRESS_LZ4 /\ input.single_page)

(***************************************************************************)
(* Marker reference: every non-zero marker uxenvm_load_batch accepts is    *)
(* count + k * MAX_BATCH_SIZE for exactly one count in 1..MAX_BATCH_SIZE  *)
(* and k in 0..2, and it rejects every other marker (negative ones too).  *)
(***************************************************************************)
MarkerMatchesReference ==
  input.kind = "marker" /\ input.m # 0 =>
    LET d    == DecodeBatchMarker(input.m)
        refs == {kn \in (0 .. 2) \X (1 .. MAX_BATCH_SIZE) :
                   input.m = kn[2] + kn[1] * MAX_BATCH_SIZE}
    IN /\ d.valid = (refs # {})
       /\ d.valid =>
            \E kn \in refs :
              /\ refs = {kn}
              /\ d.count = kn[2]
              /\ d.decompress = (kn[1] > 0)
              /\ d.single_page = (kn[1] = 2)

(***************************************************************************)
(* Index bounds: for a guest of mem_frames frames, every frame that the    *)
(* save path indexes (poi_valid_pfn after max_gpfn was moved past the     *)
(* hole) has a distinct slot inside the pfn_off array of mem_frames        *)
(* entries, and the lazy loader rebuilds the same max_gpfn from the        *)
(* pfn_off_nr it reads back.                                              *)
(***************************************************************************)
IndexSlotsInBounds ==
  input.kind = "frames" =>
    LET mf    == input.mem_frames
        valid == {p \in 0 .. MaxPfn : poi_valid_pfn(SaveMaxGpfn(mf), p)}
    IN /\ \A p \in valid : skip_pci_hole(p) \in 0 .. mf - 1
       /\ \A p, q \in valid : skip_pci_hole(p) = skip_pci_hole(q) => p = q
       /\ Cardinality(valid) = mf
       /\ SavePfnOffNr(mf) = mf
       /\ LazyMaxGpfn(SavePfnOffNr(mf)) = SaveMaxGpfn(mf)

(***************************************************************************)
(* Zero-bitmap replay: for a bitmap written by the save path, the calls    *)
(* uxenvm_load_zero_bitmap makes never hand more than max frames to       *)
(* xc_domain_populate_physmap_exact (pfn_type has MAX_BATCH_SIZE entries), *)
(* and together they populate every frame whose bit is set, once each, in *)
(* order, the last partial batch included.                                *)
(***************************************************************************)
ZeroBitmapReplayExact ==
  input.kind = "zbitmap" =>
    LET calls == uxenvm_load_zero_bitmap(input.bits,
                   ZeroBitmapSize(input.p2m_size), input.max)
    IN /\ \A c \in 1 .. Len(calls) : Len(calls[c]) <= input.max
       /\ LET pods == SE!FlattenSeq(calls)
          IN /\ SE!ToSet(pods) = input.bits
             /\ Len(pods) = Cardinality(input.bits)
             /\ \A k \in 1 .. Len(pods) - 1 : pods[k] < pods[k + 1]

(***************************************************************************)
(* Metadata round trip: when vm_save_execute saved domain d and a normal  *)
(* load of the file returned 0 from uxenvm_loadvm_execute and from         *)
(* vm_load_finish, the fresh domain has every hvm param, the magic pfns,   *)
(* the tsc info and the hvm context of d, the mapcache layout of d, and   *)
(* its dm state replayed if d had one; and skip_mem cleared or mapped over *)
(* no guest frame other than the special pages d designates.              *)
(***************************************************************************)
MetaRoundTrip ==
  input.kind = "meta" =>
    LET d == input.d
        w == WriteInfo(d, input.getFails, input.fail)
        l == LoadInfo(w.recs, input.fail)
        a == ApplyDeferred(l.buf, input.setFails, input.fail)
        f == LoadFinish(l.buf, input.fail)
    IN (w.ok /\ l.ok /\ a.ok /\ f.ok) =>
         /\ a.param = d.param
         /\ a.tsc = d.tsc /\ a.context = d.context /\ a.mapcache = d.mapcache
         /\ a.replaced \subseteq SpecialFrames(d)
         /\ f.replayed = (d.dm_size # 0)
=============================================================================
