------------------------------ MODULE MCVmSave ------------------------------
(***************************************************************************)
(* Compression settings for checking VmSave: every (compress_mode,        *)
(* single_page) pair mc_savevm and vm_save can set, and the subsets of it  *)
(* with (uncompressed, per-page LZ4) and without (bulk LZ4) the index.     *)
(***************************************************************************)
EXTENDS VmSave

Uncompressed == <<COMPRESS_NONE, FALSE>>
PerPageLz4   == <<COMPRESS_LZ4, TRUE>>
BulkLz4      == <<COMPRESS_LZ4, FALSE>>

(* mc_savevm: compress_mode is LZ4 for the argument "lz4" and NONE for any *)
(* other or none; single_page is the "single-page" argument (default 1),  *)
(* which vm_save clears under the ",compbatch," debug option.             *)
mc_savevm_settings ==
  {<<IF c = "lz4" THEN COMPRESS_LZ4 ELSE COMPRESS_NONE, sp>> :
     c \in {"lz4", "other"}, sp \in BOOLEAN}

AllSettings     == mc_savevm_settings
IndexedSettings == {Uncompressed, PerPageLz4}
BulkOnly        == {BulkLz4}
=============================================================================
