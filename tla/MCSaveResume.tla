---------------------------- MODULE MCSaveResume ----------------------------
(***************************************************************************)
(* SaveResume with the compression settings of MCVmSave.                   *)
(***************************************************************************)
EXTENDS SaveResume, MCVmSave
=============================================================================
