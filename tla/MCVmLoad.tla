------------------------------ MODULE MCVmLoad ------------------------------
(***************************************************************************)
(* Record streams for checking VmLoad: the stream the save side writes     *)
(* (version, metadata, page batches, zero bitmap, page offsets, end       *)
(* marker) with up to three batches of every kind, so that three          *)
(* compressed batches meet a pool of two buffers; and the malformed       *)
(* streams the loader must reject.                                        *)
(***************************************************************************)
EXTENDS VmLoad

CONSTANT MaxBatches

Leader == <<"version", "meta">>
Trailer   == <<"zbitmap", "pageoffsets", "end">>

(* Page-batch sequences of up to MaxBatches records; stored-raw bulk       *)
(* batches ("bulkvain") appear in the shorter ones.                       *)
Bodies ==
  UNION {[1 .. n -> {"raw", "bulk", "perpage"}] : n \in 0 .. MaxBatches}
  \cup {<<"bulkvain">>, <<"bulk", "bulkvain">>, <<"bulkvain", "perpage">>}

WellFormed == {Leader \o b \o Trailer : b \in Bodies}
              \cup {<<"version", "tmpluuid">> \o <<"bulk">> \o Trailer}

Malformed ==
  { <<"badversion", "meta">> \o Trailer,
    Leader \o <<"bulk", "badmarker">> \o Trailer,
    Leader \o <<"bulk", "perpage", "bulk">> }       \* truncated: no end marker

MCFiles == WellFormed \cup Malformed
=============================================================================
