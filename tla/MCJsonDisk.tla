------------------------------ MODULE MCJsonDisk ------------------------------
(***************************************************************************)
(* encodeJson and decodeJson over byte streams (compiler/include/ao/schema *)
(* /JSONBackend.h:253-281): JsonCodec with the disk codec. The wire counts *)
(* in cells.                                                               *)
(***************************************************************************)
EXTENDS JsonCodec, DiskCodec, Documents

DiskTell(t, c, ins, view) == DiskEncode(t, c, ins, view, U64)
DiskAsk(t, c, ins, view)  == DiskDecode(t, c, ins, view, U32, U64)
DiskCells(c)              == c.cells
DiskCuts(c)               == 0..Len(c.cells)
DiskDecoder(c, k)         == Decoder(SubSeq(c.cells, 1, k))
DiskErr(c)                == c.err

-----------------------------------------------------------------------------
MCJobs == FittingJobs \cup SpoiledJobs

(* Read by the schema whose field a has another number. *)
RenumberedJobs == {[j EXCEPT !.reader = "renumbered"] : j \in JobsOf("flat", DocsOf("flat"))}
=============================================================================
