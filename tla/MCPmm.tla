------------------------------- MODULE MCPmm --------------------------------
(***************************************************************************)
(* Two callers, six pages of which page 2 is reserved, a bitmap of eight   *)
(* bits.  Requests of 0 to 3 pages, alignments of every kind the check in  *)
(* pmm_alloc tells apart (none, below a page, invalid, a page, two pages). *)
(***************************************************************************)
EXTENDS Pmm

MCFreeMemory == {0, 1, 3, 4, 5}
=============================================================================
