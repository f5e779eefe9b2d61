----------------------------- MODULE MCPmmScan ------------------------------
(***************************************************************************)
(* Every bitmap of 7 bits over 6 pages of which page 2 is reserved memory, *)
(* so a run can end at a bit, at reserved memory and at the end of memory. *)
(***************************************************************************)
EXTENDS PmmScan

MCFreeMemory == {0, 1, 3, 4, 5}
=============================================================================
