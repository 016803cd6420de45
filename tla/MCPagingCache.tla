--------------------------- MODULE MCPagingCache ---------------------------
(***************************************************************************)
(* Symmetry for checking PagingCache: CPUs and tables are interchangeable. *)
(* Regions and slots are ordered.                                          *)
(***************************************************************************)
EXTENDS PagingCache, TLC

PagingSymmetry == Permutations(Cpu) \cup Permutations(Table)
============================================================================
