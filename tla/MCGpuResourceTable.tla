------------------------- MODULE MCGpuResourceTable -------------------------
(* GpuResourceTable on a small heap: three addresses, two handles of each   *)
(* table, generations and indices of two bits.  Addresses only ever are     *)
(* compared, so their permutations are a symmetry.                          *)
EXTENDS GpuResourceTable, TLC

CONSTANTS a1, a2, a3, n1

MCAddr  == {a1, a2, a3}
MCNames == {n1}

AddrSymmetry == Permutations(MCAddr)
=============================================================================
