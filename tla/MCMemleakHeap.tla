--------------------------- MODULE MCMemleakHeap ---------------------------
(* The instance of MCMemleakBpf that meets the conditions of the theorems.  *)
EXTENDS MCMemleakBpf

ASSUME HeapComplete == Complete
=============================================================================
