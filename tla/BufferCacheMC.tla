--------------------------- MODULE BufferCacheMC ----------------------------
(* Processes, blocks and contents are interchangeable. *)
EXTENDS BufferCache

Symmetric == Permutations(Proc) \cup Permutations(Block) \cup Permutations(Val)
=============================================================================
