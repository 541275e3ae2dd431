------------------------------- MODULE PipeMC -------------------------------
(* The processes other than init, and the bytes, are interchangeable. *)
EXTENDS Pipe, TLC

Symmetric == Permutations(Proc \ {Root}) \cup Permutations(Byte)
=============================================================================
