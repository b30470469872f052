---------------------------- MODULE MCNativeFile -----------------------------
(* Small instances of NativeFile.  Bodies are interchangeable only while they *)
(* all fit the declaration.                                                   *)
EXTENDS NativeFile, TLC

Symmetry == Permutations(Requests) \cup Permutations(Workers) \cup Permutations(Fits)
=============================================================================
