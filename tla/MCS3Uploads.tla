----------------------------- MODULE MCS3Uploads -----------------------------
(* Small instances of S3Uploads: all uploads go to one key, the case in which *)
(* they interfere.                                                            *)
EXTENDS S3Uploads, TLC

CONSTANTS f1, f2, f3, k1

OneKey == [f \in Files |-> k1]
Symmetry == Permutations(Requests) \cup Permutations(Workers) \cup Permutations(Data)
=============================================================================
