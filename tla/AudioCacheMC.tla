----------------------------- MODULE AudioCacheMC ------------------------------
(* Instances of AudioCache for TLC.                                         *)
EXTENDS AudioCache

(* A file that fits, one that fits alone and one that is too large.         *)
Sizes == [k \in Keys |-> CASE k = "small" -> 1 [] k = "medium" -> 2 [] OTHER -> 4]
=============================================================================
