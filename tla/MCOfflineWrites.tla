--------------------------- MODULE MCOfflineWrites ---------------------------
(* Instances of OfflineWrites for TLC: requests are interchangeable, and so *)
(* are flushes.                                                            *)
EXTENDS OfflineWrites, TLC

Symmetry == Permutations(Calls) \cup Permutations(Flushers)

=============================================================================
