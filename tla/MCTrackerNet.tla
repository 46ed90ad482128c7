---------------------------- MODULE MCTrackerNet ----------------------------
(* Small instances of TrackerNet.                                          *)
EXTENDS TrackerNet, TLC

Symmetry == Permutations(Thread) \cup Permutations(Key)
=============================================================================
