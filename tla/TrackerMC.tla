----------------------------- MODULE TrackerMC -----------------------------
(* Small instances of Tracker for TLC. *)
EXTENDS Tracker, TLC

(* Threads are interchangeable, and so are the hashes without a zero byte. *)
Symmetry == Permutations(Threads) \cup Permutations(Hashes \ NulHashes)
=============================================================================
