-------------------------- MODULE TorrentManagerMC --------------------------
(* Small instances of TorrentManager for TLC. *)
EXTENDS TorrentManager, TLC

(* Save paths but the empty one, and threads, are interchangeable. *)
Symmetry == Permutations(Paths \ {NoPath}) \cup Permutations(WebThreads)
=============================================================================
