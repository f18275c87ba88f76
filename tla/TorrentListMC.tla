--------------------------- MODULE TorrentListMC ---------------------------
(* Small instances of TorrentList for TLC. *)
EXTENDS TorrentList

(* Torrents are interchangeable. *)
Symmetry == Permutations(Torrents)
=============================================================================
