---------------------------- MODULE SchedullerMC ----------------------------
(* Small instances of Scheduller for TLC. *)
EXTENDS Scheduller

CONSTANTS k1, k2, k3

(* Two tasks at the same time, and one so far off that its interval is     *)
(* negative in the first second and wraps to a short one after it.         *)
MCStart == (k1 :> 1) @@ (k2 :> 1) @@ (k3 :> 8)

(* The two tasks at the same time may be exchanged. *)
MCSymmetry == Permutations({k1, k2})
=============================================================================
