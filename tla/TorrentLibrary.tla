--------------------------- MODULE TorrentLibrary ---------------------------
(***************************************************************************)
(* What the torrent list promises its user: torrents are added, and        *)
(* exactly those the user was asked about are removed when the user says   *)
(* yes.  A listed torrent can die, and then the list may fail to let go of *)
(* it, but of no other one.                                                *)
(***************************************************************************)
CONSTANT Torrents

VARIABLES
    listed, (* the torrents of the list                                   *)
    asked,  (* those the open question "remove?" is about                 *)
    dead    (* torrents that have died since they were added               *)

vars == <<listed, asked, dead>>

Init == listed \in SUBSET Torrents /\ asked = {} /\ dead = {}

Add(t) ==
    /\ t \notin listed
    /\ listed' = listed \cup {t}
    /\ dead' = dead \ {t}
    /\ UNCHANGED asked

Die(t) ==
    /\ t \in listed
    /\ dead' = dead \cup {t}
    /\ UNCHANGED <<listed, asked>>

Ask(S) ==
    /\ asked = {}
    /\ asked' = S
    /\ UNCHANGED <<listed, dead>>

SayYes ==
    /\ \E stay \in SUBSET (asked \cap dead) : listed' = listed \ (asked \ stay)
    /\ asked' = {}
    /\ UNCHANGED dead

SayNo ==
    /\ asked' = {}
    /\ UNCHANGED <<listed, dead>>

Next ==
    \/ SayYes \/ SayNo
    \/ \E t \in Torrents : Add(t) \/ Die(t)
    \/ \E S \in SUBSET listed : Ask(S)

Spec == Init /\ [][Next]_vars
=============================================================================
