------------------------------ MODULE Tracker ------------------------------
(***************************************************************************)
(* The built-in tracker: TrackerRequestHandler, whose service runs in the  *)
(* threads of the HTTP server's connection handlers (module HttpServer),   *)
(* several of them at a time, on one map from info hashes to peers.  The   *)
(* code takes no lock.  A step here is one operation on the map, which is  *)
(* what the code would do if each of them were atomic; QMap does not       *)
(* promise even that.                                                      *)
(***************************************************************************)
EXTENDS Integers, FiniteSets

CONSTANTS
    Threads,     (* handler threads                                        *)
    Hashes,      (* info hashes of 20 bytes                                *)
    NulHashes,   (* those with a zero byte, where to_hex stops reading     *)
    Addrs,       (* what getID returns, "ip:port", in the order of the map *)
    NumWants,    (* numwant parameters; 0 if it is missing or no number    *)
    DefaultWant, (* 50                                                     *)
    NoRequest

Events  == {"stopped", "other"}
Request == [info_hash : Hashes, addr : Addrs, event : Events, numwant : Nat \ {0}]

ASSUME ConstantsAssumption ==
    /\ NulHashes \subseteq Hashes
    /\ Addrs \subseteq Int /\ IsFiniteSet(Addrs)
    /\ NumWants \subseteq Int
    /\ DefaultWant \in Nat \ {0}
    /\ NoRequest \notin Request

VARIABLES
    torrents,   (* the peers of the hashes that are keys of the map        *)
    pc,         (* where each thread is in ProcessAnnounceRequest          *)
    request,    (* its announceRequest                                     *)
    peers,      (* its local copy of a peer list                           *)
    reply,      (* what it answered last                                   *)
    announced,  (* history: who was ever stored, of each hash              *)
    swarm,      (* history: what the announcements make, one after another *)
    overlapped  (* history: hashes written while a thread held a copy      *)

history == <<announced, swarm, overlapped>>

vars == <<torrents, pc, request, peers, reply, history>>
-----------------------------------------------------------------------------
(* What a client sends; the two bad hashes stand for a missing parameter   *)
(* and one of another length.                                              *)
Params ==
    [get : BOOLEAN, announce : BOOLEAN,
     info_hash : Hashes \cup {"missing", "short"},
     peer_id : {"ok", "missing", "short"}, port : {"ok", "bad"}]

(* service and the checks of ProcessAnnounceRequest, in their order; 0 is  *)
(* a request they let through.                                             *)
ErrorCode(p) ==
    IF ~p.get THEN 100
    ELSE IF ~p.announce THEN 400
    ELSE IF p.info_hash = "missing" THEN 101
    ELSE IF p.info_hash \in NulHashes \cup {"short"} THEN 150
    ELSE IF p.peer_id = "missing" THEN 102
    ELSE IF p.peer_id = "short" THEN 151
    ELSE IF p.port = "bad" THEN 103
    ELSE 0

Refused  == {p \in Params : ErrorCode(p) # 0}
Accepted == Params \ Refused

(* A plausible slip: a missing numwant is taken for 0. *)
RawWant(n) == n
Want(n) == IF n > 0 THEN n ELSE DefaultWant

Reply(list) == [failed |-> FALSE, peers |-> list]
Failure     == [failed |-> TRUE, peers |-> {}]

List(hash) == IF hash \in DOMAIN torrents THEN torrents[hash] ELSE {}

Put(hash, list) ==
    torrents' = [h \in DOMAIN torrents \cup {hash} |->
                    IF h = hash THEN list ELSE torrents[h]]
-----------------------------------------------------------------------------
(* ReplyError, and the error pages of service. *)
Refuse(t) ==
    /\ pc[t] = "idle"
    /\ Refused # {}
    /\ reply' = [reply EXCEPT ![t] = Failure]
    /\ UNCHANGED <<torrents, pc, request, peers, history>>

(* An announcement that passes, up to the test of torrents.contains. *)
Announce(t, hash, addr, event, n) ==
    /\ pc[t] = "idle"
    /\ hash \in {p.info_hash : p \in Accepted}
    /\ request' = [request EXCEPT ![t] =
          [info_hash |-> hash, addr |-> addr, event |-> event, numwant |-> Want(n)]]
    /\ pc' = [pc EXCEPT ![t] =
          IF hash \in DOMAIN torrents /\ event = "stopped" THEN "remove" ELSE "copy"]
    /\ reply' = [reply EXCEPT ![t] = Reply({})]
    /\ UNCHANGED <<torrents, peers, history>>

(* Another thread of the same hash is between Copy and Store. *)
Overlap(t) ==
    \E u \in Threads \ {t} :
        pc[u] = "store" /\ request[u].info_hash = request[t].info_hash

(* The history of a write: the swarm becomes s. *)
Wrote(t, s) ==
    /\ swarm' = [swarm EXCEPT ![request[t].info_hash] = s]
    /\ overlapped' = overlapped \cup (IF Overlap(t) THEN {request[t].info_hash} ELSE {})

(* The locals end with the request. *)
Return(t) ==
    /\ pc' = [pc EXCEPT ![t] = "idle"]
    /\ request' = [request EXCEPT ![t] = NoRequest]
    /\ peers' = [peers EXCEPT ![t] = {}]

(* A plausible slip: the hash is removed, not the peer. *)
RemoveAll(t) ==
    /\ pc[t] = "remove"
    /\ LET hash == request[t].info_hash
       IN  /\ Put(hash, {})
           /\ Wrote(t, swarm[hash] \ {request[t].addr})
    /\ Return(t)
    /\ UNCHANGED <<reply, announced>>

(* event=stopped: the answer has no body. *)
Remove(t) ==
    /\ pc[t] = "remove"
    /\ LET hash == request[t].info_hash
       IN  /\ Put(hash, List(hash) \ {request[t].addr})
           /\ Wrote(t, swarm[hash] \ {request[t].addr})
    /\ Return(t)
    /\ UNCHANGED <<reply, announced>>

(* PeerList peers = torrents[hash], which makes an unknown hash known, the *)
(* one of a "stopped" announcement too.                                    *)
Copy(t) ==
    /\ pc[t] = "copy"
    /\ LET hash == request[t].info_hash
       IN  /\ Put(hash, List(hash))
           /\ peers' = [peers EXCEPT ![t] = List(hash)]
    /\ pc' = [pc EXCEPT ![t] = "store"]
    /\ UNCHANGED <<request, reply, history>>

(* A plausible slip: the list becomes the peer. *)
StoreOne(t) ==
    /\ pc[t] = "store"
    /\ LET hash == request[t].info_hash
           addr == request[t].addr
       IN  /\ Put(hash, {addr})
           /\ Wrote(t, swarm[hash] \cup {addr})
           /\ announced' = [announced EXCEPT ![hash] = @ \cup {addr}]
    /\ pc' = [pc EXCEPT ![t] = "reply"]
    /\ UNCHANGED <<request, peers, reply>>

(* A plausible slip: announceRequest is a member the threads share. *)
StoreShared(t) ==
    /\ pc[t] = "store"
    /\ \E u \in Threads :
          /\ pc[u] # "idle"
          /\ Put(request[u].info_hash, peers[t] \cup {request[t].addr})
    /\ LET hash == request[t].info_hash
           addr == request[t].addr
       IN  /\ Wrote(t, swarm[hash] \cup {addr})
           /\ announced' = [announced EXCEPT ![hash] = @ \cup {addr}]
    /\ pc' = [pc EXCEPT ![t] = "reply"]
    /\ UNCHANGED <<request, peers, reply>>

(* peers[id] = info and torrents[hash] = peers. *)
Store(t) ==
    /\ pc[t] = "store"
    /\ LET hash == request[t].info_hash
           addr == request[t].addr
       IN  /\ Put(hash, peers[t] \cup {addr})
           /\ Wrote(t, swarm[hash] \cup {addr})
           /\ announced' = [announced EXCEPT ![hash] = @ \cup {addr}]
    /\ pc' = [pc EXCEPT ![t] = "reply"]
    /\ UNCHANGED <<request, peers, reply>>

(* A plausible slip: the count is compared before it is incremented. *)
FirstAndOne(list, n) == {a \in list : Cardinality({b \in list : b < a}) <= n}

(* The first n peers, in the order of the map. *)
First(list, n) == {a \in list : Cardinality({b \in list : b < a}) < n}

(* ReplyWithPeerList reads the list again. *)
ReplyWithPeerList(t) ==
    /\ pc[t] = "reply"
    /\ LET r == request[t]
       IN  reply' = [reply EXCEPT ![t] = Reply(First(List(r.info_hash), r.numwant))]
    /\ Return(t)
    /\ UNCHANGED <<torrents, history>>
-----------------------------------------------------------------------------
Init ==
    /\ torrents = [h \in {} |-> {}]
    /\ pc = [t \in Threads |-> "idle"]
    /\ request = [t \in Threads |-> NoRequest]
    /\ peers = [t \in Threads |-> {}]
    /\ reply = [t \in Threads |-> Reply({})]
    /\ announced = [h \in Hashes |-> {}]
    /\ swarm = [h \in Hashes |-> {}]
    /\ overlapped = {}

Next ==
    \E t \in Threads :
        \/ Refuse(t)
        \/ \E hash \in Hashes, addr \in Addrs, event \in Events, n \in NumWants :
              Announce(t, hash, addr, event, n)
        \/ Remove(t)
        \/ Copy(t)
        \/ Store(t)
        \/ ReplyWithPeerList(t)

Spec == Init /\ [][Next]_vars
-----------------------------------------------------------------------------
(* The variables have their types; every request that passed the checks    *)
(* asks for at least one peer (0 would never stop the loop of the reply).  *)
TypeOK ==
    /\ DOMAIN torrents \subseteq Hashes
    /\ \A h \in DOMAIN torrents : torrents[h] \subseteq Addrs
    /\ pc \in [Threads -> {"idle", "remove", "copy", "store", "reply"}]
    /\ request \in [Threads -> Request \cup {NoRequest}]
    /\ \A t \in Threads : pc[t] # "idle" => request[t] \in Request
    /\ peers \in [Threads -> SUBSET Addrs]
    /\ reply \in [Threads -> [failed : BOOLEAN, peers : SUBSET Addrs]]
    /\ announced \in [Hashes -> SUBSET Addrs]
    /\ swarm \in [Hashes -> SUBSET Addrs]
    /\ overlapped \subseteq Hashes

(* The list of a hash is what its announcements make one after another,    *)
(* whatever other hashes' announcements run at the same time, unless two   *)
(* of the same hash overlapped: then one's write may be lost.              *)
SwarmUnlessOverlap ==
    \A h \in Hashes \ overlapped : List(h) = swarm[h]

(* Overlap or not, no list (and so no reply) and no thread's copy of one   *)
(* names a peer that did not announce itself for that very hash.           *)
OnlyAnnounced ==
    /\ \A h \in Hashes : List(h) \subseteq announced[h]
    /\ \A t \in Threads :
          pc[t] = "store" => peers[t] \subseteq announced[request[t].info_hash]

(* A peer leaves a list only by its own "stopped", or when announcements   *)
(* of the hash overlapped: nothing expires, as the code has no clock.      *)
LeavesByStopping ==
    [][\A h \in Hashes : \A a \in List(h) :
          \/ a \in List(h)'
          \/ h \in overlapped'
          \/ \E t \in Threads : /\ pc[t] = "remove" /\ pc'[t] = "idle"
                                /\ request[t].info_hash = h
                                /\ request[t].addr = a]_vars

(* A reply has at most numwant peers, and the same ones of a given list.   *)
RepliesFit ==
    [][\A t \in Threads :
          pc[t] = "reply" /\ pc'[t] = "idle" =>
              LET list == List(request[t].info_hash)
                  n    == Cardinality(reply'[t].peers)
              IN  /\ n <= request[t].numwant
                  /\ n < request[t].numwant => reply'[t].peers = list
                  /\ \A a \in reply'[t].peers, b \in list \ reply'[t].peers : a < b]_vars
=============================================================================
