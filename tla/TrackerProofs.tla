--------------------------- MODULE TrackerProofs ---------------------------
(***************************************************************************)
(* What holds of the tracker for any number of threads, hashes and peers.  *)
(***************************************************************************)
EXTENDS Tracker, FiniteSetTheorems, TLAPS

USE DEF Events, Request

(* The map after a write: the hash has the list, the others are as before. *)
LEMMA PutList ==
    ASSUME NEW hash \in Hashes, NEW list, Put(hash, list), NEW h
    PROVE  List(h)' = IF h = hash THEN list ELSE List(h)
BY DEF Put, List

LEMMA PutType ==
    ASSUME TypeOK, NEW hash \in Hashes, NEW list \in SUBSET Addrs, Put(hash, list)
    PROVE  /\ DOMAIN torrents' \subseteq Hashes
           /\ \A h \in DOMAIN torrents' : torrents'[h] \subseteq Addrs
BY DEF Put, TypeOK

(* A thread that is not idle has a request, of an info hash. *)
LEMMA ActiveRequest ==
    ASSUME TypeOK, NEW t \in Threads, pc[t] # "idle"
    PROVE  /\ request[t] \in Request
           /\ request[t].info_hash \in Hashes
           /\ request[t].addr \in Addrs
           /\ request[t].numwant \in Nat \ {0}
BY DEF TypeOK

LEMMA ListType ==
    ASSUME TypeOK, NEW h \in Hashes
    PROVE  List(h) \subseteq Addrs
BY DEF TypeOK, List
-----------------------------------------------------------------------------
(* The variables keep their types: every announcement that passes the      *)
(* checks of ProcessAnnounceRequest is well-formed.                        *)
THEOREM TypeCorrect == Spec => []TypeOK
<1>1. Init => TypeOK
  BY DEF Init, TypeOK, Reply
<1>2. TypeOK /\ [Next]_vars => TypeOK'
  <2> SUFFICES ASSUME TypeOK, [Next]_vars PROVE TypeOK'
    OBVIOUS
  <2>1. CASE UNCHANGED vars
    BY <2>1 DEF TypeOK, vars, history
  <2>2. ASSUME NEW t \in Threads, Refuse(t) PROVE TypeOK'
    BY <2>2 DEF TypeOK, Refuse, Failure, history
  <2>3. ASSUME NEW t \in Threads, NEW hash \in Hashes, NEW addr \in Addrs,
               NEW event \in Events, NEW n \in NumWants,
               Announce(t, hash, addr, event, n)
        PROVE  TypeOK'
    <3>1. Want(n) \in Nat \ {0}
      BY ConstantsAssumption DEF Want
    <3> DEFINE r == [info_hash |-> hash, addr |-> addr, event |-> event,
                     numwant |-> Want(n)]
    <3>2. r \in Request
      BY <3>1
    <3>3. request' = [request EXCEPT ![t] = r]
      BY <2>3 DEF Announce
    <3> HIDE DEF r
    <3>4. /\ request' \in [Threads -> Request \cup {NoRequest}]
          /\ \A u \in Threads : pc'[u] # "idle" => request'[u] \in Request
      <4> USE DEF Announce
      <4>1. \A u \in Threads : u # t => pc'[u] = pc[u] /\ request'[u] = request[u]
        BY <2>3, <3>3 DEF TypeOK
      <4> QED BY <2>3, <3>2, <3>3, <4>1 DEF TypeOK
    <3> QED BY <2>3, <3>4 DEF TypeOK, Announce, Reply, history
  <2>4. ASSUME NEW t \in Threads, Remove(t) PROVE TypeOK'
    <3>1. /\ DOMAIN torrents' \subseteq Hashes
          /\ \A h \in DOMAIN torrents' : torrents'[h] \subseteq Addrs
      BY <2>4, ActiveRequest, ListType, PutType DEF Remove
    <3>2. request' \in [Threads -> Request \cup {NoRequest}] /\
          \A u \in Threads : pc'[u] # "idle" => request'[u] \in Request
      BY <2>4 DEF TypeOK, Remove, Return
    <3>3. swarm' \in [Hashes -> SUBSET Addrs] /\ overlapped' \subseteq Hashes
      BY <2>4, ActiveRequest DEF TypeOK, Remove, Wrote
    <3> QED BY <2>4, <3>1, <3>2, <3>3 DEF TypeOK, Remove, Return
  <2>5. ASSUME NEW t \in Threads, Copy(t) PROVE TypeOK'
    <3>1. /\ DOMAIN torrents' \subseteq Hashes
          /\ \A h \in DOMAIN torrents' : torrents'[h] \subseteq Addrs
          /\ peers' \in [Threads -> SUBSET Addrs]
      BY <2>5, ActiveRequest, ListType, PutType DEF Copy, TypeOK
    <3> QED BY <2>5, <3>1 DEF TypeOK, Copy, history
  <2>6. ASSUME NEW t \in Threads, Store(t) PROVE TypeOK'
    <3>1. /\ DOMAIN torrents' \subseteq Hashes
          /\ \A h \in DOMAIN torrents' : torrents'[h] \subseteq Addrs
      <4>1. peers[t] \cup {request[t].addr} \in SUBSET Addrs
        BY <2>6, ActiveRequest DEF Store, TypeOK
      <4> QED BY <2>6, <4>1, ActiveRequest, PutType DEF Store
    <3>2. /\ swarm' \in [Hashes -> SUBSET Addrs]
          /\ overlapped' \subseteq Hashes
          /\ announced' \in [Hashes -> SUBSET Addrs]
      BY <2>6, ActiveRequest DEF TypeOK, Store, Wrote
    <3> QED BY <2>6, <3>1, <3>2 DEF TypeOK, Store
  <2>7. ASSUME NEW t \in Threads, ReplyWithPeerList(t) PROVE TypeOK'
    <3>1. First(List(request[t].info_hash), request[t].numwant) \subseteq Addrs
      BY <2>7, ActiveRequest, ListType DEF ReplyWithPeerList, First
    <3>2. request' \in [Threads -> Request \cup {NoRequest}] /\
          \A u \in Threads : pc'[u] # "idle" => request'[u] \in Request
      BY <2>7 DEF TypeOK, ReplyWithPeerList, Return
    <3> QED BY <2>7, <3>1, <3>2 DEF TypeOK, ReplyWithPeerList, Return, Reply, history
  <2> QED
    BY <2>1, <2>2, <2>3, <2>4, <2>5, <2>6, <2>7 DEF Next
<1> QED BY <1>1, <1>2, PTL DEF Spec
-----------------------------------------------------------------------------
(* No list and no thread's copy names a peer that did not announce itself  *)
(* for that hash: what ProcessAnnounceRequest writes comes from the list   *)
(* of the same hash, whatever other threads wrote since.                   *)
THEOREM ListsAreAnnounced == Spec => []OnlyAnnounced
<1>1. Init => OnlyAnnounced
  BY DEF Init, OnlyAnnounced, List
<1>2. TypeOK /\ OnlyAnnounced /\ [Next]_vars => OnlyAnnounced'
  <2> SUFFICES ASSUME TypeOK, OnlyAnnounced, [Next]_vars PROVE OnlyAnnounced'
    OBVIOUS
  <2>1. CASE UNCHANGED vars
    BY <2>1 DEF OnlyAnnounced, List, vars, history
  <2>2. ASSUME NEW t \in Threads, Refuse(t) PROVE OnlyAnnounced'
    BY <2>2 DEF OnlyAnnounced, List, Refuse, history
  <2>3. ASSUME NEW t \in Threads, NEW hash \in Hashes, NEW addr \in Addrs,
               NEW event \in Events, NEW n \in NumWants,
               Announce(t, hash, addr, event, n)
        PROVE  OnlyAnnounced'
    <3>1. \A u \in Threads : pc'[u] = "store" =>
             u # t /\ pc[u] = "store" /\ request'[u] = request[u]
      BY <2>3 DEF TypeOK, Announce
    <3> QED BY <2>3, <3>1 DEF OnlyAnnounced, List, Announce, history
  <2>4. ASSUME NEW t \in Threads, Remove(t) PROVE OnlyAnnounced'
    <3> DEFINE hash == request[t].info_hash
    <3>1. hash \in Hashes /\ Put(hash, List(hash) \ {request[t].addr})
      BY <2>4, ActiveRequest DEF Remove
    <3>2. \A h \in Hashes : List(h)' \subseteq List(h)
      BY <3>1, PutList
    <3>3. \A u \in Threads : pc'[u] = "store" =>
             pc[u] = "store" /\ request'[u] = request[u] /\ peers'[u] = peers[u]
      BY <2>4 DEF TypeOK, Remove, Return
    <3> QED BY <2>4, <3>2, <3>3 DEF OnlyAnnounced, Remove
  <2>5. ASSUME NEW t \in Threads, Copy(t) PROVE OnlyAnnounced'
    <3> DEFINE hash == request[t].info_hash
    <3>1. hash \in Hashes /\ Put(hash, List(hash))
      BY <2>5, ActiveRequest DEF Copy
    <3>2. \A h \in Hashes : List(h)' = List(h)
      BY <3>1, PutList
    <3>3. \A u \in Threads : pc'[u] = "store" =>
             \/ u = t /\ peers'[u] = List(hash)
             \/ pc[u] = "store" /\ peers'[u] = peers[u]
      BY <2>5 DEF TypeOK, Copy
    <3> QED BY <2>5, <3>1, <3>2, <3>3 DEF OnlyAnnounced, Copy, history
  <2>6. ASSUME NEW t \in Threads, Store(t) PROVE OnlyAnnounced'
    <3> DEFINE hash == request[t].info_hash
               addr == request[t].addr
    <3>1. hash \in Hashes /\ Put(hash, peers[t] \cup {addr})
      BY <2>6, ActiveRequest DEF Store
    <3>2. \A h \in Hashes : List(h)' = IF h = hash THEN peers[t] \cup {addr} ELSE List(h)
      BY <3>1, PutList
    <3>3. \A h \in Hashes :
             announced'[h] = IF h = hash THEN announced[h] \cup {addr} ELSE announced[h]
      BY <2>6 DEF TypeOK, Store
    <3>4. \A u \in Threads : pc'[u] = "store" => pc[u] = "store"
      BY <2>6 DEF TypeOK, Store
    <3>5. \A u \in Threads : pc[u] = "store" => request[u].info_hash \in Hashes
      BY ActiveRequest
    <3>6. peers[t] \subseteq announced[hash]
      BY <2>6 DEF OnlyAnnounced, Store
    <3> HIDE DEF hash, addr
    <3>7. \A h \in Hashes : List(h)' \subseteq announced'[h]
      BY <3>2, <3>3, <3>6 DEF OnlyAnnounced
    <3>8. request' = request /\ peers' = peers
      BY <2>6 DEF Store
    <3>9. \A u \in Threads : pc'[u] = "store" =>
             peers'[u] \subseteq announced'[request'[u].info_hash]
      BY <3>3, <3>4, <3>5, <3>8 DEF OnlyAnnounced
    <3> QED BY <3>7, <3>9 DEF OnlyAnnounced
  <2>7. ASSUME NEW t \in Threads, ReplyWithPeerList(t) PROVE OnlyAnnounced'
    <3>1. \A u \in Threads : pc'[u] = "store" =>
             pc[u] = "store" /\ request'[u] = request[u] /\ peers'[u] = peers[u]
      BY <2>7 DEF TypeOK, ReplyWithPeerList, Return
    <3> QED BY <2>7, <3>1 DEF OnlyAnnounced, List, ReplyWithPeerList, history
  <2> QED
    BY <2>1, <2>2, <2>3, <2>4, <2>5, <2>6, <2>7 DEF Next
<1> QED BY <1>1, <1>2, TypeCorrect, PTL DEF Spec
-----------------------------------------------------------------------------
(* The strengthening that makes SwarmUnlessOverlap inductive: the copy a   *)
(* thread is about to write back is the swarm of its hash, as long as no   *)
(* other thread has written that hash meanwhile.                           *)
CopyIsCurrent ==
    \A t \in Threads :
        pc[t] = "store" /\ request[t].info_hash \notin overlapped =>
            peers[t] = swarm[request[t].info_hash]

SwarmInv == SwarmUnlessOverlap /\ CopyIsCurrent

(* What a write of thread t keeps, if the list and the swarm of its hash   *)
(* become equal and the thread is not left with a copy.                    *)
LEMMA WriteKeepsSwarm ==
    ASSUME TypeOK, SwarmInv, NEW t \in Threads, NEW hash \in Hashes,
           hash = request[t].info_hash,
           NEW s, Wrote(t, s),
           hash \notin overlapped => List(hash)' = s,
           \A h \in Hashes : h # hash => List(h)' = List(h),
           \A u \in Threads : pc'[u] = "store" =>
               /\ u # t /\ pc[u] = "store"
               /\ request'[u] = request[u] /\ peers'[u] = peers[u]
    PROVE  SwarmInv'
<1>1. /\ overlapped \subseteq overlapped'
      /\ \A h \in Hashes : swarm'[h] = IF h = hash THEN s ELSE swarm[h]
  BY DEF Wrote, TypeOK
<1>2. SwarmUnlessOverlap'
  BY <1>1 DEF SwarmUnlessOverlap, SwarmInv
<1>3. CopyIsCurrent'
  <2> SUFFICES ASSUME NEW u \in Threads, pc'[u] = "store",
                      request'[u].info_hash \notin overlapped'
               PROVE  peers'[u] = swarm'[request'[u].info_hash]
    BY DEF CopyIsCurrent
  <2>1. u # t /\ pc[u] = "store" /\ request'[u] = request[u] /\ peers'[u] = peers[u]
    OBVIOUS
  <2>2. request[u].info_hash \in Hashes
    BY <2>1, ActiveRequest
  <2>3. request[u].info_hash # hash
    <3> SUFFICES ASSUME request[u].info_hash = hash PROVE FALSE
      OBVIOUS
    <3>1. Overlap(t)
      BY <2>1 DEF Overlap
    <3> QED BY <2>1, <3>1 DEF Wrote
  <2> QED BY <1>1, <2>1, <2>2, <2>3 DEF CopyIsCurrent, SwarmInv
<1> QED BY <1>2, <1>3 DEF SwarmInv

(* A step that writes no list and takes no copy keeps it, too. *)
LEMMA NoWriteKeepsSwarm ==
    ASSUME TypeOK, SwarmInv,
           UNCHANGED <<torrents, swarm, overlapped>>,
           \A u \in Threads : pc'[u] = "store" =>
               pc[u] = "store" /\ request'[u] = request[u] /\ peers'[u] = peers[u]
    PROVE  SwarmInv'
<1>1. SwarmUnlessOverlap'
  BY DEF SwarmUnlessOverlap, SwarmInv, List
<1>2. CopyIsCurrent'
  BY DEF CopyIsCurrent, SwarmInv
<1> QED BY <1>1, <1>2 DEF SwarmInv

LEMMA SwarmInvariant == Spec => []SwarmInv
<1>1. Init => SwarmInv
  BY DEF Init, SwarmInv, SwarmUnlessOverlap, CopyIsCurrent, List
<1>2. TypeOK /\ SwarmInv /\ [Next]_vars => SwarmInv'
  <2> SUFFICES ASSUME TypeOK, SwarmInv, [Next]_vars PROVE SwarmInv'
    OBVIOUS
  <2>1. CASE UNCHANGED vars
    BY <2>1, NoWriteKeepsSwarm DEF vars, history
  <2>2. ASSUME NEW t \in Threads, Refuse(t) PROVE SwarmInv'
    BY <2>2, NoWriteKeepsSwarm DEF Refuse, history
  <2>3. ASSUME NEW t \in Threads, NEW hash \in Hashes, NEW addr \in Addrs,
               NEW event \in Events, NEW n \in NumWants,
               Announce(t, hash, addr, event, n)
        PROVE  SwarmInv'
    <3>1. \A u \in Threads : pc'[u] = "store" =>
             pc[u] = "store" /\ request'[u] = request[u] /\ peers'[u] = peers[u]
      BY <2>3 DEF TypeOK, Announce
    <3> QED BY <2>3, <3>1, NoWriteKeepsSwarm DEF Announce, history
  <2>4. ASSUME NEW t \in Threads, Remove(t) PROVE SwarmInv'
    <3>0. PICK hash \in Hashes : hash = request[t].info_hash
      BY <2>4, ActiveRequest DEF Remove
    <3> DEFINE s == swarm[hash] \ {request[t].addr}
    <3>1. Put(hash, List(hash) \ {request[t].addr}) /\ Wrote(t, s)
      BY <2>4, <3>0 DEF Remove
    <3>2. \A h \in Hashes :
             List(h)' = IF h = hash THEN List(hash) \ {request[t].addr} ELSE List(h)
      BY <3>1, PutList
    <3>3. hash \notin overlapped => List(hash)' = s
      BY <3>1, <3>2 DEF SwarmInv, SwarmUnlessOverlap
    <3>4. \A u \in Threads : pc'[u] = "store" =>
               /\ u # t /\ pc[u] = "store"
               /\ request'[u] = request[u] /\ peers'[u] = peers[u]
      BY <2>4 DEF TypeOK, Remove, Return
    <3> HIDE DEF s
    <3> QED BY <3>0, <3>1, <3>2, <3>3, <3>4, WriteKeepsSwarm
  <2>5. ASSUME NEW t \in Threads, Copy(t) PROVE SwarmInv'
    <3> DEFINE hash == request[t].info_hash
    <3>1. hash \in Hashes /\ Put(hash, List(hash))
      BY <2>5, ActiveRequest DEF Copy
    <3>2. \A h \in Hashes : List(h)' = List(h)
      BY <3>1, PutList
    <3>3. \A u \in Threads : pc'[u] = "store" =>
             \/ u = t /\ peers'[u] = List(hash)
             \/ pc[u] = "store" /\ peers'[u] = peers[u]
      BY <2>5 DEF TypeOK, Copy
    <3>4. request' = request /\ swarm' = swarm /\ overlapped' = overlapped
      BY <2>5 DEF Copy, history
    <3>5. SwarmUnlessOverlap'
      BY <3>2, <3>4 DEF SwarmUnlessOverlap, SwarmInv
    <3>6. CopyIsCurrent'
      BY <3>1, <3>3, <3>4 DEF CopyIsCurrent, SwarmUnlessOverlap, SwarmInv
    <3> QED BY <3>5, <3>6 DEF SwarmInv
  <2>6. ASSUME NEW t \in Threads, Store(t) PROVE SwarmInv'
    <3>0. PICK hash \in Hashes : hash = request[t].info_hash
      BY <2>6, ActiveRequest DEF Store
    <3> DEFINE s == swarm[hash] \cup {request[t].addr}
    <3>1. Put(hash, peers[t] \cup {request[t].addr}) /\ Wrote(t, s)
      BY <2>6, <3>0 DEF Store
    <3>2. \A h \in Hashes :
             List(h)' = IF h = hash THEN peers[t] \cup {request[t].addr} ELSE List(h)
      BY <3>1, PutList
    <3>3. hash \notin overlapped => List(hash)' = s
      BY <2>6, <3>0, <3>2 DEF SwarmInv, CopyIsCurrent, Store
    <3>4. \A u \in Threads : pc'[u] = "store" =>
               /\ u # t /\ pc[u] = "store"
               /\ request'[u] = request[u] /\ peers'[u] = peers[u]
      BY <2>6 DEF TypeOK, Store
    <3> HIDE DEF s
    <3> QED BY <3>0, <3>1, <3>2, <3>3, <3>4, WriteKeepsSwarm
  <2>7. ASSUME NEW t \in Threads, ReplyWithPeerList(t) PROVE SwarmInv'
    <3>1. \A u \in Threads : pc'[u] = "store" =>
             pc[u] = "store" /\ request'[u] = request[u] /\ peers'[u] = peers[u]
      BY <2>7 DEF TypeOK, ReplyWithPeerList, Return
    <3> QED BY <2>7, <3>1, NoWriteKeepsSwarm DEF ReplyWithPeerList, history
  <2> QED
    BY <2>1, <2>2, <2>3, <2>4, <2>5, <2>6, <2>7 DEF Next
<1> QED BY <1>1, <1>2, TypeCorrect, PTL DEF Spec

(* The unlocked read, change and write back of a peer list loses nothing   *)
(* unless two announcements of the same hash overlap in it.                *)
THEOREM SwarmsAreSequential == Spec => []SwarmUnlessOverlap
<1>1. SwarmInv => SwarmUnlessOverlap
  BY DEF SwarmInv
<1> QED BY <1>1, SwarmInvariant, PTL
-----------------------------------------------------------------------------
(* One step of LeavesByStopping. *)
Leaves ==
    \A h \in Hashes : \A a \in List(h) :
        \/ a \in List(h)'
        \/ h \in overlapped'
        \/ \E t \in Threads : /\ pc[t] = "remove" /\ pc'[t] = "idle"
                              /\ request[t].info_hash = h
                              /\ request[t].addr = a

(* A peer leaves a list only by its own "stopped", which the handler       *)
(* removes, or when announcements of the hash overlapped.                  *)
THEOREM PeersLeaveByStopping == Spec => LeavesByStopping
<1>1. TypeOK /\ SwarmInv /\ [Next]_vars => Leaves
  <2> SUFFICES ASSUME TypeOK, SwarmInv, [Next]_vars,
                      NEW h \in Hashes, NEW a \in List(h),
                      a \notin List(h)', h \notin overlapped'
               PROVE  \E t \in Threads : /\ pc[t] = "remove" /\ pc'[t] = "idle"
                                         /\ request[t].info_hash = h
                                         /\ request[t].addr = a
    BY DEF Leaves
  <2>1. torrents' # torrents
    BY DEF List
  <2>2. PICK t \in Threads : Remove(t) \/ Copy(t) \/ Store(t)
    BY <2>1 DEF Next, vars, Refuse, Announce, ReplyWithPeerList
  <2>3. PICK hash \in Hashes : hash = request[t].info_hash
    BY <2>2, ActiveRequest DEF Remove, Copy, Store
  <2>4. CASE Remove(t)
    <3>1. List(h)' = IF h = hash THEN List(hash) \ {request[t].addr} ELSE List(h)
      BY <2>3, <2>4, PutList DEF Remove
    <3> QED BY <2>3, <2>4, <3>1 DEF Remove, Return, TypeOK
  <2>5. CASE Copy(t)
    BY <2>3, <2>5, PutList DEF Copy
  <2>6. CASE Store(t)
    <3>1. List(h)' = IF h = hash THEN peers[t] \cup {request[t].addr} ELSE List(h)
      BY <2>3, <2>6, PutList DEF Store
    <3>2. h \notin overlapped
      BY <2>6 DEF Store, Wrote
    <3>3. h = hash => peers[t] = List(h)
      BY <2>3, <2>6, <3>2 DEF SwarmInv, SwarmUnlessOverlap, CopyIsCurrent, Store
    <3> QED BY <3>1, <3>3
  <2> QED BY <2>2, <2>4, <2>5, <2>6
<1>2. Spec => [][Leaves]_vars
  BY <1>1, TypeCorrect, SwarmInvariant, PTL DEF Spec
<1> QED BY <1>2 DEF LeavesByStopping, Leaves
-----------------------------------------------------------------------------
(* How many of the list come before a: 0 for the first peer of the map,    *)
(* one more for each that follows.                                         *)
Before(list, a) == Cardinality({b \in list : b < a})

LEMMA CountBefore ==
    ASSUME NEW list, list \subseteq Int, IsFiniteSet(list)
    PROVE  /\ Cardinality(list) \in Nat
           /\ \A a \in list : Before(list, a) \in 0 .. Cardinality(list) - 1
           /\ \A a, b \in list : a < b => Before(list, a) < Before(list, b)
<1> DEFINE Lower(a) == {x \in list : x < a}
<1>1. Cardinality(list) \in Nat
  BY FS_CardinalityType
<1>2. \A a : Before(list, a) = Cardinality(Lower(a))
  BY DEF Before
<1>3. ASSUME NEW a \in list
      PROVE  IsFiniteSet(Lower(a)) /\ Before(list, a) \in 0 .. Cardinality(list) - 1
  <2>1. Lower(a) \in SUBSET list /\ a \notin Lower(a)
    OBVIOUS
  <2> HIDE DEF Lower
  <2>2. /\ IsFiniteSet(Lower(a)) /\ Cardinality(Lower(a)) <= Cardinality(list)
        /\ Cardinality(list) # Cardinality(Lower(a))
    BY <2>1, FS_Subset
  <2>3. Cardinality(Lower(a)) \in Nat
    BY <2>2, FS_CardinalityType
  <2> QED BY <1>1, <1>2, <2>2, <2>3
<1>4. ASSUME NEW a \in list, NEW b \in list, a < b
      PROVE  Before(list, a) < Before(list, b)
  <2>1. \A c \in list : c < a => c < b
    BY <1>4
  <2>2. Lower(a) \in SUBSET Lower(b) /\ a \in Lower(b) /\ a \notin Lower(a)
    <3>1. Lower(a) \in SUBSET Lower(b)
      BY <2>1
    <3>2. a \in Int /\ ~ (a < a)
      OBVIOUS
    <3> QED BY <1>4, <3>1, <3>2
  <2>3. IsFiniteSet(Lower(b))
    BY <1>3
  <2>4. Before(list, a) \in Nat /\ Before(list, b) \in Nat
    <3>1. \A k \in 0 .. Cardinality(list) - 1 : k \in Nat
      BY <1>1
    <3> QED BY <1>3, <3>1
  <2> HIDE DEF Lower
  <2>5. /\ Cardinality(Lower(a)) <= Cardinality(Lower(b))
        /\ Cardinality(Lower(b)) # Cardinality(Lower(a))
    BY <2>2, <2>3, FS_Subset
  <2> QED BY <1>2, <2>4, <2>5
<1> QED BY <1>1, <1>3, <1>4

(* The numbers below n. *)
LEMMA CountTo ==
    ASSUME NEW n \in Nat
    PROVE  IsFiniteSet(0 .. n - 1) /\ Cardinality(0 .. n - 1) = n
<1>1. 0 \in Int /\ n - 1 \in Int
  OBVIOUS
<1>2. /\ IsFiniteSet(0 .. n - 1)
      /\ Cardinality(0 .. n - 1) = IF 0 > n - 1 THEN 0 ELSE n - 1 - 0 + 1
  BY <1>1, FS_Interval
<1>3. (IF 0 > n - 1 THEN 0 ELSE n - 1 - 0 + 1) = n
  OBVIOUS
<1> QED BY <1>2, <1>3

(* The loop of ReplyWithPeerList: it stops after n peers, stops earlier    *)
(* only at the end of the list, and skips none.                            *)
LEMMA FirstProperties ==
    ASSUME NEW list, list \subseteq Int, IsFiniteSet(list), NEW n \in Nat
    PROVE  LET F == First(list, n)
           IN  /\ F \subseteq list
               /\ Cardinality(F) <= n
               /\ Cardinality(F) < n => F = list
               /\ \A a \in F, b \in list \ F : a < b
<1> DEFINE F == First(list, n)
           C == Cardinality(list)
           at == [a \in list |-> Before(list, a)]
           atF == [a \in F |-> Before(list, a)]
<1>1. /\ C \in Nat
      /\ \A a \in list : Before(list, a) \in 0 .. C - 1
      /\ \A a, b \in list : a < b => Before(list, a) < Before(list, b)
  BY CountBefore
<1>2. F \in SUBSET list /\ \A a \in list : a \in F <=> Before(list, a) < n
  BY DEF First, Before
<1>3. \A a, b \in list : Before(list, a) = Before(list, b) => a = b
  <2> SUFFICES ASSUME NEW a \in list, NEW b \in list,
                      Before(list, a) = Before(list, b), a # b
               PROVE  FALSE
    OBVIOUS
  <2>1. a < b \/ b < a
    OBVIOUS
  <2>2. Before(list, a) \in Int /\ Before(list, b) \in Int
    BY <1>1
  <2> QED BY <1>1, <2>1, <2>2
<1> HIDE DEF F, C
<1>4. IsFiniteSet(F)
  BY <1>2, FS_Subset
<1>5. atF \in Injection(F, 0 .. n - 1)
  <2>1. \A a \in F : Before(list, a) \in 0 .. n - 1
    BY <1>1, <1>2
  <2> QED BY <1>2, <1>3, <2>1 DEF Injection, IsInjective
<1>6. /\ Cardinality(F) <= n
      /\ Cardinality(F) = n <=> atF \in Surjection(F, 0 .. n - 1)
  <2> HIDE DEF atF
  <2> QED BY <1>5, CountTo, FS_Injection
<1>7. at \in Surjection(list, 0 .. C - 1)
  <2>1. at \in Injection(list, 0 .. C - 1)
    BY <1>1, <1>3 DEF Injection, IsInjective
  <2>2. IsFiniteSet(0 .. C - 1) /\ Cardinality(0 .. C - 1) = Cardinality(list)
    BY <1>1, CountTo DEF C
  <2> HIDE DEF at
  <2> QED BY <2>1, <2>2, FS_Injection
<1>8. ASSUME Cardinality(F) < n
      PROVE  F = list
  <2>1. atF \notin Surjection(F, 0 .. n - 1)
    <3>1. Cardinality(F) \in Nat
      BY <1>4, FS_CardinalityType
    <3> QED BY <1>6, <1>8, <3>1
  <2>2. PICK k \in 0 .. n - 1 : \A a \in F : Before(list, a) # k
    BY <1>5, <2>1 DEF Injection, Surjection
  <2>3. \A a \in list : Before(list, a) # k
    BY <1>2, <2>2
  <2>4. k \notin 0 .. C - 1
    BY <1>7, <2>3 DEF Surjection
  <2>5. C <= n
    BY <1>1, <2>4
  <2>6. \A a \in list : Before(list, a) < n
    BY <1>1, <2>5
  <2> QED BY <1>2, <2>6
<1>9. ASSUME NEW a \in F, NEW b \in list \ F
      PROVE  a < b
  <2>1. Before(list, a) < n /\ ~ (Before(list, b) < n) /\ a \in list
    BY <1>2
  <2>2. Before(list, a) \in Int /\ Before(list, b) \in Int
    BY <1>1, <2>1
  <2>3. ~ (b < a) /\ a # b
    BY <1>1, <2>1, <2>2
  <2> QED BY <2>1, <2>3
<1> QED BY <1>2, <1>6, <1>8, <1>9 DEF F

(* A reply has at most numwant peers, all there are if there are fewer,    *)
(* and always the first ones of the list: for lists of any length, and     *)
(* whatever the other threads write between the store and the reply.       *)
THEOREM RepliesAreFirst == Spec => RepliesFit
<1> DEFINE Fits(t) ==
        pc[t] = "reply" /\ pc'[t] = "idle" =>
            LET list == List(request[t].info_hash)
                n    == Cardinality(reply'[t].peers)
            IN  /\ n <= request[t].numwant
                /\ n < request[t].numwant => reply'[t].peers = list
                /\ \A a \in reply'[t].peers, b \in list \ reply'[t].peers : a < b
<1>1. ASSUME TypeOK, [Next]_vars, NEW t \in Threads, pc[t] = "reply", pc'[t] = "idle"
      PROVE  Fits(t)
  <2>1. ReplyWithPeerList(t)
    BY <1>1 DEF Next, vars, TypeOK, Refuse, Announce, Remove, Copy, Store, ReplyWithPeerList,
                Return
  <2>2. request[t].info_hash \in Hashes /\ request[t].numwant \in Nat
    BY <1>1, ActiveRequest
  <2>3. PICK list : list = List(request[t].info_hash)
    OBVIOUS
  <2>4. list \subseteq Int /\ IsFiniteSet(list)
    <3>1. list \in SUBSET Addrs
      BY <1>1, <2>2, <2>3, ListType
    <3> QED BY <3>1, FS_Subset, ConstantsAssumption
  <2>5. reply'[t].peers = First(list, request[t].numwant)
    BY <1>1, <2>1, <2>3 DEF ReplyWithPeerList, Reply, TypeOK
  <2> QED BY <2>2, <2>3, <2>4, <2>5, FirstProperties
<1>2. TypeOK /\ [Next]_vars => [\A t \in Threads : Fits(t)]_vars
  BY <1>1
<1> QED BY TypeCorrect, <1>2, PTL DEF Spec, RepliesFit
=============================================================================
