-------------------------- MODULE HttpServerProofs --------------------------
(***************************************************************************)
(* What holds of the HTTP server for any number of handlers, connections   *)
(* and waiting requests.                                                   *)
(***************************************************************************)
EXTENDS HttpServer, SequenceTheorems, FiniteSetTheorems, TLAPS

(* cleanup's removeOne from a list in which a handler occurs once. *)
LEMMA RemoveFromPool ==
    ASSUME NEW S, NEW q \in Seq(S), NEW i \in DOMAIN q,
           \A j, k \in DOMAIN q : q[j] = q[k] => j = k
    PROVE  LET r == RemoveAt(q, i)
           IN  /\ r \in Seq(S)
               /\ Len(r) = Len(q) - 1
               /\ \A j, k \in DOMAIN r : r[j] = r[k] => j = k
               /\ Range(r) = Range(q) \ {q[i]}
<1> DEFINE r == RemoveAt(q, i)
<1>1. i \in 1 .. Len(q) /\ Len(q) \in Nat
  OBVIOUS
<1>2. /\ SubSeq(q, 1, i - 1) \in Seq(S)
      /\ Len(SubSeq(q, 1, i - 1)) = i - 1
      /\ \A k \in 1 .. i - 1 : SubSeq(q, 1, i - 1)[k] = q[k]
  BY <1>1, SubSeqProperties
<1>3. /\ SubSeq(q, i + 1, Len(q)) \in Seq(S)
      /\ Len(SubSeq(q, i + 1, Len(q))) = Len(q) - i
      /\ \A k \in 1 .. Len(q) - i : SubSeq(q, i + 1, Len(q))[k] = q[i + k]
  <2>1. CASE i = Len(q)
    BY <1>1, <2>1, SubSeqProperties
  <2>2. CASE i < Len(q)
    BY <1>1, <2>2, SubSeqProperties
  <2> QED BY <1>1, <2>1, <2>2
<1>4. /\ r \in Seq(S)
      /\ Len(r) = Len(q) - 1
      /\ \A k \in 1 .. Len(q) - 1 : r[k] = IF k < i THEN q[k] ELSE q[k + 1]
  <2> DEFINE a == SubSeq(q, 1, i - 1)
             b == SubSeq(q, i + 1, Len(q))
  <2>1. r = a \o b
    BY DEF RemoveAt
  <2>2. a \in Seq(S) /\ b \in Seq(S) /\ Len(a) = i - 1 /\ Len(b) = Len(q) - i
    BY <1>2, <1>3
  <2>3. /\ \A k \in 1 .. i - 1 : a[k] = q[k]
        /\ \A k \in 1 .. Len(q) - i : b[k] = q[i + k]
    BY <1>2, <1>3
  <2> HIDE DEF a, b, r
  <2>4. /\ r \in Seq(S)
        /\ Len(r) = Len(a) + Len(b)
        /\ \A k \in 1 .. Len(a) + Len(b) :
              r[k] = IF k <= Len(a) THEN a[k] ELSE b[k - Len(a)]
    BY <2>1, <2>2, ConcatProperties
  <2>5. Len(a) + Len(b) = Len(q) - 1
    BY <1>1, <2>2
  <2>6. ASSUME NEW k \in 1 .. Len(q) - 1
        PROVE  r[k] = IF k < i THEN q[k] ELSE q[k + 1]
    <3>1. r[k] = IF k <= i - 1 THEN a[k] ELSE b[k - (i - 1)]
      BY <2>2, <2>4, <2>5
    <3>2. CASE k < i
      BY <1>1, <2>3, <3>1, <3>2
    <3>3. CASE k >= i
      <4>1. k - (i - 1) \in 1 .. Len(q) - i /\ i + (k - (i - 1)) = k + 1
        BY <1>1, <3>3
      <4> QED BY <1>1, <2>3, <3>1, <3>3, <4>1
    <3> QED BY <1>1, <3>2, <3>3
  <2> QED BY <2>4, <2>5, <2>6
<1> HIDE DEF r
<1>5. DOMAIN r = 1 .. Len(q) - 1 /\ DOMAIN q = 1 .. Len(q)
  BY <1>4
<1>6. ASSUME NEW j \in DOMAIN r, NEW k \in DOMAIN r, r[j] = r[k]
      PROVE  j = k
  <2> DEFINE at(n) == IF n < i THEN n ELSE n + 1
  <2>1. r[j] = q[at(j)] /\ r[k] = q[at(k)]
    BY <1>4, <1>5
  <2>2. at(j) \in DOMAIN q /\ at(k) \in DOMAIN q
    BY <1>1, <1>5
  <2>3. at(j) = at(k)
    BY <1>6, <2>1, <2>2
  <2> QED BY <1>1, <1>5, <2>3
<1>7. Range(r) \subseteq Range(q) \ {q[i]}
  BY <1>1, <1>4, <1>5 DEF Range
<1>8. Range(q) \ {q[i]} \subseteq Range(r)
  <2> SUFFICES ASSUME NEW k \in 1 .. Len(q), k # i PROVE q[k] \in Range(r)
    BY <1>5 DEF Range
  <2>1. CASE k < i
    <3>1. k \in DOMAIN r /\ r[k] = q[k]
      BY <1>1, <1>4, <1>5, <2>1
    <3> QED BY <3>1 DEF Range
  <2>2. CASE k > i
    <3>1. k - 1 \in DOMAIN r /\ r[k - 1] = q[k]
      BY <1>1, <1>4, <1>5, <2>2
    <3> QED BY <3>1 DEF Range
  <2> QED BY <1>1, <2>1, <2>2
<1> QED BY <1>4, <1>6, <1>7, <1>8 DEF r

(* A new handler is appended to the pool. *)
LEMMA AppendToPool ==
    ASSUME NEW S, NEW q \in Seq(S), NEW x \in S, x \notin Range(q),
           \A j, k \in DOMAIN q : q[j] = q[k] => j = k
    PROVE  LET r == Append(q, x)
           IN  /\ r \in Seq(S)
               /\ Len(r) = Len(q) + 1
               /\ \A j, k \in DOMAIN r : r[j] = r[k] => j = k
               /\ Range(r) = Range(q) \cup {x}
<1> DEFINE r == Append(q, x)
<1>1. /\ r \in Seq(S) /\ Len(r) = Len(q) + 1 /\ Len(q) \in Nat
      /\ \A k \in 1 .. Len(q) : r[k] = q[k]
      /\ r[Len(q) + 1] = x
      /\ DOMAIN r = 1 .. Len(q) + 1 /\ DOMAIN q = 1 .. Len(q)
  BY AppendProperties
<1> HIDE DEF r
<1>2. \A k \in DOMAIN q : q[k] # x
  BY DEF Range
<1>3. \A j, k \in DOMAIN r : r[j] = r[k] => j = k
  BY <1>1, <1>2
<1>4. Range(r) = Range(q) \cup {x}
  <2>1. Range(r) \subseteq Range(q) \cup {x}
    BY <1>1 DEF Range
  <2>2. x \in Range(r)
    BY <1>1 DEF Range
  <2>3. \A k \in DOMAIN q : q[k] \in Range(r)
    BY <1>1 DEF Range
  <2> QED BY <2>1, <2>2, <2>3 DEF Range
<1> QED BY <1>1, <1>3, <1>4 DEF r
-----------------------------------------------------------------------------
(* What makes the invariants inductive: the handler that is being deleted  *)
(* has left the pool, a handler that is lost has neither a call nor a      *)
(* connection, and a request is never more than its two halves.            *)
Apart ==
    /\ gui # Free => gui \notin InPool
    /\ \A h \in lost : calls[h] = <<>> /\ sock[h] = NoConn
    /\ \A h \in Handlers : Len(req[h]) <= 2

Inv == TypeOK /\ Apart /\ OneConnection /\ RequestsUnmixed /\ OpenIsTimed

(* No handler exists when the server starts. *)
LEMMA InitInv == Init => Inv
<1> SUFFICES ASSUME Init PROVE Inv
  OBVIOUS
<1> USE DEF Init
<1>1. TypeOK
  BY ConstantsAssumption DEF TypeOK
<1>2. InPool = {}
  BY DEF InPool, Range
<1>3. Apart
  BY <1>2 DEF Apart
<1>4. OneConnection /\ RequestsUnmixed /\ OpenIsTimed
  BY DEF OneConnection, RequestsUnmixed, OpenIsTimed
<1> QED BY <1>1, <1>3, <1>4 DEF Inv

(* The GUI thread gives a connection to a handler. *)
LEMMA AcceptInv ==
    ASSUME Inv, NEW c \in Conns, NEW h \in Handlers, Accept(c, h)
    PROVE  Inv'
<1> USE DEF Inv
<1>1. /\ pool' \in Seq(Handlers) /\ Len(pool') <= MaxThreads
      /\ \A i, j \in DOMAIN pool' : pool'[i] = pool'[j] => i = j
      /\ InPool' = InPool \cup {h}
      /\ ~busy[h]
  <2>1. CASE TakeIdle(h)
    BY <2>1 DEF TakeIdle, TypeOK, InPool, Range
  <2>2. CASE CreateHandler(h)
    <3>1. pool' = Append(pool, h) /\ h \notin Range(pool) /\ Len(pool) < MaxThreads
      BY <2>2 DEF CreateHandler, InPool
    <3>2. /\ pool' \in Seq(Handlers) /\ Len(pool') = Len(pool) + 1
          /\ \A i, j \in DOMAIN pool' : pool'[i] = pool'[j] => i = j
          /\ Range(pool') = Range(pool) \cup {h}
      <4>1. /\ pool \in Seq(Handlers)
            /\ \A i, j \in DOMAIN pool : pool[i] = pool[j] => i = j
        BY DEF TypeOK
      <4> QED BY <3>1, <4>1, AppendToPool
    <3>3. ~busy[h]
      <4>1. h \notin InPool
        BY <3>1 DEF InPool
      <4> QED BY <4>1 DEF OneConnection
    <3>4. Len(pool) \in Nat /\ MaxThreads \in Int
      BY ConstantsAssumption DEF TypeOK
    <3> QED BY <3>1, <3>2, <3>3, <3>4 DEF InPool
  <2> QED BY <2>1, <2>2 DEF Accept, GetConnectionHandler
<1>2. busy' = [busy EXCEPT ![h] = TRUE]
  BY DEF Accept, GetConnectionHandler, TakeIdle, CreateHandler, SetBusy
<1>3. calls[h] = <<>> /\ sock[h] = NoConn /\ h \notin lost
  BY <1>1 DEF OneConnection
<1>4. calls' = [calls EXCEPT ![h] = <<c>>]
  BY <1>3 DEF Accept, TypeOK
<1>5. TypeOK'
  BY <1>1, <1>2, <1>4 DEF Accept, TypeOK
<1>6. Apart'
  BY <1>1, <1>3, <1>4 DEF Accept, Apart, TypeOK
<1>7. OneConnection'
  <2> SUFFICES ASSUME NEW g \in Handlers
               PROVE  /\ Len(calls'[g]) <= 1
                      /\ calls'[g] # <<>> => sock'[g] = NoConn
                      /\ busy'[g] <=> calls'[g] # <<>> \/ sock'[g] # NoConn \/ g \in lost'
                      /\ busy'[g] => g \in InPool'
    BY DEF OneConnection
  <2>1. sock' = sock /\ lost' = lost
    BY DEF Accept
  <2>2. CASE g = h
    BY <1>1, <1>2, <1>3, <1>4, <2>1, <2>2 DEF TypeOK
  <2>3. CASE g # h
    BY <1>1, <1>2, <1>4, <2>1, <2>3 DEF TypeOK, OneConnection
  <2> QED BY <2>2, <2>3
<1>8. RequestsUnmixed' /\ OpenIsTimed'
  BY DEF Accept, RequestsUnmixed, OpenIsTimed
<1> QED BY <1>5, <1>6, <1>7, <1>8

(* Steps of the GUI thread and of the peers that leave the handlers alone. *)
LEMMA QuietInv ==
    ASSUME Inv, UNCHANGED <<pool, gui, busy, calls, sock, closing, timer, req, phase, lost>>,
           conn' \in [Conns -> {"none", "queued", "open", "rejected"}],
           kernel' \in [Conns -> Nat], buf' \in [Conns -> Nat],
           hungUp' \in [Conns -> BOOLEAN], outOfStep' \in [Conns -> BOOLEAN]
    PROVE  Inv'
BY DEF Inv, TypeOK, Apart, OneConnection, RequestsUnmixed, OpenIsTimed, InPool

(* cleanup only takes a handler out of the pool that is not busy. *)
LEMMA CleanupInv ==
    ASSUME Inv, Cleanup
    PROVE  Inv'
<1> USE DEF Inv
<1>1. PICK i \in DOMAIN pool : ~busy[pool[i]] /\ gui' = pool[i] /\ pool' = RemoveAt(pool, i)
  BY DEF Cleanup
<1>2. /\ pool' \in Seq(Handlers)
      /\ Len(pool') = Len(pool) - 1
      /\ \A j, k \in DOMAIN pool' : pool'[j] = pool'[k] => j = k
      /\ InPool' = InPool \ {pool[i]}
  BY <1>1, RemoveFromPool DEF TypeOK, InPool
<1>3. pool[i] \in Handlers /\ Len(pool) \in Nat /\ MaxThreads \in Int
  BY <1>1, ConstantsAssumption DEF TypeOK
<1>4. UNCHANGED <<busy, calls, sock, closing, timer, req, phase, lost>>
  BY DEF Cleanup, handlerVars
<1>5. UNCHANGED <<conn, kernel, buf, hungUp, outOfStep>>
  BY DEF Cleanup, connVars
<1>6. TypeOK'
  <2>1. Len(pool') <= MaxThreads
    <3>1. Len(pool) <= MaxThreads
      BY DEF TypeOK
    <3> QED BY <1>2, <1>3, <3>1
  <2>2. gui' \in Handlers \cup {Free}
    BY <1>1, <1>3
  <2> QED BY <1>2, <1>4, <1>5, <2>1, <2>2 DEF TypeOK
<1>7. Apart'
  BY <1>1, <1>2, <1>3, <1>4 DEF Apart
<1>8. OneConnection'
  <2>1. \A g \in Handlers : busy[g] => g \in InPool'
    BY <1>1, <1>2 DEF OneConnection
  <2> QED BY <1>4, <2>1 DEF OneConnection
<1>9. RequestsUnmixed' /\ OpenIsTimed'
  BY <1>4 DEF RequestsUnmixed, OpenIsTimed
<1> QED BY <1>6, <1>7, <1>8, <1>9

(* A deleted handler had neither a connection nor a call. *)
LEMMA DeletedInv ==
    ASSUME Inv, Deleted
    PROVE  Inv'
<1> USE DEF Inv
<1>1. gui \in Handlers /\ gui \notin InPool
  BY DEF Deleted, TypeOK, Apart
<1>2. PICK g \in Handlers : g = gui
  BY <1>1
<1>3. calls[g] = <<>> /\ sock[g] = NoConn /\ g \notin lost
  BY <1>1, <1>2 DEF OneConnection
<1>4. TypeOK'
  BY <1>2 DEF Deleted, TypeOK, connVars
<1>5. Apart'
  BY <1>2, <1>3 DEF Deleted, TypeOK, Apart, InPool
<1>6. OneConnection'
  BY <1>1, <1>2, <1>3 DEF Deleted, TypeOK, OneConnection, InPool
<1>7. RequestsUnmixed' /\ OpenIsTimed'
  BY <1>2, <1>3 DEF Deleted, TypeOK, RequestsUnmixed, OpenIsTimed
<1> QED BY <1>4, <1>5, <1>6, <1>7
-----------------------------------------------------------------------------
(* The first thing a new connection does is to drop the half request that  *)
(* the one before it may have left.                                        *)
LEMMA HandleConnectionInv ==
    ASSUME Inv, NEW h \in Handlers, HandleConnection(h)
    PROVE  Inv'
<1> USE DEF Inv
<1>1. /\ calls[h] \in Seq(Conns) /\ calls[h] # <<>> /\ Len(calls[h]) <= 1
      /\ sock[h] = NoConn /\ h \in InPool /\ h \notin lost
  BY DEF HandleConnection, TypeOK, OneConnection, Apart
<1>2. Tail(calls[h]) = <<>> /\ Head(calls[h]) \in Conns
  BY <1>1
<1>3. PICK c \in Conns : c = Head(calls[h])
  BY <1>2
<1>4. /\ calls' = [calls EXCEPT ![h] = <<>>]
      /\ busy' = [busy EXCEPT ![h] = TRUE]
      /\ sock' = [sock EXCEPT ![h] = c]
      /\ timer' = [timer EXCEPT ![h] = c]
      /\ req' = [req EXCEPT ![h] = <<>>]
      /\ UNCHANGED <<pool, gui, phase, lost>>
  BY <1>2, <1>3 DEF HandleConnection, SetBusy
<1>5. TypeOK'
  BY <1>3, <1>4 DEF HandleConnection, TypeOK
<1>6. Apart'
  BY <1>1, <1>4 DEF Apart, TypeOK, InPool
<1>7. OneConnection'
  BY <1>1, <1>3, <1>4, ConstantsAssumption DEF OneConnection, TypeOK, InPool
<1>8. RequestsUnmixed' /\ OpenIsTimed'
  BY <1>4 DEF HandleConnection, RequestsUnmixed, OpenIsTimed, TypeOK
<1> QED BY <1>5, <1>6, <1>7, <1>8

(* The handler without a socket stays busy, in the pool. *)
LEMMA CannotInitializeSocketInv ==
    ASSUME Inv, NEW h \in Handlers, CannotInitializeSocket(h)
    PROVE  Inv'
<1> USE DEF Inv
<1>1. /\ calls[h] \in Seq(Conns) /\ calls[h] # <<>> /\ Len(calls[h]) <= 1
      /\ sock[h] = NoConn /\ h \in InPool
  BY DEF CannotInitializeSocket, TypeOK, OneConnection
<1>2. Tail(calls[h]) = <<>> /\ Head(calls[h]) \in Conns
  BY <1>1
<1>3. /\ calls' = [calls EXCEPT ![h] = <<>>]
      /\ busy' = [busy EXCEPT ![h] = TRUE]
      /\ lost' = lost \cup {h}
      /\ UNCHANGED <<pool, gui, sock, closing, timer, req, phase>>
  BY <1>2 DEF CannotInitializeSocket, SetBusy
<1>4. TypeOK'
  BY <1>2, <1>3 DEF CannotInitializeSocket, End, TypeOK
<1>5. Apart'
  BY <1>1, <1>3 DEF Apart, TypeOK, InPool
<1>6. OneConnection'
  BY <1>1, <1>3 DEF OneConnection, TypeOK, InPool
<1>7. RequestsUnmixed' /\ OpenIsTimed'
  BY <1>3 DEF RequestsUnmixed, OpenIsTimed
<1> QED BY <1>4, <1>5, <1>6, <1>7

(* A timeout closes the connection the timer was started for. *)
LEMMA ReadTimeoutInv ==
    ASSUME Inv, NEW h \in Handlers, ReadTimeout(h)
    PROVE  Inv'
<1> USE DEF Inv, ReadTimeout
<1>1. TypeOK'
  BY DEF TypeOK, connVars
<1>2. Apart'
  BY DEF Apart, TypeOK, InPool
<1>3. OneConnection'
  BY DEF OneConnection, InPool
<1>4. RequestsUnmixed'
  BY DEF RequestsUnmixed, TypeOK
<1>5. OpenIsTimed'
  <2>1. ASSUME NEW g \in Handlers, sock[g] # NoConn
        PROVE  /\ phase[g] = "idle" /\ ~closing'[g] => timer'[g] = sock[g]
               /\ timer'[g] \in {sock[g], Off}
    <3>1. CASE g = h
      BY <2>1, <3>1 DEF TypeOK
    <3>2. CASE g # h
      BY <2>1, <3>2 DEF TypeOK, OpenIsTimed
    <3> QED BY <3>1, <3>2
  <2> QED BY <2>1 DEF OpenIsTimed
<1> QED BY <1>1, <1>2, <1>3, <1>4, <1>5

(* disconnected, in an event loop or inside service. *)
LEMMA DisconnectInv ==
    ASSUME Inv, NEW h \in Handlers, sock[h] # NoConn, Disconnect(h)
    PROVE  Inv'
<1> USE DEF Inv, Disconnect
<1>1. sock[h] \in Conns
  BY DEF TypeOK
<1>2. calls[h] = <<>> /\ h \notin lost
  BY DEF OneConnection, Apart
<1>3. TypeOK'
  BY <1>1 DEF TypeOK, End
<1>4. Apart'
  BY DEF Apart, TypeOK, InPool
<1>5. OneConnection'
  BY <1>2 DEF OneConnection, TypeOK, InPool
<1>6. RequestsUnmixed' /\ OpenIsTimed'
  BY DEF RequestsUnmixed, OpenIsTimed, TypeOK
<1> QED BY <1>3, <1>4, <1>5, <1>6
-----------------------------------------------------------------------------
(* What a read takes out of the socket. *)
LEMMA ConsumeType ==
    ASSUME Inv, NEW h \in Handlers, ReadyRead(h) \/ (phase[h] = "service" /\ sock[h] # NoConn),
           NEW n \in Nat, n <= Available(h), Consume(h, n)
    PROVE  kernel' \in [Conns -> Nat] /\ buf' \in [Conns -> Nat]
<1>1. PICK c \in Conns : c = sock[h]
  BY DEF Inv, TypeOK, ReadyRead
<1>2. kernel[c] \in Nat /\ buf[c] \in Nat
  BY DEF Inv, TypeOK
<1>3. Available(h) - n \in Nat
  BY <1>1, <1>2 DEF Available
<1> QED BY <1>1, <1>3 DEF Consume, Inv, TypeOK

(* The halves that go into the request are the socket's own, and never     *)
(* more than the request lacks.                                            *)
LEMMA TakeHalves ==
    ASSUME Inv, NEW h \in Handlers, ReadyRead(h), NEW n \in Nat, n <= Wanted(h),
           req' = [req EXCEPT ![h] = @ \o Halves(h, n)], sock' = sock
    PROVE  /\ req' \in [Handlers -> Seq(Conns)]
           /\ \A g \in Handlers : Len(req'[g]) <= 2
           /\ RequestsUnmixed'
<1> DEFINE c == sock[h]
           q == req[h]
           r == Halves(h, n)
<1>1. c \in Conns /\ c # NoConn
  BY DEF Inv, TypeOK, ReadyRead
<1>2. q \in Seq(Conns) /\ Len(q) \in Nat /\ Len(q) <= 2 /\ \A i \in 1 .. Len(q) : q[i] = c
  <2>1. q \in Seq(Conns)
    BY DEF Inv, TypeOK
  <2>2. Len(q) <= 2
    BY DEF Inv, Apart
  <2>3. \A i \in DOMAIN q : q[i] = c
    BY <1>1 DEF Inv, RequestsUnmixed
  <2> HIDE DEF q
  <2> QED BY <2>1, <2>2, <2>3
<1>3. r \in Seq(Conns) /\ Len(r) = n /\ \A i \in 1 .. n : r[i] = c
  BY <1>1 DEF Halves
<1>4. n + Len(q) <= 2
  BY <1>2 DEF Wanted
<1> HIDE DEF c, q, r
<1>5. /\ q \o r \in Seq(Conns) /\ Len(q \o r) = Len(q) + n
      /\ \A i \in 1 .. Len(q) + n : (q \o r)[i] = IF i <= Len(q) THEN q[i] ELSE r[i - Len(q)]
  BY <1>2, <1>3, ConcatProperties
<1>6. \A i \in 1 .. Len(q) + n : (q \o r)[i] = c
  <2> SUFFICES ASSUME NEW i \in 1 .. Len(q) + n PROVE (q \o r)[i] = c
    OBVIOUS
  <2>1. CASE i <= Len(q)
    BY <1>2, <1>5, <2>1
  <2>2. CASE i > Len(q)
    <3>1. i - Len(q) \in 1 .. n
      BY <1>2, <2>2
    <3> QED BY <1>2, <1>3, <1>5, <2>2, <3>1
  <2>3. i <= Len(q) \/ i > Len(q)
    BY <1>2
  <2> QED BY <2>1, <2>2, <2>3, Zenon
<1>7. PICK s \in Seq(Conns) : s = q \o r /\ Len(s) <= 2 /\ \A i \in DOMAIN s : s[i] = c
  <2>1. Len(q \o r) <= 2 /\ DOMAIN (q \o r) = 1 .. Len(q) + n
    BY <1>2, <1>4, <1>5
  <2>2. \A i \in DOMAIN (q \o r) : (q \o r)[i] = c
    BY <1>6, <2>1
  <2> QED BY <1>5, <2>1, <2>2, Zenon
<1>8. req' = [req EXCEPT ![h] = s] /\ c = sock[h]
  BY <1>7 DEF q, r, c
<1>9. req' \in [Handlers -> Seq(Conns)]
  BY <1>8 DEF Inv, TypeOK
<1>10. ASSUME NEW g \in Handlers
       PROVE  /\ Len(req'[g]) <= 2
              /\ sock[g] # NoConn => \A i \in DOMAIN req'[g] : req'[g][i] = sock[g]
  <2>1. CASE g = h
    <3>1. req'[g] = s
      BY <1>8, <2>1 DEF Inv, TypeOK
    <3> QED BY <1>7, <1>8, <2>1, <3>1
  <2>2. CASE g # h
    <3>1. req'[g] = req[g]
      BY <1>8, <2>2 DEF Inv, TypeOK
    <3> QED BY <3>1 DEF Inv, Apart, RequestsUnmixed
  <2> QED BY <2>1, <2>2
<1> QED BY <1>9, <1>10 DEF RequestsUnmixed

(* Only the request, the timer, the phase and whether the socket closes    *)
(* change while a request is read and served: the part of the invariant    *)
(* that says whose a handler is holds as it did.                           *)
LEMMA SameOwner ==
    ASSUME Inv, UNCHANGED <<pool, gui, busy, calls, sock, lost>>,
           req' \in [Handlers -> Seq(Conns)], \A g \in Handlers : Len(req'[g]) <= 2
    PROVE  Apart' /\ OneConnection'
BY DEF Inv, Apart, OneConnection, InPool

(* read, while the request is not complete. *)
LEMMA ReadPartInv ==
    ASSUME Inv, NEW h \in Handlers, ReadPart(h)
    PROVE  Inv'
<1>1. Available(h) \in Nat /\ Available(h) <= Wanted(h)
  <2>1. sock[h] \in Conns /\ req[h] \in Seq(Conns)
    BY DEF Inv, TypeOK, ReadPart, ReadyRead
  <2>2. kernel[sock[h]] \in Nat /\ buf[sock[h]] \in Nat /\ Len(req[h]) \in Nat
    BY <2>1 DEF Inv, TypeOK
  <2> QED BY <2>2 DEF ReadPart, Available, Wanted
<1>2. /\ req' \in [Handlers -> Seq(Conns)]
      /\ \A g \in Handlers : Len(req'[g]) <= 2
      /\ RequestsUnmixed'
  BY <1>1, TakeHalves DEF ReadPart
<1>3. kernel' \in [Conns -> Nat] /\ buf' \in [Conns -> Nat]
  BY <1>1, ConsumeType DEF ReadPart
<1>4. timer' = timer \/ timer' = [timer EXCEPT ![h] = sock[h]]
  BY DEF ReadPart
<1>5. TypeOK'
  <2>1. timer' \in [Handlers -> Conns \cup {NoConn, Off}]
    <3>1. timer \in [Handlers -> Conns \cup {NoConn, Off}] /\ sock[h] \in Conns \cup {NoConn}
      BY DEF Inv, TypeOK
    <3> QED BY <1>4, <3>1
  <2> QED BY <1>2, <1>3, <2>1 DEF ReadPart, Inv, TypeOK
<1>6. Apart' /\ OneConnection'
  BY <1>2, SameOwner DEF ReadPart
<1>7. OpenIsTimed'
  BY <1>4 DEF ReadPart, Inv, TypeOK, OpenIsTimed
<1> QED BY <1>2, <1>5, <1>6, <1>7 DEF Inv

(* read completes the request, and the timer stops. *)
LEMMA ReadCompleteInv ==
    ASSUME Inv, NEW h \in Handlers, ReadComplete(h)
    PROVE  Inv'
<1>1. Wanted(h) \in Nat /\ Wanted(h) <= Available(h)
  <2>1. sock[h] \in Conns /\ req[h] \in Seq(Conns) /\ Len(req[h]) <= 2
    BY DEF Inv, TypeOK, Apart, ReadComplete, ReadyRead
  <2>2. kernel[sock[h]] \in Nat /\ buf[sock[h]] \in Nat /\ Len(req[h]) \in Nat
    BY <2>1 DEF Inv, TypeOK
  <2> QED BY <2>1, <2>2 DEF ReadComplete, Available, Wanted
<1>2. /\ req' \in [Handlers -> Seq(Conns)]
      /\ \A g \in Handlers : Len(req'[g]) <= 2
      /\ RequestsUnmixed'
  <2>1. Wanted(h) <= Wanted(h)
    BY <1>1
  <2> QED BY <1>1, <2>1, TakeHalves DEF ReadComplete
<1>3. kernel' \in [Conns -> Nat] /\ buf' \in [Conns -> Nat]
  BY <1>1, ConsumeType DEF ReadComplete
<1>4. TypeOK'
  BY <1>2, <1>3 DEF ReadComplete, Inv, TypeOK
<1>5. Apart' /\ OneConnection'
  BY <1>2, SameOwner DEF ReadComplete
<1>6. OpenIsTimed'
  BY DEF ReadComplete, Inv, TypeOK, OpenIsTimed
<1> QED BY <1>2, <1>4, <1>5, <1>6 DEF Inv

(* A request cut by the network is complete with less than was sent, or    *)
(* goes on without some of it: never with bytes of another connection.     *)
LEMMA ReadTornInv ==
    ASSUME Inv, NEW h \in Handlers, ReadTorn(h)
    PROVE  Inv'
<1>1. ReadyRead(h) /\ UNCHANGED <<pool, gui, busy, calls, sock, closing, conn, hungUp, lost>>
  BY DEF ReadTorn
<1>2. Wanted(h) \in Nat /\ Available(h) \in Nat
  <2>1. sock[h] \in Conns /\ req[h] \in Seq(Conns) /\ Len(req[h]) <= 2
    BY <1>1 DEF Inv, TypeOK, Apart, ReadyRead
  <2>2. kernel[sock[h]] \in Nat /\ buf[sock[h]] \in Nat /\ Len(req[h]) \in Nat
    BY <2>1 DEF Inv, TypeOK
  <2> QED BY <2>1, <2>2 DEF Available, Wanted
<1>3. \E k \in Nat : k <= Wanted(h) /\ req' = [req EXCEPT ![h] = @ \o Halves(h, k)]
  <2>1. ASSUME req' = [req EXCEPT ![h] = @ \o Halves(h, Wanted(h))]
        PROVE  \E k \in Nat : k <= Wanted(h) /\ req' = [req EXCEPT ![h] = @ \o Halves(h, k)]
    <3>1. Wanted(h) <= Wanted(h)
      BY <1>2
    <3> QED BY <1>2, <2>1, <3>1, Zenon
  <2>2. ASSUME NEW k \in 0 .. Wanted(h) - 1, req' = [req EXCEPT ![h] = @ \o Halves(h, k)]
        PROVE  \E j \in Nat : j <= Wanted(h) /\ req' = [req EXCEPT ![h] = @ \o Halves(h, j)]
    <3>1. k \in Nat /\ k <= Wanted(h)
      BY <1>2
    <3> QED BY <2>2, <3>1, Zenon
  <2> QED BY <2>1, <2>2, Zenon DEF ReadTorn
<1>4. /\ req' \in [Handlers -> Seq(Conns)]
      /\ \A g \in Handlers : Len(req'[g]) <= 2
      /\ RequestsUnmixed'
  BY <1>1, <1>3, TakeHalves
<1>5. \E n \in Nat : n <= Available(h) /\ Consume(h, n)
  <2>1. ASSUME NEW n \in 0 .. Available(h), Consume(h, n)
        PROVE  \E m \in Nat : m <= Available(h) /\ Consume(h, m)
    <3>1. n \in Nat /\ n <= Available(h)
      BY <1>2
    <3> QED BY <2>1, <3>1, Zenon
  <2>2. Available(h) \in 0 .. Available(h)
    BY <1>2
  <2> QED BY <2>1, <2>2, Zenon DEF ReadTorn
<1>6. kernel' \in [Conns -> Nat] /\ buf' \in [Conns -> Nat]
  BY <1>1, <1>5, ConsumeType
<1>7. \/ timer' = [timer EXCEPT ![h] = Off] /\ phase' = [phase EXCEPT ![h] = "service"]
      \/ timer' \in {timer, [timer EXCEPT ![h] = sock[h]]} /\ phase' = phase
  BY DEF ReadTorn
<1>8. TypeOK'
  <2>1. timer' \in [Handlers -> Conns \cup {NoConn, Off}]
    <3>1. timer \in [Handlers -> Conns \cup {NoConn, Off}] /\ sock[h] \in Conns \cup {NoConn}
      BY DEF Inv, TypeOK
    <3> QED BY <1>7, <3>1
  <2>2. phase' \in [Handlers -> {"idle", "service"}]
    BY <1>7 DEF Inv, TypeOK
  <2>3. outOfStep' \in [Conns -> BOOLEAN]
    BY DEF ReadTorn, Inv, TypeOK
  <2> QED BY <1>1, <1>4, <1>6, <2>1, <2>2, <2>3 DEF Inv, TypeOK
<1>9. Apart' /\ OneConnection'
  BY <1>1, <1>4, SameOwner
<1>10. ASSUME NEW g \in Handlers, sock[g] # NoConn
       PROVE  /\ phase'[g] = "idle" /\ ~closing[g] => timer'[g] = sock[g]
              /\ timer'[g] \in {sock[g], Off}
  <2>0. /\ phase[g] = "idle" /\ ~closing[g] => timer[g] = sock[g]
        /\ timer[g] \in {sock[g], Off}
    BY <1>10 DEF Inv, OpenIsTimed
  <2>1. CASE timer' = [timer EXCEPT ![h] = Off] /\ phase' = [phase EXCEPT ![h] = "service"]
    BY <2>0, <2>1 DEF Inv, TypeOK
  <2>2. CASE timer' \in {timer, [timer EXCEPT ![h] = sock[h]]} /\ phase' = phase
    BY <2>0, <2>2 DEF Inv, TypeOK
  <2> QED BY <1>7, <2>1, <2>2
<1>11. OpenIsTimed'
  BY <1>1, <1>10 DEF OpenIsTimed
<1> QED BY <1>4, <1>8, <1>9, <1>11 DEF Inv

(* read gives up, and the connection closes. *)
LEMMA ReadAbortInv ==
    ASSUME Inv, NEW h \in Handlers, ReadAbort(h)
    PROVE  Inv'
<1>1. PICK n \in 1 .. Available(h) : Consume(h, n)
  BY DEF ReadAbort
<1>2. n \in Nat /\ n <= Available(h)
  <2>1. sock[h] \in Conns
    BY DEF Inv, TypeOK, ReadAbort, ReadyRead
  <2>2. kernel[sock[h]] \in Nat /\ buf[sock[h]] \in Nat
    BY <2>1 DEF Inv, TypeOK
  <2>3. Available(h) \in Nat
    BY <2>2 DEF Available
  <2> QED BY <1>1, <2>3
<1>3. kernel' \in [Conns -> Nat] /\ buf' \in [Conns -> Nat]
  BY <1>1, <1>2, ConsumeType DEF ReadAbort
<1>4. req' \in [Handlers -> Seq(Conns)] /\ \A g \in Handlers : Len(req'[g]) <= 2
  BY DEF ReadAbort, Inv, TypeOK, Apart
<1>5. TypeOK'
  BY <1>3, <1>4 DEF ReadAbort, Inv, TypeOK
<1>6. Apart' /\ OneConnection'
  BY <1>4, SameOwner DEF ReadAbort
<1>7. RequestsUnmixed'
  BY DEF ReadAbort, Inv, TypeOK, RequestsUnmixed
<1>8. OpenIsTimed'
  BY DEF ReadAbort, Inv, TypeOK, OpenIsTimed
<1> QED BY <1>5, <1>6, <1>7, <1>8 DEF Inv

(* A write inside service fills the socket's buffer. *)
LEMMA ReadInServiceInv ==
    ASSUME Inv, NEW h \in Handlers, ReadInService(h)
    PROVE  Inv'
<1>1. 0 <= Available(h)
  <2>1. sock[h] \in Conns
    BY DEF Inv, TypeOK, ReadInService
  <2>2. kernel[sock[h]] \in Nat /\ buf[sock[h]] \in Nat
    BY <2>1 DEF Inv, TypeOK
  <2> QED BY <2>2 DEF Available
<1>2. kernel' \in [Conns -> Nat] /\ buf' \in [Conns -> Nat]
  BY <1>1, ConsumeType DEF ReadInService
<1>3. UNCHANGED <<pool, gui, busy, calls, sock, closing, timer, req, phase, lost>>
  BY DEF ReadInService, handlerVars
<1> QED BY <1>2, <1>3, QuietInv DEF ReadInService, Inv, TypeOK

(* The connection closes, or waits for a request with its timer on. *)
LEMMA EndServiceInv ==
    ASSUME Inv, NEW h \in Handlers, EndService(h)
    PROVE  Inv'
<1>1. req' \in [Handlers -> Seq(Conns)] /\ \A g \in Handlers : Len(req'[g]) <= 2
  BY DEF EndService, Inv, TypeOK, Apart
<1>2. TypeOK'
  <2>1. closing' \in [Handlers -> BOOLEAN]
    BY DEF EndService, Inv, TypeOK
  <2>2. timer' \in [Handlers -> Conns \cup {NoConn, Off}]
    BY DEF EndService, Inv, TypeOK
  <2>3. phase' \in [Handlers -> {"idle", "service"}]
    BY DEF EndService, Inv, TypeOK
  <2> QED BY <1>1, <2>1, <2>2, <2>3 DEF EndService, Inv, TypeOK, connVars
<1>3. Apart' /\ OneConnection'
  BY <1>1, SameOwner DEF EndService
<1>4. RequestsUnmixed'
  BY DEF EndService, Inv, TypeOK, RequestsUnmixed
<1>5. ASSUME NEW g \in Handlers, sock[g] # NoConn
      PROVE  /\ phase'[g] = "idle" /\ ~closing'[g] => timer'[g] = sock[g]
             /\ timer'[g] \in {sock[g], Off}
  <2>1. CASE g = h
    BY <1>5, <2>1 DEF EndService, Inv, TypeOK, OpenIsTimed
  <2>2. CASE g # h
    BY <1>5, <2>2 DEF EndService, Inv, TypeOK, OpenIsTimed
  <2> QED BY <2>1, <2>2
<1>6. OpenIsTimed'
  BY <1>5 DEF EndService, OpenIsTimed
<1> QED BY <1>2, <1>3, <1>4, <1>6 DEF Inv
-----------------------------------------------------------------------------
(* Every step keeps the invariant. *)
LEMMA NextInv == Inv /\ [Next]_vars => Inv'
<1> SUFFICES ASSUME Inv, [Next]_vars PROVE Inv'
  OBVIOUS
<1>1. CASE Cleanup
  BY <1>1, CleanupInv
<1>2. CASE Deleted
  BY <1>2, DeletedInv
<1>3. ASSUME NEW c \in Conns, IncomingConnection(c)
      PROVE  Inv'
  <2>1. CASE Reject(c)
    <3>1. UNCHANGED <<pool, gui, busy, calls, sock, closing, timer, req, phase, lost>>
      BY <2>1 DEF Reject, handlerVars
    <3> QED BY <2>1, <3>1, QuietInv DEF Reject, Inv, TypeOK
  <2>2. CASE \E h \in Handlers : Accept(c, h)
    BY <2>2, AcceptInv
  <2> QED BY <1>3, <2>1, <2>2 DEF IncomingConnection
<1>4. ASSUME NEW c \in Conns, RejectedGone(c) \/ SendHalf(c) \/ PeerClose(c)
      PROVE  Inv'
  <2>1. UNCHANGED <<pool, gui, busy, calls, sock, closing, timer, req, phase, lost>>
    BY <1>4 DEF RejectedGone, SendHalf, PeerClose, handlerVars
  <2>2. CASE RejectedGone(c)
    BY <2>1, <2>2, QuietInv DEF RejectedGone, Inv, TypeOK
  <2>3. CASE SendHalf(c)
    <3>1. kernel' \in [Conns -> Nat]
      BY <2>3 DEF SendHalf, Inv, TypeOK
    <3>2. outOfStep' \in [Conns -> BOOLEAN]
      BY <2>3 DEF SendHalf, Inv, TypeOK, Unanswered
    <3> QED BY <2>1, <2>3, <3>1, <3>2, QuietInv DEF SendHalf, Inv, TypeOK
  <2>4. CASE PeerClose(c)
    BY <2>1, <2>4, QuietInv DEF PeerClose, Inv, TypeOK
  <2> QED BY <1>4, <2>2, <2>3, <2>4
<1>5. ASSUME NEW h \in Handlers, Slot(h)
      PROVE  Inv'
  <2>1. CASE HandleConnection(h)
    BY <2>1, HandleConnectionInv
  <2>2. CASE CannotInitializeSocket(h)
    BY <2>2, CannotInitializeSocketInv
  <2>3. CASE ReadTimeout(h)
    BY <2>3, ReadTimeoutInv
  <2>4. CASE Disconnected(h) \/ DisconnectedInService(h)
    BY <2>4, DisconnectInv DEF Disconnected, DisconnectedInService
  <2>5. CASE ReadPart(h)
    BY <2>5, ReadPartInv
  <2>6. CASE ReadComplete(h)
    BY <2>6, ReadCompleteInv
  <2>7. CASE ReadAbort(h)
    BY <2>7, ReadAbortInv
  <2>8. CASE ReadInService(h)
    BY <2>8, ReadInServiceInv
  <2>9. CASE EndService(h)
    BY <2>9, EndServiceInv
  <2>10. CASE ReadTorn(h)
    BY <2>10, ReadTornInv
  <2> QED BY <1>5, <2>1, <2>2, <2>3, <2>4, <2>5, <2>6, <2>7, <2>8, <2>9, <2>10 DEF Slot
<1>6. CASE UNCHANGED vars
  BY <1>6, QuietInv DEF vars, handlerVars, connVars, Inv, TypeOK
<1> QED BY <1>1, <1>2, <1>3, <1>4, <1>5, <1>6 DEF Next

(* The inductive invariant holds of the whole server. *)
THEOREM Invariance == Spec => []Inv
BY InitInv, NextInv, PTL DEF Spec

(* The pool holds a handler once and never more than maxThreads of them,   *)
(* and every variable keeps its type, whatever the two threads and the     *)
(* peers do.                                                               *)
THEOREM TypeCorrect == Spec => []TypeOK
<1>1. Inv => TypeOK
  BY DEF Inv
<1> QED BY Invariance, <1>1, PTL

(* A handler has one connection at a time, and exactly while it is marked  *)
(* busy (or has lost its socket): what the pool gives away or deletes has  *)
(* none, also if the peer went while its request was served.               *)
THEOREM OneConnectionEach == Spec => []OneConnection
<1>1. Inv => OneConnection
  BY DEF Inv
<1> QED BY Invariance, <1>1, PTL

(* currentRequest never mixes the bytes of two connections. *)
THEOREM RequestsStayApart == Spec => []RequestsUnmixed
<1>1. Inv => RequestsUnmixed
  BY DEF Inv
<1> QED BY Invariance, <1>1, PTL

(* A handler that waits for its peer is always timed, by this connection's *)
(* own timer.                                                              *)
THEOREM WaitsAreTimed == Spec => []OpenIsTimed
<1>1. Inv => OpenIsTimed
  BY DEF Inv
<1> QED BY Invariance, <1>1, PTL
-----------------------------------------------------------------------------
(* Where the connections are *)

(* A connection that is queued or open is so at one handler. *)
Placed ==
    /\ \A h \in Handlers : sock[h] # NoConn => conn[sock[h]] = "open"
    /\ \A h \in Handlers : calls[h] # <<>> => conn[Head(calls[h])] = "queued"
    /\ \A g, h \in Handlers : sock[g] = sock[h] /\ sock[g] # NoConn => g = h
    /\ \A g, h \in Handlers :
          calls[g] # <<>> /\ calls[h] # <<>> /\ Head(calls[g]) = Head(calls[h]) => g = h

(* What has arrived on a connection on which nothing was sent ahead and no *)
(* line was cut: no more than the request that is being read, and nothing  *)
(* while one is served.  Nothing is left over from the descriptor's        *)
(* earlier use.                                                            *)
Counted ==
    /\ \A c \in Conns :
          conn[c] \in {"none", "rejected"} => kernel[c] = 0 /\ buf[c] = 0 /\ ~outOfStep[c]
    /\ \A c \in Conns :
          conn[c] = "queued" => buf[c] = 0 /\ (outOfStep[c] \/ kernel[c] <= 2)
    /\ \A h \in Handlers :
          sock[h] # NoConn /\ ~closing[h] /\ ~outOfStep[sock[h]] =>
              /\ buf[sock[h]] = 0
              /\ phase[h] = "idle" => Len(req[h]) + kernel[sock[h]] <= 2
              /\ phase[h] = "service" => kernel[sock[h]] = 0

(* No connection when the server starts. *)
LEMMA InitPlaced == Init => Placed /\ Counted
BY DEF Init, Placed, Counted

(* A new connection is queued at a handler that has none. *)
LEMMA AcceptPlaced ==
    ASSUME Inv, Placed, Counted, NEW c \in Conns, NEW h \in Handlers, Accept(c, h)
    PROVE  Placed' /\ Counted'
<1>1. ~busy[h]
  <2>1. CASE TakeIdle(h)
    BY <2>1 DEF TakeIdle
  <2>2. CASE CreateHandler(h)
    <3>1. h \notin InPool
      BY <2>2 DEF CreateHandler
    <3> QED BY <3>1 DEF Inv, OneConnection
  <2> QED BY <2>1, <2>2 DEF Accept, GetConnectionHandler
<1>2. calls[h] = <<>> /\ sock[h] = NoConn
  BY <1>1 DEF Inv, OneConnection
<1>3. /\ conn[c] = "none" /\ conn' = [conn EXCEPT ![c] = "queued"]
      /\ calls' = [calls EXCEPT ![h] = <<c>>]
      /\ UNCHANGED <<sock, closing, req, phase, kernel, buf, outOfStep>>
  BY <1>2 DEF Accept
<1>4. /\ calls'[h] = <<c>> /\ Head(<<c>>) = c
      /\ \A g \in Handlers \ {h} : calls'[g] = calls[g]
  BY <1>3 DEF Inv, TypeOK
<1>5. conn'[c] = "queued" /\ \A d \in Conns \ {c} : conn'[d] = conn[d]
  BY <1>3 DEF Inv, TypeOK
<1>6. /\ \A g \in Handlers : sock[g] # c
      /\ \A g \in Handlers : calls[g] # <<>> => Head(calls[g]) # c
      /\ \A g \in Handlers : sock[g] # NoConn => sock[g] \in Conns
      /\ \A g \in Handlers : calls[g] # <<>> => Head(calls[g]) \in Conns
  <2>1. \A g \in Handlers : calls[g] # <<>> => Head(calls[g]) \in Conns
    BY DEF Inv, TypeOK
  <2>2. sock \in [Handlers -> Conns \cup {NoConn}] /\ c # NoConn
    BY ConstantsAssumption DEF Inv, TypeOK
  <2> QED BY <1>3, <2>1, <2>2 DEF Placed
<1>7. Placed'
  BY <1>3, <1>4, <1>5, <1>6 DEF Placed
<1>8. kernel[c] = 0 /\ buf[c] = 0 /\ ~outOfStep[c]
  BY <1>3 DEF Counted
<1>9. Counted'
  BY <1>3, <1>5, <1>6, <1>8 DEF Counted
<1> QED BY <1>7, <1>9

(* 503 and its end, a peer that closes, the clean-up: no byte moves. *)
LEMMA QuietPlaced ==
    ASSUME Inv, Placed, Counted,
           UNCHANGED <<calls, sock, closing, req, phase, kernel, buf, outOfStep>>,
           \A c \in Conns : \/ conn'[c] = conn[c]
                            \/ {conn[c], conn'[c]} \subseteq {"none", "rejected"}
    PROVE  Placed' /\ Counted'
<1>1. \A c \in Conns : conn[c] \in {"open", "queued"} => conn'[c] = conn[c]
  OBVIOUS
<1>2. /\ \A g \in Handlers : sock[g] # NoConn => sock[g] \in Conns
      /\ \A g \in Handlers : calls[g] # <<>> => Head(calls[g]) \in Conns
  BY DEF Inv, TypeOK
<1>3. Placed'
  BY <1>1, <1>2 DEF Placed
<1>4. Counted'
  BY <1>1, <1>2 DEF Counted
<1> QED BY <1>3, <1>4

(* The handler the clean-up took was not in use. *)
LEMMA DeletedPlaced ==
    ASSUME Inv, Placed, Counted, Deleted
    PROVE  Placed' /\ Counted'
<1>1. PICK h \in Handlers : h = gui
  BY DEF Deleted, Inv, TypeOK
<1>2. calls[h] = <<>> /\ sock[h] = NoConn
  <2>1. h \notin InPool
    BY <1>1 DEF Deleted, Inv, Apart
  <2> QED BY <2>1 DEF Inv, OneConnection
<1>3. /\ calls' = calls /\ sock' = sock
      /\ \A g \in Handlers \ {h} : closing'[g] = closing[g] /\ req'[g] = req[g]
      /\ UNCHANGED <<phase, conn, kernel, buf, outOfStep>>
  BY <1>1, <1>2 DEF Deleted, connVars, Inv, TypeOK
<1>4. Placed'
  BY <1>3 DEF Placed
<1>5. Counted'
  BY <1>2, <1>3 DEF Counted
<1> QED BY <1>4, <1>5

(* The connection goes from the event queue to the socket. *)
LEMMA HandleConnectionPlaced ==
    ASSUME Inv, Placed, Counted, NEW h \in Handlers, HandleConnection(h)
    PROVE  Placed' /\ Counted'
<1>1. /\ calls[h] \in Seq(Conns) /\ calls[h] # <<>> /\ Len(calls[h]) <= 1
      /\ sock[h] = NoConn
  BY DEF HandleConnection, Inv, TypeOK, OneConnection
<1>2. Tail(calls[h]) = <<>> /\ Head(calls[h]) \in Conns
  BY <1>1
<1>3. PICK c \in Conns : c = Head(calls[h])
  BY <1>2
<1>4. /\ calls' = [calls EXCEPT ![h] = <<>>] /\ sock' = [sock EXCEPT ![h] = c]
      /\ req' = [req EXCEPT ![h] = <<>>] /\ closing' = [closing EXCEPT ![h] = FALSE]
      /\ conn' = [conn EXCEPT ![c] = "open"] /\ phase[h] = "idle"
      /\ UNCHANGED <<phase, kernel, buf, outOfStep>>
  BY <1>2, <1>3 DEF HandleConnection
<1>5. /\ calls'[h] = <<>> /\ sock'[h] = c /\ req'[h] = <<>> /\ ~closing'[h]
      /\ \A g \in Handlers \ {h} : /\ calls'[g] = calls[g] /\ sock'[g] = sock[g]
                                   /\ req'[g] = req[g] /\ closing'[g] = closing[g]
      /\ conn'[c] = "open" /\ \A d \in Conns \ {c} : conn'[d] = conn[d]
  BY <1>4 DEF Inv, TypeOK
<1>6. conn[c] = "queued"
  BY <1>1, <1>3 DEF Placed
<1>7. /\ \A g \in Handlers : sock[g] # c
      /\ \A g \in Handlers \ {h} : calls[g] # <<>> => Head(calls[g]) # c
      /\ \A g \in Handlers : sock[g] # NoConn => sock[g] \in Conns
      /\ \A g \in Handlers : calls[g] # <<>> => Head(calls[g]) \in Conns
  <2>1. \A g \in Handlers : calls[g] # <<>> => Head(calls[g]) \in Conns
    BY DEF Inv, TypeOK
  <2> QED BY <1>1, <1>3, <1>6, <2>1, ConstantsAssumption DEF Placed, Inv, TypeOK
<1>8. Placed'
  BY <1>5, <1>7 DEF Placed
<1>9. buf[c] = 0 /\ (outOfStep[c] \/ kernel[c] <= 2) /\ kernel[c] \in Nat
  BY <1>6 DEF Counted, Inv, TypeOK
<1>10. Counted'
  <2>1. \A d \in Conns :
          conn'[d] \in {"none", "rejected"} => kernel'[d] = 0 /\ buf'[d] = 0 /\ ~outOfStep'[d]
    BY <1>4, <1>5 DEF Counted
  <2>2. \A d \in Conns :
          conn'[d] = "queued" => buf'[d] = 0 /\ (outOfStep'[d] \/ kernel'[d] <= 2)
    BY <1>4, <1>5 DEF Counted
  <2>3. ASSUME NEW g \in Handlers,
               sock'[g] # NoConn /\ ~closing'[g] /\ ~outOfStep'[sock'[g]]
        PROVE  /\ buf'[sock'[g]] = 0
               /\ phase'[g] = "idle" => Len(req'[g]) + kernel'[sock'[g]] <= 2
               /\ phase'[g] = "service" => kernel'[sock'[g]] = 0
    <3>1. CASE g = h
      <4>1. Len(req'[h]) = 0 /\ 0 + kernel[c] = kernel[c]
        BY <1>5, <1>9
      <4> QED BY <1>4, <1>5, <1>9, <2>3, <3>1, <4>1
    <3>2. CASE g # h
      BY <1>4, <1>5, <2>3, <3>2 DEF Counted
    <3> QED BY <3>1, <3>2
  <2> QED BY <2>1, <2>2, <2>3 DEF Counted
<1> QED BY <1>8, <1>10

(* A connection ends, in the event queue or in the socket of its handler. *)
LEMMA EndPlaced ==
    ASSUME Inv, Placed, Counted, NEW h \in Handlers, NEW c \in Conns, End(c),
           \/ calls[h] # <<>> /\ Head(calls[h]) = c /\ sock[h] = NoConn
           \/ sock[h] = c /\ calls[h] = <<>>,
           calls'[h] = <<>>, sock'[h] = NoConn,
           \A g \in Handlers \ {h} : /\ calls'[g] = calls[g] /\ sock'[g] = sock[g]
                                     /\ closing'[g] = closing[g],
           UNCHANGED <<req, phase>>
    PROVE  Placed' /\ Counted'
<1>1. /\ conn'[c] = "none" /\ kernel'[c] = 0 /\ buf'[c] = 0 /\ ~outOfStep'[c]
      /\ \A d \in Conns \ {c} : /\ conn'[d] = conn[d] /\ kernel'[d] = kernel[d]
                                /\ buf'[d] = buf[d] /\ outOfStep'[d] = outOfStep[d]
  <2>1. conn'[c] = "none" /\ kernel'[c] = 0 /\ buf'[c] = 0 /\ ~outOfStep'[c]
    BY DEF End, Inv, TypeOK
  <2> QED BY <2>1 DEF End, Inv, TypeOK
<1>2. /\ \A g \in Handlers : sock[g] # NoConn => sock[g] \in Conns
      /\ \A g \in Handlers : calls[g] # <<>> => Head(calls[g]) \in Conns
      /\ c # NoConn
  <2>1. \A g \in Handlers : calls[g] # <<>> => Head(calls[g]) \in Conns
    BY DEF Inv, TypeOK
  <2> QED BY <2>1, ConstantsAssumption DEF Inv, TypeOK
<1>3. \A g \in Handlers \ {h} : sock[g] # c /\ (calls[g] # <<>> => Head(calls[g]) # c)
  BY <1>2 DEF Placed
<1>4. Placed'
  BY <1>1, <1>2, <1>3 DEF Placed
<1>5. Counted'
  BY <1>1, <1>2, <1>3 DEF Counted
<1> QED BY <1>4, <1>5

(* The slots that read, serve and time out move bytes of their own         *)
(* connection only.                                                        *)
LEMMA ReadPlaced ==
    ASSUME Inv, Placed, Counted, NEW h \in Handlers, NEW c \in Conns, sock[h] = c,
           UNCHANGED <<calls, sock, conn>>,
           \A d \in Conns \ {c} : outOfStep'[d] = outOfStep[d],
           \A g \in Handlers \ {h} : /\ closing'[g] = closing[g] /\ req'[g] = req[g]
                                     /\ phase'[g] = phase[g],
           \A d \in Conns \ {c} : kernel'[d] = kernel[d] /\ buf'[d] = buf[d],
           \/ closing'[h]
           \/ outOfStep'[c]
           \/ /\ buf'[c] = 0
              /\ phase'[h] = "idle" => Len(req'[h]) + kernel'[c] <= 2
              /\ phase'[h] = "service" => kernel'[c] = 0
    PROVE  Placed' /\ Counted'
<1>1. c # NoConn /\ \A g \in Handlers : sock[g] # NoConn => sock[g] \in Conns
  <2>1. sock \in [Handlers -> Conns \cup {NoConn}]
    BY DEF Inv, TypeOK
  <2> QED BY <2>1, ConstantsAssumption
<1>2. Placed'
  BY DEF Placed
<1>3. conn[c] = "open" /\ \A g \in Handlers \ {h} : sock[g] # c
  BY <1>1 DEF Placed
<1>4. ASSUME NEW g \in Handlers,
             sock'[g] # NoConn /\ ~closing'[g] /\ ~outOfStep'[sock'[g]]
      PROVE  /\ buf'[sock'[g]] = 0
             /\ phase'[g] = "idle" => Len(req'[g]) + kernel'[sock'[g]] <= 2
             /\ phase'[g] = "service" => kernel'[sock'[g]] = 0
  <2>1. CASE g = h
    BY <1>4, <2>1
  <2>2. CASE g # h
    BY <1>1, <1>3, <1>4, <2>2 DEF Counted
  <2> QED BY <2>1, <2>2
<1>5. \A d \in Conns :
        conn'[d] \in {"none", "rejected"} => kernel'[d] = 0 /\ buf'[d] = 0 /\ ~outOfStep'[d]
  BY <1>3 DEF Counted
<1>6. \A d \in Conns :
        conn'[d] = "queued" => buf'[d] = 0 /\ (outOfStep'[d] \/ kernel'[d] <= 2)
  BY <1>3 DEF Counted
<1> QED BY <1>2, <1>4, <1>5, <1>6 DEF Counted

(* Reading part of a request, the rest of it, or giving it up. *)
LEMMA ReadsPlaced ==
    ASSUME Inv, Placed, Counted, NEW h \in Handlers,
           ReadPart(h) \/ ReadComplete(h) \/ ReadAbort(h) \/ ReadInService(h)
    PROVE  Placed' /\ Counted'
<1>1. PICK c \in Conns : sock[h] = c
  BY DEF ReadPart, ReadComplete, ReadAbort, ReadInService, ReadyRead, Inv, TypeOK
<1>2. /\ UNCHANGED <<calls, sock, conn, outOfStep>>
      /\ \A g \in Handlers \ {h} : /\ closing'[g] = closing[g] /\ req'[g] = req[g]
                                   /\ phase'[g] = phase[g]
  BY DEF ReadPart, ReadComplete, ReadAbort, ReadInService, handlerVars, Inv, TypeOK
<1>3. PICK n : Consume(h, n)
  BY DEF ReadPart, ReadComplete, ReadAbort, ReadInService
<1>4. \A d \in Conns \ {c} : kernel'[d] = kernel[d] /\ buf'[d] = buf[d]
  BY <1>1, <1>3 DEF Consume, Inv, TypeOK
<1>5. c # NoConn /\ kernel[c] \in Nat /\ buf[c] \in Nat /\ Len(req[h]) \in Nat
  <2>1. c # NoConn
    BY ConstantsAssumption
  <2>2. kernel[c] \in Nat /\ buf[c] \in Nat
    BY DEF Inv, TypeOK
  <2>3. req[h] \in Seq(Conns)
    BY DEF Inv, TypeOK
  <2> QED BY <2>1, <2>2, <2>3
<1>6. ~closing[h] /\ ~outOfStep[c] =>
          /\ buf[c] = 0
          /\ phase[h] = "idle" => Len(req[h]) + kernel[c] <= 2
          /\ phase[h] = "service" => kernel[c] = 0
  BY <1>1, <1>5 DEF Counted
<1>7. CASE ReadPart(h) \/ ReadComplete(h)
  <2>0. PICK a \in Nat : a = kernel[c] + buf[c]
    BY <1>5
  <2>1. ~closing[h] /\ phase[h] = "idle"
    BY <1>7 DEF ReadPart, ReadComplete, ReadyRead
  <2>2. PICK k \in Nat : /\ Consume(h, k) /\ k <= a /\ k <= Wanted(h)
                         /\ req' = [req EXCEPT ![h] = @ \o Halves(h, k)]
                         /\ \/ k = a /\ phase' = phase
                            \/ k = Wanted(h) /\ phase'[h] = "service"
    <3>1. Available(h) = a
      BY <1>1, <2>0 DEF Available
    <3>2. Wanted(h) \in Nat
      <4>1. Len(req[h]) <= 2
        BY DEF Inv, Apart
      <4> QED BY <1>5, <4>1 DEF Wanted
    <3>3. CASE ReadPart(h)
      <4>1. /\ Consume(h, a) /\ a < Wanted(h) /\ phase' = phase
            /\ req' = [req EXCEPT ![h] = @ \o Halves(h, a)]
        BY <3>1, <3>3 DEF ReadPart
      <4>2. a <= a /\ a <= Wanted(h)
        BY <3>2, <4>1
      <4> QED BY <4>1, <4>2, Zenon
    <3>4. CASE ReadComplete(h)
      <4>1. phase'[h] = "service"
        BY <3>4 DEF ReadComplete, Inv, TypeOK
      <4>2. /\ Consume(h, Wanted(h)) /\ a >= Wanted(h)
            /\ req' = [req EXCEPT ![h] = @ \o Halves(h, Wanted(h))]
        BY <3>1, <3>4 DEF ReadComplete
      <4>3. Wanted(h) <= a /\ Wanted(h) <= Wanted(h)
        BY <3>2, <4>2
      <4> QED BY <3>2, <4>1, <4>2, <4>3, Zenon
    <3> QED BY <1>7, <3>3, <3>4
  <2>3. buf'[c] = a - k /\ kernel'[c] = 0
    BY <1>1, <2>0, <2>2 DEF Consume, Available, Inv, TypeOK
  <2>4. Len(req'[h]) = Len(req[h]) + k
    <3>1. PICK r : r = Halves(h, k)
      OBVIOUS
    <3>2. r \in Seq(Conns) /\ Len(r) = k
      BY <1>1, <3>1 DEF Halves
    <3>3. req[h] \in Seq(Conns) /\ req'[h] = req[h] \o r
      BY <2>2, <3>1 DEF Inv, TypeOK
    <3> QED BY <3>2, <3>3, ConcatProperties
  <2>5. outOfStep[c] \/ a <= Wanted(h)
    BY <1>5, <1>6, <2>0, <2>1 DEF Wanted
  <2>6. outOfStep[c] \/ k = a
    BY <1>5, <2>2, <2>5 DEF Wanted
  <2>7. Len(req'[h]) + kernel'[c] <= 2
    BY <1>5, <2>2, <2>3, <2>4 DEF Wanted
  <2>8. outOfStep[c] \/ buf'[c] = 0
    BY <1>5, <2>3, <2>6
  <2> QED BY <1>1, <1>2, <1>4, <2>3, <2>7, <2>8, ReadPlaced
<1>8. CASE ReadAbort(h)
  <2>1. closing'[h]
    BY <1>8 DEF ReadAbort, Inv, TypeOK
  <2> QED BY <1>1, <1>2, <1>4, <2>1, ReadPlaced
<1>9. CASE ReadInService(h)
  <2>1. phase[h] = "service" /\ kernel[c] > 0 /\ UNCHANGED closing
    BY <1>1, <1>9 DEF ReadInService, handlerVars
  <2>2. closing'[h] \/ outOfStep[c]
    BY <1>6, <2>1
  <2> QED BY <1>1, <1>2, <1>4, <2>2, ReadPlaced
<1> QED BY <1>7, <1>8, <1>9

(* What a cut line leaves unread is no longer counted. *)
LEMMA ReadTornPlaced ==
    ASSUME Inv, Placed, Counted, NEW h \in Handlers, ReadTorn(h)
    PROVE  Placed' /\ Counted'
<1>1. PICK c \in Conns : sock[h] = c
  BY DEF ReadTorn, ReadyRead, Inv, TypeOK
<1>2. /\ UNCHANGED <<calls, sock, conn, closing>>
      /\ outOfStep'[c] /\ \A d \in Conns \ {c} : outOfStep'[d] = outOfStep[d]
  BY <1>1 DEF ReadTorn, Inv, TypeOK
<1>3. \A g \in Handlers \ {h} : req'[g] = req[g] /\ phase'[g] = phase[g]
  BY DEF ReadTorn, Inv, TypeOK
<1>4. \E n : Consume(h, n)
  BY DEF ReadTorn
<1>5. \A d \in Conns \ {c} : kernel'[d] = kernel[d] /\ buf'[d] = buf[d]
  BY <1>1, <1>4 DEF Consume, Inv, TypeOK
<1> QED BY <1>1, <1>2, <1>3, <1>5, ReadPlaced

(* The end of a request, and a timeout, start over with an empty one. *)
LEMMA StartOverPlaced ==
    ASSUME Inv, Placed, Counted, NEW h \in Handlers, EndService(h) \/ ReadTimeout(h)
    PROVE  Placed' /\ Counted'
<1>1. /\ UNCHANGED <<calls, sock, conn, kernel, buf, outOfStep>>
      /\ req'[h] = <<>> /\ phase'[h] = "idle"
      /\ \A g \in Handlers \ {h} : /\ closing'[g] = closing[g] /\ req'[g] = req[g]
                                   /\ phase'[g] = phase[g]
  BY DEF EndService, ReadTimeout, connVars, Inv, TypeOK
<1>2. CASE sock[h] = NoConn
  <2>1. Placed'
    BY <1>1 DEF Placed
  <2>2. Counted'
    BY <1>1, <1>2 DEF Counted
  <2> QED BY <2>1, <2>2
<1>3. CASE sock[h] # NoConn
  <2>1. PICK c \in Conns : sock[h] = c
    BY <1>3 DEF Inv, TypeOK
  <2>2. closing'[h] \/ (phase[h] = "service" /\ closing' = closing)
    BY <1>3 DEF EndService, ReadTimeout, Inv, TypeOK
  <2>3. \/ closing'[h] \/ outOfStep[c]
        \/ buf[c] = 0 /\ kernel[c] = 0
    BY <1>3, <2>1, <2>2 DEF Counted
  <2>4. Len(<<>>) + 0 <= 2
    OBVIOUS
  <2>5. \/ closing'[h] \/ outOfStep[c]
        \/ /\ buf'[c] = 0
           /\ phase'[h] = "idle" => Len(req'[h]) + kernel'[c] <= 2
           /\ phase'[h] = "service" => kernel'[c] = 0
    BY <1>1, <2>3, <2>4
  <2> QED BY <1>1, <2>1, <2>5, ReadPlaced
<1> QED BY <1>2, <1>3

(* The two ways a connection ends at its handler. *)
LEMMA EndsPlaced ==
    ASSUME Inv, Placed, Counted, NEW h \in Handlers,
           CannotInitializeSocket(h) \/ (sock[h] # NoConn /\ Disconnect(h))
    PROVE  Placed' /\ Counted'
<1>0. calls[h] \in Seq(Conns)
  BY DEF Inv, TypeOK
<1>1. CASE CannotInitializeSocket(h)
  <2>1. calls[h] # <<>> /\ Len(calls[h]) <= 1 /\ sock[h] = NoConn
    BY <1>1 DEF CannotInitializeSocket, Inv, OneConnection
  <2>2. Tail(calls[h]) = <<>> /\ Head(calls[h]) \in Conns
    BY <1>0, <2>1
  <2>3. /\ End(Head(calls[h])) /\ calls' = [calls EXCEPT ![h] = <<>>]
        /\ UNCHANGED <<sock, closing, req, phase>>
    BY <1>1, <2>2 DEF CannotInitializeSocket
  <2>4. calls'[h] = <<>> /\ \A g \in Handlers \ {h} : calls'[g] = calls[g]
    BY <2>3 DEF Inv, TypeOK
  <2>5. PICK c \in Conns : c = Head(calls[h])
    BY <2>2
  <2>6. End(c)
    BY <2>3, <2>5
  <2> QED BY <2>1, <2>3, <2>4, <2>5, <2>6, EndPlaced
<1>2. CASE sock[h] # NoConn /\ Disconnect(h)
  <2>1. PICK c \in Conns : c = sock[h]
    BY <1>2 DEF Inv, TypeOK
  <2>2. calls[h] = <<>>
    BY <1>2 DEF Inv, OneConnection
  <2>3. End(c) /\ UNCHANGED <<calls, req, phase>>
    BY <1>2, <2>1 DEF Disconnect
  <2>4. /\ sock'[h] = NoConn
        /\ \A g \in Handlers \ {h} : sock'[g] = sock[g] /\ closing'[g] = closing[g]
    BY <1>2 DEF Disconnect, Inv, TypeOK
  <2> QED BY <2>1, <2>2, <2>3, <2>4, EndPlaced
<1> QED BY <1>1, <1>2

(* A peer that waits for its answers sends at most one request at a time. *)
LEMMA SendHalfPlaced ==
    ASSUME Inv, Placed, Counted, NEW c \in Conns, SendHalf(c)
    PROVE  Placed' /\ Counted'
<1>1. /\ UNCHANGED <<calls, sock, closing, req, phase, conn, buf>>
      /\ conn[c] \in {"queued", "open"}
      /\ kernel' = [kernel EXCEPT ![c] = @ + 1]
      /\ outOfStep' = [outOfStep EXCEPT ![c] = @ \/ Unanswered(c)]
  BY DEF SendHalf, handlerVars, InProgress
<1>2. /\ kernel'[c] = kernel[c] + 1 /\ kernel[c] \in Nat /\ buf[c] \in Nat
      /\ \A d \in Conns \ {c} : kernel'[d] = kernel[d] /\ outOfStep'[d] = outOfStep[d]
      /\ outOfStep'[c] = (outOfStep[c] \/ Unanswered(c))
  BY <1>1 DEF Inv, TypeOK
<1>3. Placed'
  BY <1>1 DEF Placed
<1>4. outOfStep'[c] \/ (~outOfStep[c] /\ kernel[c] + buf[c] <= 1)
  <2>1. outOfStep'[c] \/ (~outOfStep[c] /\ ~Unanswered(c))
    BY <1>2
  <2>2. Unanswered(c) \/ ~(kernel[c] + buf[c] >= 2)
    BY DEF Unanswered
  <2>3. ~(kernel[c] + buf[c] >= 2) => kernel[c] + buf[c] <= 1
    BY <1>2
  <2> QED BY <2>1, <2>2, <2>3
<1>5. ASSUME NEW g \in Handlers,
             sock'[g] # NoConn /\ ~closing'[g] /\ ~outOfStep'[sock'[g]]
      PROVE  /\ buf'[sock'[g]] = 0
             /\ phase'[g] = "idle" => Len(req'[g]) + kernel'[sock'[g]] <= 2
             /\ phase'[g] = "service" => kernel'[sock'[g]] = 0
  <2>1. CASE sock[g] = c
    <3>1. ~outOfStep[c] /\ ~Unanswered(c)
      BY <1>1, <1>2, <1>5, <2>1
    <3>2. phase[g] # "service" /\ ~(Len(req[g]) + kernel[c] + buf[c] >= 2)
      BY <2>1, <3>1 DEF Unanswered
    <3>3. buf[c] = 0
      BY <1>1, <1>5, <2>1, <3>1 DEF Counted
    <3>4. Len(req[g]) \in Nat
      <4>1. req[g] \in Seq(Conns)
        BY DEF Inv, TypeOK
      <4> QED BY <4>1
    <3>5. Len(req[g]) + (kernel[c] + 1) <= 2
      BY <1>2, <3>2, <3>3, <3>4
    <3> QED BY <1>1, <1>2, <2>1, <3>2, <3>3, <3>5
  <2>2. CASE sock[g] # c
    <3>1. sock[g] \in Conns \ {c}
      BY <1>1, <1>5, <2>2 DEF Inv, TypeOK
    <3> QED BY <1>1, <1>2, <1>5, <3>1 DEF Counted
  <2> QED BY <2>1, <2>2
<1>6. \A d \in Conns :
        conn'[d] \in {"none", "rejected"} => kernel'[d] = 0 /\ buf'[d] = 0 /\ ~outOfStep'[d]
  BY <1>1, <1>2 DEF Counted
<1>7. \A d \in Conns :
        conn'[d] = "queued" => buf'[d] = 0 /\ (outOfStep'[d] \/ kernel'[d] <= 2)
  <2>1. outOfStep'[c] \/ kernel'[c] <= 2
    BY <1>2, <1>4
  <2> QED BY <1>1, <1>2, <2>1 DEF Counted
<1> QED BY <1>3, <1>5, <1>6, <1>7 DEF Counted

(* Every step keeps track of the connections. *)
LEMMA NextPlaced == Inv /\ Placed /\ Counted /\ [Next]_vars => Placed' /\ Counted'
<1> SUFFICES ASSUME Inv, Placed, Counted, [Next]_vars PROVE Placed' /\ Counted'
  OBVIOUS
<1>1. CASE Cleanup
  <2>1. UNCHANGED <<calls, sock, closing, req, phase, kernel, buf, outOfStep, conn>>
    BY <1>1 DEF Cleanup, handlerVars, connVars
  <2> QED BY <2>1, QuietPlaced
<1>2. CASE Deleted
  BY <1>2, DeletedPlaced
<1>3. ASSUME NEW c \in Conns, Reject(c) \/ RejectedGone(c) \/ PeerClose(c)
      PROVE  Placed' /\ Counted'
  <2>1. UNCHANGED <<calls, sock, closing, req, phase, kernel, buf, outOfStep>>
    BY <1>3 DEF Reject, RejectedGone, PeerClose, handlerVars
  <2>2. \A d \in Conns : \/ conn'[d] = conn[d]
                         \/ {conn[d], conn'[d]} \subseteq {"none", "rejected"}
    BY <1>3 DEF Reject, RejectedGone, PeerClose, Inv, TypeOK
  <2> QED BY <2>1, <2>2, QuietPlaced
<1>4. ASSUME NEW c \in Conns, NEW h \in Handlers, Accept(c, h) PROVE Placed' /\ Counted'
  BY <1>4, AcceptPlaced
<1>5. ASSUME NEW c \in Conns, SendHalf(c) PROVE Placed' /\ Counted'
  BY <1>5, SendHalfPlaced
<1>6. ASSUME NEW h \in Handlers, Slot(h) PROVE Placed' /\ Counted'
  <2>1. CASE HandleConnection(h)
    BY <2>1, HandleConnectionPlaced
  <2>2. CASE CannotInitializeSocket(h) \/ Disconnected(h) \/ DisconnectedInService(h)
    BY <2>2, EndsPlaced DEF Disconnected, DisconnectedInService
  <2>3. CASE ReadTimeout(h) \/ EndService(h)
    BY <2>3, StartOverPlaced
  <2>4. CASE ReadPart(h) \/ ReadComplete(h) \/ ReadAbort(h) \/ ReadInService(h)
    BY <2>4, ReadsPlaced
  <2>5. CASE ReadTorn(h)
    BY <2>5, ReadTornPlaced
  <2> QED BY <1>6, <2>1, <2>2, <2>3, <2>4, <2>5 DEF Slot
<1>7. CASE UNCHANGED vars
  <2>1. UNCHANGED <<calls, sock, closing, req, phase, kernel, buf, outOfStep, conn>>
    BY <1>7 DEF vars, handlerVars, connVars
  <2> QED BY <2>1, QuietPlaced
<1> QED BY <1>1, <1>2, <1>3, <1>4, <1>5, <1>6, <1>7 DEF Next, IncomingConnection

(* The connections stay where they are said to be. *)
LEMMA PlacedInvariance == Spec => [](Inv /\ Placed /\ Counted)
<1>1. Init => Inv /\ Placed /\ Counted
  BY InitInv, InitPlaced
<1>2. Inv /\ Placed /\ Counted /\ [Next]_vars => (Inv /\ Placed /\ Counted)'
  BY NextInv, NextPlaced
<1> QED BY <1>1, <1>2, PTL DEF Spec

(* Bytes wait in the socket's buffer without a readyRead signal only if    *)
(* the peer sent a request before the one before it was answered or the    *)
(* network cut one of its lines: read stops short of nothing else.         *)
THEOREM ReadsEverything == Spec => []NothingLeftUnread
<1>1. Counted => NothingLeftUnread
  BY DEF Counted, NothingLeftUnread
<1> QED BY PlacedInvariance, <1>1, PTL

(* With every handler of a full pool busy, each is lost or has a           *)
(* connection that is in progress, and no two have the same.               *)
LEMMA FullPool ==
    ASSUME Inv, Placed, \A g \in InPool : busy[g], Len(pool) >= MaxThreads
    PROVE  Cardinality(InProgress) + Cardinality(lost) >= MaxThreads
<1> DEFINE D == 1 .. Len(pool)
           L == {i \in D : pool[i] \in lost}
           f == [i \in L |-> pool[i]]
           at(h) == IF sock[h] # NoConn THEN sock[h] ELSE Head(calls[h])
           s == [i \in D \ L |-> at(pool[i])]
<1>1. /\ pool \in Seq(Handlers) /\ Len(pool) \in Nat
      /\ \A i \in D : pool[i] \in Handlers /\ busy[pool[i]]
      /\ \A i, j \in D : pool[i] = pool[j] => i = j
  <2>1. pool \in Seq(Handlers) /\ \A i, j \in DOMAIN pool : pool[i] = pool[j] => i = j
    BY DEF Inv, TypeOK
  <2>2. DOMAIN pool = D /\ Len(pool) \in Nat /\ \A i \in D : pool[i] \in Handlers
    BY <2>1
  <2>3. \A i \in D : pool[i] \in InPool
    BY <2>2 DEF InPool, Range
  <2> QED BY <2>1, <2>2, <2>3
<1>2. IsFiniteSet(lost) /\ IsFiniteSet(InProgress)
  <2>1. lost \in SUBSET Handlers /\ InProgress \in SUBSET Conns
    BY DEF Inv, TypeOK, InProgress
  <2> QED BY <2>1, FS_Subset, ConstantsAssumption
<1>3. f \in Injection(L, lost)
  BY <1>1 DEF Injection, IsInjective
<1>4. ASSUME NEW h \in Handlers, busy[h], h \notin lost
      PROVE  /\ at(h) \in InProgress
             /\ conn[at(h)] = IF sock[h] # NoConn THEN "open" ELSE "queued"
  <2>1. CASE sock[h] # NoConn
    <3>1. sock[h] \in Conns
      BY <2>1 DEF Inv, TypeOK
    <3> QED BY <2>1, <3>1 DEF Placed, InProgress
  <2>2. CASE sock[h] = NoConn
    <3>1. calls[h] # <<>>
      BY <1>4, <2>2 DEF Inv, OneConnection
    <3>2. calls[h] \in Seq(Conns)
      BY DEF Inv, TypeOK
    <3>3. Head(calls[h]) \in Conns
      BY <3>1, <3>2
    <3> QED BY <2>2, <3>1, <3>3 DEF Placed, InProgress
  <2> QED BY <2>1, <2>2
<1>5. ASSUME NEW g \in Handlers, busy[g], g \notin lost,
             NEW h \in Handlers, busy[h], h \notin lost, at(g) = at(h)
      PROVE  g = h
  <2>1. sock[g] # NoConn <=> sock[h] # NoConn
    BY <1>4, <1>5
  <2>2. CASE sock[g] # NoConn
    BY <1>5, <2>1, <2>2 DEF Placed
  <2>3. CASE sock[g] = NoConn
    <3>1. calls[g] # <<>> /\ calls[h] # <<>>
      BY <1>5, <2>1, <2>3 DEF Inv, OneConnection
    <3> QED BY <1>5, <2>1, <2>3, <3>1 DEF Placed
  <2> QED BY <2>2, <2>3
<1> HIDE DEF at
<1>6. s \in Injection(D \ L, InProgress)
  <2>1. \A i \in D \ L : pool[i] \in Handlers /\ busy[pool[i]] /\ pool[i] \notin lost
    BY <1>1
  <2>2. s \in [D \ L -> InProgress]
    BY <1>4, <2>1
  <2>3. \A i, j \in D \ L : s[i] = s[j] => i = j
    BY <1>1, <1>5, <2>1
  <2> QED BY <2>2, <2>3 DEF Injection, IsInjective
<1>7. /\ Cardinality(L) <= Cardinality(lost)
      /\ Cardinality(D \ L) <= Cardinality(InProgress)
  <2> HIDE DEF f, s, L, D
  <2> QED BY <1>2, <1>3, <1>6, FS_Injection
<1>8. IsFiniteSet(D) /\ Cardinality(D) = Len(pool)
  <2>1. 1 \in Int /\ Len(pool) \in Int
    BY <1>1
  <2>2. IsFiniteSet(D) /\ Cardinality(D) = IF 1 > Len(pool) THEN 0 ELSE Len(pool) - 1 + 1
    BY <2>1, FS_Interval
  <2> QED BY <1>1, <2>2
<1>9. D \cap L = L
  OBVIOUS
<1>10. Cardinality(D \ L) = Cardinality(D) - Cardinality(L)
  <2> HIDE DEF D, L
  <2>1. Cardinality(D \ L) = Cardinality(D) - Cardinality(D \cap L)
    BY <1>8, FS_Difference
  <2> QED BY <1>9, <2>1
<1>11. /\ Cardinality(L) \in Nat /\ Cardinality(D \ L) \in Nat /\ Cardinality(lost) \in Nat
       /\ Cardinality(InProgress) \in Nat
  <2>1. L \in SUBSET D /\ D \ L \in SUBSET D
    OBVIOUS
  <2> HIDE DEF D, L
  <2>2. IsFiniteSet(L) /\ IsFiniteSet(D \ L)
    BY <1>8, <2>1, FS_Subset
  <2> QED BY <1>2, <2>2, FS_CardinalityType
<1>12. MaxThreads \in Int
  BY ConstantsAssumption
<1> HIDE DEF D, L
<1> QED BY <1>1, <1>7, <1>8, <1>10, <1>11, <1>12

(* "503 too many connections" is true: when a connection is rejected, as   *)
(* many as the pool may have handlers are in progress, but for those whose *)
(* handler could not set up its socket.                                    *)
THEOREM RejectionIsJust == Spec => RejectsOnlyWhenFull
<1>1. ASSUME Inv, Placed, [Next]_vars, NEW c \in Conns,
             conn[c] # "rejected" /\ conn'[c] = "rejected"
      PROVE  Cardinality(InProgress) + Cardinality(lost) >= MaxThreads
  <2>1. conn \in [Conns -> {"none", "queued", "open", "rejected"}]
    BY <1>1 DEF Inv, TypeOK
  <2>2. \E d \in Conns : Reject(d)
    <3>1. CASE Cleanup \/ Deleted \/ UNCHANGED vars
      BY <1>1, <3>1 DEF Cleanup, Deleted, vars, connVars
    <3>2. ASSUME NEW d \in Conns, NEW h \in Handlers, Accept(d, h) PROVE FALSE
      BY <1>1, <2>1, <3>2 DEF Accept
    <3>3. ASSUME NEW d \in Conns, RejectedGone(d) \/ SendHalf(d) \/ PeerClose(d) PROVE FALSE
      BY <1>1, <2>1, <3>3 DEF RejectedGone, SendHalf, PeerClose
    <3>4. ASSUME NEW h \in Handlers, Slot(h) PROVE FALSE
      <4>1. CASE HandleConnection(h)
        BY <1>1, <2>1, <4>1 DEF HandleConnection
      <4>2. ASSUME NEW x, End(x) PROVE FALSE
        BY <1>1, <2>1, <4>2 DEF End
      <4>3. CASE CannotInitializeSocket(h) \/ Disconnected(h) \/ DisconnectedInService(h)
        BY <4>2, <4>3 DEF CannotInitializeSocket, Disconnected, DisconnectedInService,
           Disconnect
      <4>4. CASE \/ ReadTimeout(h) \/ EndService(h) \/ ReadPart(h) \/ ReadComplete(h)
                 \/ ReadAbort(h) \/ ReadInService(h)
        BY <1>1, <4>4 DEF ReadTimeout, EndService, ReadPart, ReadComplete, ReadAbort,
           ReadInService, connVars
      <4>5. CASE ReadTorn(h)
        <5>1. conn' = conn
          BY <4>5 DEF ReadTorn
        <5> QED BY <1>1, <5>1
      <4> QED BY <3>4, <4>1, <4>3, <4>4, <4>5 DEF Slot
    <3> QED BY <1>1, <3>1, <3>2, <3>3, <3>4 DEF Next, IncomingConnection
  <2> QED BY <1>1, <2>2, FullPool DEF Reject
<1>2. Inv /\ Placed /\ [Next]_vars =>
        [\A c \in Conns :
            conn[c] # "rejected" /\ conn'[c] = "rejected" =>
                Cardinality(InProgress) + Cardinality(lost) >= MaxThreads]_vars
  BY <1>1
<1> QED BY PlacedInvariance, <1>2, PTL DEF Spec, RejectsOnlyWhenFull
=============================================================================
