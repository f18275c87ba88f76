----------------------------- MODULE HttpServer -----------------------------
(***************************************************************************)
(* The HTTP server under the web control and the tracker: HttpListener,    *)
(* HttpConnectionHandlerPool and HttpConnectionHandler.  The listener, the *)
(* pool and its clean-up timer run in the GUI thread; each handler is a    *)
(* thread with an event loop, which serves one connection at a time.  A    *)
(* connection reaches its handler as a queued call; the only other state   *)
(* the threads share is a handler's busy flag.                             *)
(*                                                                         *)
(* A request is two halves, so a read may find part of one, one, or one    *)
(* and the start of the next.  The code reads it line by line and takes    *)
(* what has arrived of a line for the line: where the network cuts a line  *)
(* the request may end early, or bytes of it may be lost (ReadTorn).       *)
(***************************************************************************)
EXTENDS Integers, FiniteSets, SequencesExt

CONSTANTS
    Handlers,   (* HttpConnectionHandler objects (addresses are reused)    *)
    Conns,      (* connections, by descriptor (which are reused)           *)
    Stalled,    (* those whose peer stops reading what is written to it    *)
    MaxThreads,
    MinThreads,
    MaxHalves,  (* bound: half-requests waiting on a connection            *)
    NoConn, Off, Free

ASSUME ConstantsAssumption ==
    /\ IsFiniteSet(Handlers) /\ IsFiniteSet(Conns)
    /\ MaxThreads \in 1 .. Cardinality(Handlers)
    /\ MinThreads \in Nat /\ MaxHalves \in Nat
    /\ Stalled \subseteq Conns
    /\ NoConn \notin Conns /\ Off \notin Conns \cup {NoConn}
    /\ Free \notin Handlers

VARIABLES
    pool,      (* HttpConnectionHandlerPool::pool                          *)
    gui,       (* the handler the GUI thread waits for in its destructor   *)
    busy,      (* HttpConnectionHandler::busy                              *)
    calls,     (* handleConnection calls in the handler's event queue      *)
    sock,      (* the connection of the handler's socket                   *)
    closing,   (* disconnectFromHost was called, the output is not out yet *)
    timer,     (* readTimer: Off, or the connection it was started on      *)
    req,       (* currentRequest: the connections its halves came from     *)
    phase,     (* "service" while the thread is in requestHandler->service *)
    conn,      (* "none", or where the connection is                        *)
    kernel,    (* halves that arrived and the QTcpSocket has not read      *)
    buf,       (* halves in the QTcpSocket's buffer                        *)
    hungUp,    (* the peer has closed                                      *)
    outOfStep, (* history: it sent before its last request was answered,   *)
               (* or a line of it was cut and misread                      *)
    lost       (* handlers whose socket could not be set up                *)

handlerVars == <<busy, calls, sock, closing, timer, req, phase>>
connVars    == <<conn, kernel, buf, hungUp, outOfStep>>

vars == <<pool, gui, handlerVars, connVars, lost>>
-----------------------------------------------------------------------------
InPool     == Range(pool)
InProgress == {c \in Conns : conn[c] \in {"queued", "open"}}

(* The peer has sent a whole request that is not answered yet. *)
Unanswered(c) ==
    \/ kernel[c] + buf[c] >= 2
    \/ \E h \in Handlers :
          /\ sock[h] = c
          /\ phase[h] = "service" \/ Len(req[h]) + kernel[c] + buf[c] >= 2
-----------------------------------------------------------------------------
(* HttpListener, in the GUI thread. *)

SetBusy(h) == busy' = [busy EXCEPT ![h] = TRUE]

(* A plausible slip: the handler marks itself busy, in handleConnection. *)
TakeIdleLate(h) ==
    /\ \E i \in DOMAIN pool :
          h = pool[i] /\ ~busy[h] /\ \A j \in 1 .. i - 1 : busy[pool[j]]
    /\ UNCHANGED <<pool, busy>>

(* The first handler of the pool that is not busy. *)
TakeIdle(h) ==
    /\ \E i \in DOMAIN pool :
          h = pool[i] /\ ~busy[h] /\ \A j \in 1 .. i - 1 : busy[pool[j]]
    /\ SetBusy(h)
    /\ UNCHANGED pool

(* A plausible slip: one handler too many. *)
CreateHandlerLate(h) ==
    /\ \A g \in InPool : busy[g]
    /\ Len(pool) <= MaxThreads
    /\ h \in Handlers \ InPool
    /\ SetBusy(h)
    /\ pool' = Append(pool, h)

(* A new handler, if there is room for one (which object is all the same). *)
CreateHandler(h) ==
    /\ \A g \in InPool : busy[g]
    /\ Len(pool) < MaxThreads
    /\ h \in Handlers \ InPool
    /\ h = CHOOSE g \in Handlers \ InPool : TRUE
    /\ SetBusy(h)
    /\ pool' = Append(pool, h)

GetConnectionHandler(h) == TakeIdle(h) \/ CreateHandler(h)

Accept(c, h) ==
    /\ gui = Free /\ conn[c] = "none"
    /\ GetConnectionHandler(h)
    /\ calls' = [calls EXCEPT ![h] = Append(@, c)]
    /\ conn' = [conn EXCEPT ![c] = "queued"]
    /\ UNCHANGED <<gui, sock, closing, timer, req, phase>>
    /\ UNCHANGED <<kernel, buf, hungUp, outOfStep, lost>>

(* 503 too many connections. *)
Reject(c) ==
    /\ gui = Free /\ conn[c] = "none"
    /\ \A g \in InPool : busy[g]
    /\ Len(pool) >= MaxThreads
    /\ conn' = [conn EXCEPT ![c] = "rejected"]
    /\ UNCHANGED <<pool, gui, handlerVars, kernel, buf, hungUp, outOfStep, lost>>

(* The rejected one is flushed and its socket deletes itself. *)
RejectedGone(c) ==
    /\ gui = Free /\ conn[c] = "rejected"
    /\ conn' = [conn EXCEPT ![c] = "none"]
    /\ UNCHANGED <<pool, gui, handlerVars, kernel, buf, hungUp, outOfStep, lost>>

(* A connection may come whenever the listener listens, which Start and    *)
(* close decide; they change nothing else.                                 *)
IncomingConnection(c) == Reject(c) \/ \E h \in Handlers : Accept(c, h)
-----------------------------------------------------------------------------
(* HttpConnectionHandlerPool::cleanup, in the GUI thread. *)

(* A plausible slip: the busy flag is not looked at. *)
CleanupAny ==
    /\ gui = Free
    /\ \E i \in DOMAIN pool :
          /\ i = MinThreads + 1
          /\ gui' = pool[i]
          /\ pool' = RemoveAt(pool, i)
    /\ UNCHANGED <<handlerVars, connVars, lost>>

(* The handler after MinThreads idle ones leaves the pool.  Its destructor *)
(* asks the event loop to quit and waits, with the pool locked, ...        *)
Cleanup ==
    /\ gui = Free
    /\ \E i \in DOMAIN pool :
          /\ ~busy[pool[i]]
          /\ Cardinality({j \in 1 .. i - 1 : ~busy[pool[j]]}) = MinThreads
          /\ gui' = pool[i]
          /\ pool' = RemoveAt(pool, i)
    /\ UNCHANGED <<handlerVars, connVars, lost>>

(* ... until the thread has left the slot it is in. *)
Deleted ==
    /\ gui # Free
    /\ phase[gui] = "idle"
    /\ gui' = Free
    /\ busy' = [busy EXCEPT ![gui] = FALSE]
    /\ calls' = [calls EXCEPT ![gui] = <<>>]
    /\ sock' = [sock EXCEPT ![gui] = NoConn]
    /\ closing' = [closing EXCEPT ![gui] = FALSE]
    /\ timer' = [timer EXCEPT ![gui] = Off]
    /\ req' = [req EXCEPT ![gui] = <<>>]
    /\ UNCHANGED <<pool, phase, connVars, lost>>
-----------------------------------------------------------------------------
(* The slots of HttpConnectionHandler, in the handler's thread.  A slot    *)
(* runs only while no other one of the same thread does, except for        *)
(* disconnected, which a write inside service may emit.                    *)

(* A plausible slip: the previous request is kept. *)
HandleConnectionKeeps(h) ==
    /\ phase[h] = "idle" /\ calls[h] # <<>>
    /\ calls' = [calls EXCEPT ![h] = Tail(@)]
    /\ SetBusy(h)
    /\ sock' = [sock EXCEPT ![h] = Head(calls[h])]
    /\ closing' = [closing EXCEPT ![h] = FALSE]
    /\ timer' = [timer EXCEPT ![h] = Head(calls[h])]
    /\ conn' = [conn EXCEPT ![Head(calls[h])] = "open"]
    /\ UNCHANGED <<pool, gui, req, phase, kernel, buf, hungUp, outOfStep, lost>>

HandleConnection(h) ==
    /\ phase[h] = "idle" /\ calls[h] # <<>>
    /\ calls' = [calls EXCEPT ![h] = Tail(@)]
    /\ SetBusy(h)
    /\ sock' = [sock EXCEPT ![h] = Head(calls[h])]
    /\ closing' = [closing EXCEPT ![h] = FALSE]
    /\ timer' = [timer EXCEPT ![h] = Head(calls[h])]
    /\ req' = [req EXCEPT ![h] = <<>>]
    /\ conn' = [conn EXCEPT ![Head(calls[h])] = "open"]
    /\ UNCHANGED <<pool, gui, phase, kernel, buf, hungUp, outOfStep, lost>>

(* A connection is over; what had arrived on it goes with its socket. *)
End(c) ==
    /\ conn' = [conn EXCEPT ![c] = "none"]
    /\ kernel' = [kernel EXCEPT ![c] = 0]
    /\ buf' = [buf EXCEPT ![c] = 0]
    /\ hungUp' = [hungUp EXCEPT ![c] = FALSE]
    /\ outOfStep' = [outOfStep EXCEPT ![c] = FALSE]

(* setSocketDescriptor fails: the slot returns and busy stays set. *)
CannotInitializeSocket(h) ==
    /\ phase[h] = "idle" /\ calls[h] # <<>>
    /\ calls' = [calls EXCEPT ![h] = Tail(@)]
    /\ SetBusy(h)
    /\ End(Head(calls[h]))
    /\ lost' = lost \cup {h}
    /\ UNCHANGED <<pool, gui, sock, closing, timer, req, phase>>

ReadTimeout(h) ==
    /\ phase[h] = "idle" /\ timer[h] # Off
    /\ timer' = [timer EXCEPT ![h] = Off]
    /\ closing' = [closing EXCEPT ![h] = sock[h] # NoConn]
    /\ req' = [req EXCEPT ![h] = <<>>]
    /\ UNCHANGED <<pool, gui, busy, calls, sock, phase, connVars, lost>>

(* A plausible slip: the handler is not given back. *)
DisconnectBusy(h) ==
    /\ End(sock[h])
    /\ sock' = [sock EXCEPT ![h] = NoConn]
    /\ closing' = [closing EXCEPT ![h] = FALSE]
    /\ timer' = [timer EXCEPT ![h] = Off]
    /\ UNCHANGED <<pool, gui, busy, calls, req, phase, lost>>

Disconnect(h) ==
    /\ End(sock[h])
    /\ sock' = [sock EXCEPT ![h] = NoConn]
    /\ closing' = [closing EXCEPT ![h] = FALSE]
    /\ timer' = [timer EXCEPT ![h] = Off]
    /\ busy' = [busy EXCEPT ![h] = FALSE]
    /\ UNCHANGED <<pool, gui, calls, req, phase, lost>>

(* The output is flushed or the peer is gone, and QTcpSocket says so. *)
Disconnected(h) ==
    /\ phase[h] = "idle" /\ sock[h] # NoConn
    /\ closing[h] \/ hungUp[sock[h]]
    /\ Disconnect(h)

(* The peer goes while its request is served: the handler counts as free   *)
(* although its thread is still in service.                                *)
DisconnectedInService(h) ==
    /\ phase[h] = "service" /\ sock[h] # NoConn
    /\ hungUp[sock[h]]
    /\ Disconnect(h)
-----------------------------------------------------------------------------
(* read: the halves in the socket go into currentRequest until it is       *)
(* complete.                                                               *)

Available(h) == kernel[sock[h]] + buf[sock[h]]
Wanted(h)    == 2 - Len(req[h])
Halves(h, n) == [i \in 1 .. n |-> sock[h]]

(* What read leaves in the socket, after it took n halves. *)
Consume(h, n) ==
    /\ buf' = [buf EXCEPT ![sock[h]] = Available(h) - n]
    /\ kernel' = [kernel EXCEPT ![sock[h]] = 0]

ReadyRead(h) ==
    /\ phase[h] = "idle" /\ sock[h] # NoConn /\ ~closing[h]
    /\ kernel[sock[h]] > 0

(* No line is cut, and the request goes on; the timer starts again only in *)
(* its body.                                                               *)
ReadPart(h) ==
    /\ ReadyRead(h)
    /\ Available(h) < Wanted(h)
    /\ Consume(h, Available(h))
    /\ req' = [req EXCEPT ![h] = @ \o Halves(h, Available(h))]
    /\ timer' \in {timer, [timer EXCEPT ![h] = sock[h]]}
    /\ UNCHANGED <<pool, gui, busy, calls, sock, closing, phase>>
    /\ UNCHANGED <<conn, hungUp, outOfStep, lost>>

(* A plausible slip: `if' for `while', so one half is taken by each read. *)
ReadOne(h) ==
    /\ ReadyRead(h)
    /\ Available(h) >= Wanted(h)
    /\ Consume(h, 1)
    /\ req' = [req EXCEPT ![h] = @ \o Halves(h, 1)]
    /\ LET done == Wanted(h) = 1
       IN  /\ timer' = [timer EXCEPT ![h] = IF done THEN Off ELSE @]
           /\ phase' = [phase EXCEPT ![h] = IF done THEN "service" ELSE @]
    /\ UNCHANGED <<pool, gui, busy, calls, sock, closing>>
    /\ UNCHANGED <<conn, hungUp, outOfStep, lost>>

ReadComplete(h) ==
    /\ ReadyRead(h)
    /\ Available(h) >= Wanted(h)
    /\ Consume(h, Wanted(h))
    /\ req' = [req EXCEPT ![h] = @ \o Halves(h, Wanted(h))]
    /\ timer' = [timer EXCEPT ![h] = Off]
    /\ phase' = [phase EXCEPT ![h] = "service"]
    /\ UNCHANGED <<pool, gui, busy, calls, sock, closing>>
    /\ UNCHANGED <<conn, hungUp, outOfStep, lost>>

(* readLine returns a part of a line: one cut before its line feed leaves  *)
(* an empty line, which ends the headers, and one cut elsewhere may hide   *)
(* the length of the body or make it wait for more than is sent.  So the   *)
(* request is complete with whatever is left unread, or it goes on without *)
(* some of what was read.                                                  *)
ReadTorn(h) ==
    /\ ReadyRead(h)
    /\ \/ /\ \E n \in 0 .. Available(h) : Consume(h, n)
          /\ req' = [req EXCEPT ![h] = @ \o Halves(h, Wanted(h))]
          /\ timer' = [timer EXCEPT ![h] = Off]
          /\ phase' = [phase EXCEPT ![h] = "service"]
       \/ /\ Consume(h, Available(h))
          /\ \E k \in 0 .. Wanted(h) - 1 : req' = [req EXCEPT ![h] = @ \o Halves(h, k)]
          /\ timer' \in {timer, [timer EXCEPT ![h] = sock[h]]}
          /\ UNCHANGED phase
    /\ outOfStep' = [outOfStep EXCEPT ![sock[h]] = TRUE]
    /\ UNCHANGED <<pool, gui, busy, calls, sock, closing, conn, hungUp, lost>>

(* 413: a broken first line or too large; the timer is left running. *)
ReadAbort(h) ==
    /\ ReadyRead(h)
    /\ \E n \in 1 .. Available(h) : n <= Wanted(h) /\ Consume(h, n)
    /\ closing' = [closing EXCEPT ![h] = TRUE]
    /\ req' = [req EXCEPT ![h] = <<>>]
    /\ UNCHANGED <<pool, gui, busy, calls, sock, timer, phase>>
    /\ UNCHANGED <<conn, hungUp, outOfStep, lost>>

(* waitForBytesWritten also reads; readyRead is not emitted inside read. *)
ReadInService(h) ==
    /\ phase[h] = "service" /\ sock[h] # NoConn
    /\ kernel[sock[h]] > 0
    /\ Consume(h, 0)
    /\ UNCHANGED <<pool, gui, handlerVars, conn, hungUp, outOfStep, lost>>

(* A plausible slip: the timer is not started again. *)
EndServiceUntimed(h) ==
    /\ phase[h] = "service"
    /\ phase' = [phase EXCEPT ![h] = "idle"]
    /\ req' = [req EXCEPT ![h] = <<>>]
    /\ closing' \in {closing, [closing EXCEPT ![h] = sock[h] # NoConn]}
    /\ UNCHANGED <<pool, gui, busy, calls, sock, timer, connVars, lost>>

(* The response is written (or 403, if the IP filter blocks the client);   *)
(* "Connection: close" ends the connection, else the timer for the next    *)
(* request starts, also if the connection ended meanwhile.                 *)
EndService(h) ==
    /\ phase[h] = "service"
    /\ phase' = [phase EXCEPT ![h] = "idle"]
    /\ req' = [req EXCEPT ![h] = <<>>]
    /\ \/ /\ closing' = [closing EXCEPT ![h] = sock[h] # NoConn]
          /\ UNCHANGED timer
       \/ /\ timer' = [timer EXCEPT ![h] = sock[h]]
          /\ UNCHANGED closing
    /\ UNCHANGED <<pool, gui, busy, calls, sock, connVars, lost>>
-----------------------------------------------------------------------------
(* The peers. *)

SendHalf(c) ==
    /\ c \in InProgress /\ ~hungUp[c]
    /\ kernel[c] + buf[c] < MaxHalves
    /\ kernel' = [kernel EXCEPT ![c] = @ + 1]
    /\ outOfStep' = [outOfStep EXCEPT ![c] = @ \/ Unanswered(c)]
    /\ UNCHANGED <<pool, gui, handlerVars, conn, buf, hungUp, lost>>

PeerClose(c) ==
    /\ c \in InProgress /\ ~hungUp[c]
    /\ hungUp' = [hungUp EXCEPT ![c] = TRUE]
    /\ UNCHANGED <<pool, gui, handlerVars, conn, kernel, buf, outOfStep, lost>>
-----------------------------------------------------------------------------
Init ==
    /\ pool = <<>>
    /\ gui = Free
    /\ busy = [h \in Handlers |-> FALSE]
    /\ calls = [h \in Handlers |-> <<>>]
    /\ sock = [h \in Handlers |-> NoConn]
    /\ closing = [h \in Handlers |-> FALSE]
    /\ timer = [h \in Handlers |-> Off]
    /\ req = [h \in Handlers |-> <<>>]
    /\ phase = [h \in Handlers |-> "idle"]
    /\ conn = [c \in Conns |-> "none"]
    /\ kernel = [c \in Conns |-> 0]
    /\ buf = [c \in Conns |-> 0]
    /\ hungUp = [c \in Conns |-> FALSE]
    /\ outOfStep = [c \in Conns |-> FALSE]
    /\ lost = {}

Slot(h) ==
    \/ HandleConnection(h)
    \/ CannotInitializeSocket(h)
    \/ ReadTimeout(h)
    \/ Disconnected(h)
    \/ DisconnectedInService(h)
    \/ ReadPart(h)
    \/ ReadComplete(h)
    \/ ReadTorn(h)
    \/ ReadAbort(h)
    \/ ReadInService(h)
    \/ EndService(h)

Next ==
    \/ Cleanup
    \/ Deleted
    \/ \E c \in Conns : IncomingConnection(c) \/ RejectedGone(c) \/ SendHalf(c) \/ PeerClose(c)
    \/ \E h \in Handlers : Slot(h)

Spec == Init /\ [][Next]_vars

(* Nothing the handler writes waits for a peer that does not read. *)
Flows(h) == \A c \in Stalled : sock[h] = c => hungUp[c]

(* An event loop handles what is queued, a timer that runs fires unless it *)
(* is stopped, output leaves unless the peer has stopped reading, and the  *)
(* destructor's wait returns.  Nothing makes peers send or hang up.        *)
Fairness ==
    /\ WF_vars(Deleted)
    /\ \A h \in Handlers :
          /\ WF_vars(HandleConnection(h) \/ CannotInitializeSocket(h))
          /\ WF_vars(ReadTimeout(h))
          /\ WF_vars(Flows(h) /\ Disconnected(h))
          /\ WF_vars(Flows(h) /\ EndService(h))

FairSpec == Spec /\ Fairness
-----------------------------------------------------------------------------
(* The variables have their types; the pool holds a handler once, and      *)
(* never more than maxThreads of them.                                     *)
TypeOK ==
    /\ pool \in Seq(Handlers)
    /\ Len(pool) <= MaxThreads
    /\ \A i, j \in DOMAIN pool : pool[i] = pool[j] => i = j
    /\ gui \in Handlers \cup {Free}
    /\ busy \in [Handlers -> BOOLEAN]
    /\ calls \in [Handlers -> Seq(Conns)]
    /\ sock \in [Handlers -> Conns \cup {NoConn}]
    /\ closing \in [Handlers -> BOOLEAN]
    /\ timer \in [Handlers -> Conns \cup {NoConn, Off}]
    /\ req \in [Handlers -> Seq(Conns)]
    /\ phase \in [Handlers -> {"idle", "service"}]
    /\ conn \in [Conns -> {"none", "queued", "open", "rejected"}]
    /\ kernel \in [Conns -> Nat]
    /\ buf \in [Conns -> Nat]
    /\ hungUp \in [Conns -> BOOLEAN]
    /\ outOfStep \in [Conns -> BOOLEAN]
    /\ lost \in SUBSET Handlers

(* handleConnection's assertion, seen from both threads: a handler has at  *)
(* most one connection, queued or open; one that is not busy, which the    *)
(* pool gives away or deletes, has none, and a busy one has one unless its *)
(* socket could not be set up.                                             *)
OneConnection ==
    \A h \in Handlers :
        /\ Len(calls[h]) <= 1
        /\ calls[h] # <<>> => sock[h] = NoConn
        /\ busy[h] <=> calls[h] # <<>> \/ sock[h] # NoConn \/ h \in lost
        /\ busy[h] => h \in InPool

(* The bytes of a connection never end up in the request of another one,   *)
(* although a disconnection in the middle of a request leaves the half     *)
(* request in the handler until it is used again.                          *)
RequestsUnmixed ==
    \A h \in Handlers :
        sock[h] # NoConn => \A i \in DOMAIN req[h] : req[h][i] = sock[h]

(* While a handler waits for its peer the read timer runs, and it is the   *)
(* timer of this connection: not one that an earlier connection left, nor  *)
(* one started when the connection was already gone.                       *)
OpenIsTimed ==
    \A h \in Handlers :
        sock[h] # NoConn =>
            /\ phase[h] = "idle" /\ ~closing[h] => timer[h] = sock[h]
            /\ timer[h] \in {sock[h], Off}

(* Bytes the socket has already read wait without a readyRead signal only  *)
(* if the peer sent a request before the one before it was answered, or    *)
(* the network cut a line of what it sent.                                 *)
NothingLeftUnread ==
    \A h \in Handlers :
        /\ sock[h] # NoConn /\ phase[h] = "idle" /\ ~closing[h]
        /\ ~outOfStep[sock[h]]
        => buf[sock[h]] = 0

(* "503 too many connections" is true: when a connection is rejected, as   *)
(* many as the pool may have handlers are in progress, but for handlers    *)
(* whose socket could not be set up.                                       *)
RejectsOnlyWhenFull ==
    [][\A c \in Conns :
          conn[c] # "rejected" /\ conn'[c] = "rejected" =>
              Cardinality(InProgress) + Cardinality(lost) >= MaxThreads]_vars

(* A connection ends unless its peer sends for ever or has stopped reading *)
(* the answer: the read timeout gets every handler back.                   *)
ConnectionsEnd ==
    \A c \in Conns \ Stalled :
        \/ []<><<SendHalf(c)>>_vars
        \/ c \in InProgress ~> c \notin InProgress

(* The clean-up, which waits for a handler's thread in the GUI thread,     *)
(* never waits for a peer.                                                 *)
GuiReturns == gui # Free ~> gui = Free
=============================================================================
