---------------------- MODULE TorrentManagerSaveProofs ----------------------
(***************************************************************************)
(* The .resume files of CT_DATA: what they hold once everything queued is  *)
(* handled, and what an exit and a start make of it.                       *)
(***************************************************************************)
EXTENDS TorrentManagerDiskProofs, TorrentManagerGuiProofs

(* An alert whose handling writes the .resume file of t. *)
SavedOf(a, t) == a.kind = "saved" /\ a.t = t

NoSaves(q, t) == \A i \in DOMAIN q : ~SavedOf(q[i], t)

(* The last such alert of a queue is the present torrent's, with path p. *)
Ends(q, t, p) ==
    \E i \in DOMAIN q :
        /\ SavedOf(q[i], t) /\ q[i].cur /\ q[i].p = p
        /\ \A k \in DOMAIN q : k > i => ~SavedOf(q[k], t)

(* Once the batch, or all alerts, are handled, .resume has the path p. *)
BatchLeaves(t, p) ==
    \/ Ends(batch, t, p)
    \/ NoSaves(batch, t) /\ resume[t] # None /\ resume[t].path = p

AlertsLeave(t, p) == Ends(alerts, t, p) \/ (NoSaves(alerts, t) /\ BatchLeaves(t, p))

(* A torrent that is listed, or that a dialog or a web thread will list. *)
ToBeListed(t) ==
    \/ t \in stored \ stale
    \/ dialog[t] \in {"waiting", "offered"}
    \/ \E w \in WebThreads : web[w].op = "store" /\ web[w].t = t /\ web[w].cur

(* A web thread will take t itself out of the session. *)
BeingRemoved(t) ==
    \E w \in WebThreads : web[w].op = "remove" /\ web[w].t = t /\ web[w].cur

(* A torrent that reports nothing to save; and what that has to mean.      *)
Clean(t) == t \in meta /\ t \notin dirty /\ t \notin hasty

Saved(t) == Queued(jobs, {"save"}, t) \/ AlertsLeave(t, path[t]) \/ BeingRemoved(t)

CleanAreSaved == \A t \in Torrents : Clean(t) /\ ToBeListed(t) => Saved(t)

(* A job that prepares resume data of a removed torrent makes it a hasty one. *)
LateSavesAreHasty ==
    \A i \in DOMAIN jobs : jobs[i].kind = "save" /\ ~jobs[i].cur => jobs[i].t \in hasty

SaveInv == CleanAreSaved /\ LateSavesAreHasty
-----------------------------------------------------------------------------
(* Queues *)

(* An alert that is posted comes last. *)
LEMMA AppendSaves ==
    ASSUME NEW q \in Seq(Items), NEW x \in Items, NEW t, NEW p
    PROVE  /\ ~SavedOf(x, t) => /\ NoSaves(q, t) => NoSaves(Append(q, x), t)
                                /\ Ends(q, t, p) => Ends(Append(q, x), t, p)
           /\ SavedOf(x, t) /\ x.cur /\ x.p = p => Ends(Append(q, x), t, p)
<1> DEFINE r == Append(q, x)
<1>1. /\ DOMAIN r = 1 .. Len(q) + 1 /\ DOMAIN q = 1 .. Len(q) /\ Len(q) \in Nat
      /\ r[Len(q) + 1] = x /\ \A i \in DOMAIN q : r[i] = q[i]
  OBVIOUS
<1> HIDE DEF r
<1>2. \A i \in DOMAIN r : i \in DOMAIN q \/ i = Len(q) + 1
  BY <1>1
<1>3. Len(q) + 1 \in DOMAIN r /\ DOMAIN q \subseteq DOMAIN r
  BY <1>1
<1>4. ASSUME ~SavedOf(x, t), NoSaves(q, t) PROVE NoSaves(r, t)
  BY <1>1, <1>2, <1>4 DEF NoSaves
<1>5. ASSUME ~SavedOf(x, t), Ends(q, t, p) PROVE Ends(r, t, p)
  <2>1. PICK i \in DOMAIN q : /\ SavedOf(q[i], t) /\ q[i].cur /\ q[i].p = p
                              /\ \A k \in DOMAIN q : k > i => ~SavedOf(q[k], t)
    BY <1>5 DEF Ends
  <2>2. \A k \in DOMAIN r : k > i => ~SavedOf(r[k], t)
    BY <1>1, <1>2, <1>5, <2>1
  <2>3. i \in DOMAIN r /\ r[i] = q[i]
    BY <1>1, <1>3
  <2> QED BY <2>1, <2>2, <2>3 DEF Ends
<1>6. ASSUME SavedOf(x, t), x.cur, x.p = p PROVE Ends(r, t, p)
  <2>1. \A k \in DOMAIN r : ~ (k > Len(q) + 1)
    BY <1>1
  <2> QED BY <1>1, <1>3, <1>6, <2>1 DEF Ends
<1> QED BY <1>4, <1>5, <1>6 DEF r

(* What a queue ends with stays, or is the alert that is taken. *)
LEMMA TailSaves ==
    ASSUME NEW q \in Seq(Items), q # <<>>, NEW t, NEW p
    PROVE  /\ NoSaves(q, t) => NoSaves(Tail(q), t) /\ ~SavedOf(Head(q), t)
           /\ Ends(q, t, p) =>
                 \/ Ends(Tail(q), t, p)
                 \/ /\ NoSaves(Tail(q), t)
                    /\ SavedOf(Head(q), t) /\ Head(q).cur /\ Head(q).p = p
<1> DEFINE r == Tail(q)
<1>1. /\ DOMAIN q = 1 .. Len(q) /\ Len(q) \in Nat \ {0} /\ Head(q) = q[1]
      /\ DOMAIN r = 1 .. Len(q) - 1 /\ \A i \in DOMAIN r : r[i] = q[i + 1]
  OBVIOUS
<1> HIDE DEF r
<1>2. 1 \in DOMAIN q /\ \A i \in DOMAIN r : i + 1 \in DOMAIN q
  BY <1>1
<1>3. NoSaves(q, t) => NoSaves(r, t) /\ ~SavedOf(Head(q), t)
  BY <1>1, <1>2 DEF NoSaves
<1>4. ASSUME Ends(q, t, p)
      PROVE  \/ Ends(r, t, p)
             \/ NoSaves(r, t) /\ SavedOf(Head(q), t) /\ Head(q).cur /\ Head(q).p = p
  <2>1. PICK i \in DOMAIN q : /\ SavedOf(q[i], t) /\ q[i].cur /\ q[i].p = p
                              /\ \A k \in DOMAIN q : k > i => ~SavedOf(q[k], t)
    BY <1>4 DEF Ends
  <2>2. CASE i = 1
    <3>1. \A k \in DOMAIN r : k + 1 > 1
      BY <1>1
    <3>2. NoSaves(r, t)
      BY <1>1, <1>2, <2>1, <2>2, <3>1 DEF NoSaves
    <3> QED BY <1>1, <2>1, <2>2, <3>2
  <2>3. CASE i # 1
    <3>1. i - 1 \in DOMAIN r /\ r[i - 1] = q[i]
      <4>1. i - 1 \in DOMAIN r /\ (i - 1) + 1 = i
        BY <1>1, <2>3
      <4> QED BY <1>1, <4>1
    <3>2. \A k \in DOMAIN r : k > i - 1 => k + 1 > i
      BY <1>1
    <3>3. \A k \in DOMAIN r : k > i - 1 => ~SavedOf(r[k], t)
      BY <1>1, <1>2, <2>1, <3>2
    <3> QED BY <2>1, <3>1, <3>3 DEF Ends
  <2> QED BY <2>2, <2>3
<1> QED BY <1>3, <1>4 DEF r

(* A removal does not touch the alerts of other torrents. *)
LEMMA OrphanSaves ==
    ASSUME NEW q \in Seq(Items), NEW u, NEW t, t # u, NEW p
    PROVE  /\ NoSaves(q, t) => NoSaves(Orphan(q, u), t)
           /\ Ends(q, t, p) => Ends(Orphan(q, u), t, p)
<1> DEFINE r == Orphan(q, u)
<1>1. DOMAIN r = DOMAIN q
  BY DEF Orphan
<1>2. ASSUME NEW i \in DOMAIN q
      PROVE  /\ q[i].t # u => r[i] = q[i]
             /\ q[i].t = u => r[i].t = u
  <2>1. q[i] \in Items
    OBVIOUS
  <2>2. CASE q[i].t = u /\ q[i].cur
    <3>1. r[i] = [q[i] EXCEPT !.cur = FALSE,
                              !.p = IF q[i].kind = "save" THEN path[u] ELSE q[i].p]
      BY <2>2 DEF Orphan
    <3> QED BY <2>1, <2>2, <3>1 DEF Items
  <2>3. CASE ~(q[i].t = u /\ q[i].cur)
    BY <2>3 DEF Orphan
  <2> QED BY <2>2, <2>3
<1> HIDE DEF r
<1>3. \A i \in DOMAIN q : SavedOf(r[i], t) <=> SavedOf(q[i], t)
  BY <1>2 DEF SavedOf
<1>4. \A i \in DOMAIN q : SavedOf(q[i], t) => r[i] = q[i]
  BY <1>2 DEF SavedOf
<1> QED BY <1>1, <1>3, <1>4 DEF NoSaves, Ends, r

(* An empty queue leaves the file as it is. *)
LEMMA EmptySaves == \A t, p : NoSaves(<<>>, t) /\ ~Ends(<<>>, t, p)
BY DEF NoSaves, Ends
-----------------------------------------------------------------------------
(* The pieces of the actions *)

(* What a step leaves alone of t. *)
Keeps(t) ==
    /\ path'[t] = path[t]
    /\ Queued(jobs, {"save"}, t) => Queued(jobs, {"save"}, t)'
    /\ AlertsLeave(t, path[t]) => AlertsLeave(t, path[t])'
    /\ BeingRemoved(t) => BeingRemoved(t)'

(* The invariant holds after a step that for every torrent either leaves   *)
(* alone what it rests on, or makes it true anew.                          *)
LEMMA StepSaves ==
    ASSUME IInv, SaveInv, LateSavesAreHasty',
           \A t \in Torrents :
              Clean(t)' /\ ToBeListed(t)' =>
                  Saved(t)' \/ (Clean(t) /\ ToBeListed(t) /\ Keeps(t))
    PROVE  SaveInv'
<1>1. ASSUME NEW t \in Torrents, Saved(t), Keeps(t) PROVE Saved(t)'
  BY <1>1 DEF Saved, Keeps
<1> QED BY <1>1 DEF SaveInv, CleanAreSaved

(* The alerts of t are handled as before if none of its saves is added. *)
LEMMA AlertsAppended ==
    ASSUME IInv, NEW x \in Items, alerts' = Append(alerts, x), batch' = batch, resume' = resume,
           NEW t, ~SavedOf(x, t), NEW p, AlertsLeave(t, p)
    PROVE  AlertsLeave(t, p)'
<1>1. alerts \in Seq(Items)
  BY DEF IInv, TypeOK
<1> QED BY <1>1, AppendSaves DEF AlertsLeave, BatchLeaves

(* save_resume_data: of the torrent it is called on there is a save in     *)
(* flight then, and those of the others stay.                              *)
LEMMA SaveResumeDataSaves ==
    ASSUME IInv, LateSavesAreHasty, NEW u \in Torrents, NEW c \in BOOLEAN,
           SaveResumeData(u, c), hasty' = hasty
    PROVE  /\ LateSavesAreHasty'
           /\ \A t \in Torrents : Queued(jobs, {"save"}, t) => Queued(jobs', {"save"}, t)
           /\ \A t \in Torrents : t \notin dirty' =>
                 \/ Queued(jobs', {"save"}, t) \/ Ends(alerts', t, path[t])
                 \/ /\ t \notin dirty
                    /\ NoSaves(alerts, t) => NoSaves(alerts', t)
                    /\ Ends(alerts, t, path[t]) => Ends(alerts', t, path[t])
<1> USE ConstantsAssumption
<1>0. TypeOK /\ jobs \in Seq(Items) /\ alerts \in Seq(Items) /\ path \in [Torrents -> Paths]
  BY DEF IInv, TypeOK
<1> DEFINE ask    == Item("save", u, TRUE, NoPath)
           failed == Item("failed", u, c, NoPath)
           saved  == Item("saved", u, TRUE, path[u])
<1>1. /\ ask \in Items /\ ask.kind = "save" /\ ask.t = u /\ ask.cur
      /\ failed \in Items /\ failed.kind = "failed"
      /\ saved \in Items /\ saved.kind = "saved" /\ saved.t = u /\ saved.cur /\ saved.p = path[u]
  <2>1. ask \in Items /\ failed \in Items /\ saved \in Items
    BY <1>0, ItemType DEF Kinds
  <2> QED BY <2>1 DEF Item
<1> HIDE DEF ask, failed, saved
<1>2. \A t \in Torrents : Queued(jobs, {"save"}, t) => Queued(jobs', {"save"}, t)
  BY <1>0, SaveResumeDataQueues
<1>3. CASE dirty' = dirty \ {u} /\ jobs' = Append(jobs, ask) /\ alerts' = alerts
  <2>1. Queued(jobs', {"save"}, u)
    BY <1>0, <1>1, <1>3, AppendQueued
  <2>2. LateSavesAreHasty'
    <3>1. \A i \in DOMAIN jobs' : (i \in DOMAIN jobs /\ jobs'[i] = jobs[i]) \/ jobs'[i] = ask
      BY <1>0, <1>1, <1>3
    <3> QED BY <1>1, <3>1 DEF LateSavesAreHasty
  <2> QED BY <1>2, <1>3, <2>1, <2>2
<1>4. CASE dirty' = dirty \ {u} /\ jobs' = jobs /\ alerts' = Append(alerts, saved)
  <2>1. LateSavesAreHasty'
    BY <1>4 DEF LateSavesAreHasty
  <2>2. Ends(alerts', u, path[u])
    BY <1>0, <1>1, <1>4, AppendSaves DEF SavedOf
  <2>3. ASSUME NEW t \in Torrents, t # u
        PROVE  /\ NoSaves(alerts, t) => NoSaves(alerts', t)
               /\ Ends(alerts, t, path[t]) => Ends(alerts', t, path[t])
    <3>1. ~SavedOf(saved, t)
      BY <1>1, <2>3 DEF SavedOf
    <3> QED BY <1>0, <1>1, <1>4, <3>1, AppendSaves
  <2> QED BY <1>2, <1>4, <2>1, <2>2, <2>3
<1>5. CASE dirty' = dirty /\ jobs' = jobs /\ alerts' = Append(alerts, failed)
  <2>1. LateSavesAreHasty'
    BY <1>5 DEF LateSavesAreHasty
  <2>2. ASSUME NEW t \in Torrents
        PROVE  /\ NoSaves(alerts, t) => NoSaves(alerts', t)
               /\ Ends(alerts, t, path[t]) => Ends(alerts', t, path[t])
    <3>1. ~SavedOf(failed, t)
      BY <1>1 DEF SavedOf
    <3> QED BY <1>0, <1>1, <1>5, <3>1, AppendSaves
  <2> QED BY <1>2, <1>5, <2>1, <2>2
<1> QED BY <1>3, <1>4, <1>5 DEF SaveResumeData, ask, failed, saved

(* An alert is taken from the batch and, if it is a save, written. *)
LEMMA HandledSaves ==
    ASSUME IInv, batch # <<>>, batch' = Tail(batch),
           resume' = IF Head(batch).kind = "saved" THEN ResumeAfter(Head(batch)) ELSE resume,
           NEW t \in Torrents, NEW p, BatchLeaves(t, p)
    PROVE  BatchLeaves(t, p)'
<1> DEFINE a == Head(batch)
<1>1. batch \in Seq(Items) /\ a \in Items /\ resume \in [Torrents -> ResumeData \cup {None}]
  BY TailItem DEF IInv, TypeOK, HandlesCurrent
<1>2. a.t \in Torrents /\ a.p \in Paths
  BY <1>1 DEF Items
<1>3. NoSaves(batch, t) => NoSaves(batch', t) /\ ~SavedOf(a, t)
  BY <1>1, TailSaves
<1>4. Ends(batch, t, p) => \/ Ends(batch', t, p)
                           \/ NoSaves(batch', t) /\ SavedOf(a, t) /\ a.cur /\ a.p = p
  BY <1>1, TailSaves
<1>5. resume' = IF a.kind = "saved" THEN ResumeAfter(a) ELSE resume
  OBVIOUS
<1> HIDE DEF a
<1>6. ASSUME ~SavedOf(a, t) PROVE resume'[t] = resume[t]
  BY <1>1, <1>2, <1>5, <1>6 DEF SavedOf, ResumeAfter
<1>7. ASSUME SavedOf(a, t), a.cur, a.p = p PROVE resume'[t] # None /\ resume'[t].path = p
  <2> DEFINE data == [path |-> a.p, group |-> IF a.t \in stored THEN group[a.t] ELSE None]
  <2>1. resume' = [resume EXCEPT ![a.t] = data] /\ a.t = t
    BY <1>5, <1>7 DEF SavedOf, ResumeAfter, Valid
  <2>2. resume'[t] = data
    BY <1>1, <2>1
  <2>3. data \in ResumeData
    <3>1. a.t \in stored => group[a.t] \in Groups
      BY <1>2 DEF IInv, TypeOK
    <3> QED BY <1>2, <3>1 DEF ResumeData
  <2> QED BY <1>7, <2>2, <2>3, ConstantsAssumption DEF ResumeData
<1> QED BY <1>3, <1>4, <1>6, <1>7 DEF BatchLeaves

(* A torrent leaves the session: what is queued of the others stays, and   *)
(* a save of it that was being prepared makes it a hasty one.              *)
LEMMA RemovalSaves ==
    ASSUME IInv, SaveInv, NEW u \in Torrents, RemoveFromSession(u),
           \A t \in Torrents \ {u} : resume'[t] = resume[t],
           \A t \in Torrents \ {u} : ToBeListed(t)' => ToBeListed(t),
           \A t \in Torrents \ {u} : BeingRemoved(t) => BeingRemoved(t)'
    PROVE  SaveInv'
<1>1. /\ jobs \in Seq(Items) /\ alerts \in Seq(Items) /\ batch \in Seq(Items)
      /\ jobs' = Orphan(jobs, u) /\ alerts' = Orphan(alerts, u) /\ batch' = Orphan(batch, u)
      /\ path' = path /\ meta' = meta \ {u} /\ dirty' = dirty \ {u}
      /\ hasty' = IF Queued(jobs, {"save"}, u) THEN hasty \cup {u} ELSE hasty
  BY DEF IInv, TypeOK, RemoveFromSession
<1>2. LateSavesAreHasty'
  <2> SUFFICES ASSUME NEW i \in DOMAIN jobs', jobs'[i].kind = "save", ~jobs'[i].cur
               PROVE  jobs'[i].t \in hasty'
    BY DEF LateSavesAreHasty
  <2>1. i \in DOMAIN jobs /\ jobs[i] \in Items
    <3>1. i \in DOMAIN jobs
      BY <1>1 DEF Orphan
    <3> QED BY <1>1, <3>1
  <2>2. CASE jobs[i].t = u /\ jobs[i].cur
    <3>1. jobs'[i] = [jobs[i] EXCEPT !.cur = FALSE,
                              !.p = IF jobs[i].kind = "save" THEN path[u] ELSE jobs[i].p]
      BY <1>1, <2>1, <2>2 DEF Orphan
    <3>2. jobs[i].kind = "save" /\ jobs'[i].t = u
      BY <2>1, <2>2, <3>1 DEF Items
    <3>3. Queued(jobs, {"save"}, u)
      BY <2>1, <2>2, <3>2 DEF Queued
    <3> QED BY <1>1, <3>2, <3>3
  <2>3. CASE ~(jobs[i].t = u /\ jobs[i].cur)
    <3>1. jobs'[i] = jobs[i]
      BY <1>1, <2>1, <2>3 DEF Orphan
    <3> QED BY <1>1, <2>1, <3>1 DEF SaveInv, LateSavesAreHasty
  <2> QED BY <2>2, <2>3
<1>3. ASSUME NEW t \in Torrents, t # u PROVE Keeps(t)
  <2>1. path'[t] = path[t]
    BY <1>1
  <2>2. Queued(jobs, {"save"}, t) => Queued(jobs', {"save"}, t)
    BY <1>1, <1>3, OrphanQueued
  <2>3. \A p : AlertsLeave(t, p) => AlertsLeave(t, p)'
    BY <1>1, <1>3, OrphanSaves DEF AlertsLeave, BatchLeaves
  <2> QED BY <1>3, <2>1, <2>2, <2>3 DEF Keeps
<1>4. \A t \in Torrents : Clean(t)' => t # u /\ Clean(t)
  BY <1>1 DEF Clean
<1> QED BY <1>2, <1>3, <1>4, StepSaves
-----------------------------------------------------------------------------
(* The steps libtorrent takes. *)
LEMMA LibtorrentSaves ==
    ASSUME IInv, SaveInv, Libtorrent
    PROVE  SaveInv'
<1> USE ConstantsAssumption DEF closeVars, torrentVars, queueVars, storeVars, webVars, fileVars
<1>0. jobs \in Seq(Items) /\ alerts \in Seq(Items) /\ path \in [Torrents -> Paths]
  BY DEF IInv, TypeOK
<1>1. CASE RunJob
  <2> DEFINE j == Head(jobs)
  <2>1. j \in Items /\ jobs # <<>> /\ jobs' = Tail(jobs)
    BY <1>1, TailItem DEF RunJob, IInv, TypeOK, HandlesCurrent
  <2>2. j.t \in Torrents /\ j.cur \in BOOLEAN /\ j.p \in Paths
    BY <2>1 DEF Items
  <2>3. SaveDone(j) \/ MoveDone(j)
    BY <1>1 DEF RunJob
  <2>4. UNCHANGED <<meta, hasty, batch, stored, stale, dialog, web, resume>>
    BY <1>1 DEF RunJob
  <2>5. LateSavesAreHasty'
    <3>1. \A i \in DOMAIN jobs' : i + 1 \in DOMAIN jobs /\ jobs'[i] = jobs[i + 1]
      BY <1>0, <2>1
    <3> QED BY <2>4, <3>1 DEF SaveInv, LateSavesAreHasty
  <2>6. j.kind = "save" /\ ~j.cur => j.t \in hasty
    <3>1. 1 \in DOMAIN jobs /\ j = jobs[1]
      BY <1>0, <2>1
    <3> QED BY <3>1 DEF SaveInv, LateSavesAreHasty
  <2>7. \A t : Queued(jobs, {"save"}, t) =>
                  Queued(jobs', {"save"}, t) \/ (j.kind = "save" /\ j.t = t /\ j.cur)
    BY <1>0, <2>1, TailQueued
  <2>8. \A t : (ToBeListed(t)' <=> ToBeListed(t)) /\ (BeingRemoved(t)' <=> BeingRemoved(t))
    BY <2>4 DEF ToBeListed, BeingRemoved
  <2> HIDE DEF j
  <2>9. ASSUME NEW t \in Torrents, Clean(t)'
        PROVE  Saved(t)' \/ (Clean(t) /\ Keeps(t))
    <3>1. ASSUME NEW x \in Items, alerts' = Append(alerts, x), ~SavedOf(x, t)
          PROVE  \A p : AlertsLeave(t, p) => AlertsLeave(t, p)'
      BY <2>4, <3>1, AlertsAppended
    <3>2. CASE alerts' = Append(alerts, Item("moved", j.t, j.cur, j.p)) /\ MoveDone(j)
      <4>1. Item("moved", j.t, j.cur, j.p) \in Items /\ Item("moved", j.t, j.cur, j.p).kind = "moved"
        BY <2>2, ItemType DEF Kinds, Item
      <4>2. \A p : AlertsLeave(t, p) => AlertsLeave(t, p)'
        BY <3>1, <3>2, <4>1 DEF SavedOf
      <4>3. j.kind = "move"
        BY <3>2 DEF MoveDone
      <4>4. \/ /\ path' = IF j.cur THEN [path EXCEPT ![j.t] = j.p] ELSE path
               /\ dirty' = IF j.cur THEN dirty \cup {j.t} ELSE dirty
            \/ UNCHANGED <<path, dirty>>
        BY <3>2 DEF MoveDone
      <4>5. path'[t] = path[t] /\ t \notin dirty
        BY <1>0, <2>2, <2>9, <4>4 DEF Clean
      <4> QED BY <2>4, <2>7, <2>8, <2>9, <4>2, <4>3, <4>5 DEF Clean, Keeps
    <3>3. CASE MoveDone(j) /\ UNCHANGED <<alerts, dirty, path>>
      <4>1. j.kind = "move"
        BY <3>3 DEF MoveDone
      <4> QED BY <2>4, <2>7, <2>8, <2>9, <3>3, <4>1 DEF Clean, Keeps, AlertsLeave, BatchLeaves
    <3>4. CASE SaveDone(j) /\ ~j.cur
      <4>1. t # j.t
        BY <2>4, <2>6, <2>9, <3>4 DEF SaveDone, Clean
      <4>2. PICK x \in Items : alerts' = Append(alerts, x) /\ x.t = j.t
        <5>1. /\ Item("saved", j.t, j.cur, j.p) \in Items /\ Item("saved", j.t, j.cur, j.p).t = j.t
              /\ Item("failed", j.t, FALSE, NoPath) \in Items
              /\ Item("failed", j.t, FALSE, NoPath).t = j.t
          BY <2>2, ItemType DEF Kinds, Item
        <5> QED BY <3>4, <5>1 DEF SaveDone
      <4>3. \A p : AlertsLeave(t, p) => AlertsLeave(t, p)'
        BY <3>1, <4>1, <4>2 DEF SavedOf
      <4>4. path' = path /\ dirty' = dirty
        BY <3>4 DEF SaveDone
      <4> QED BY <2>4, <2>7, <2>8, <2>9, <4>1, <4>3, <4>4 DEF Clean, Keeps
    <3>5. CASE SaveDone(j) /\ j.cur
      <4> DEFINE x == Item("saved", j.t, j.cur, path[j.t])
      <4>1. /\ alerts' = Append(alerts, x) /\ path' = path
            /\ dirty' = dirty \ {j.t}
        BY <3>5 DEF SaveDone
      <4>2. x \in Items /\ x.kind = "saved" /\ x.t = j.t /\ x.cur /\ x.p = path[j.t]
        <5>1. path[j.t] \in Paths
          BY <1>0, <2>2
        <5> QED BY <2>2, <3>5, <5>1, ItemType DEF Kinds, Item
      <4> HIDE DEF x
      <4>3. CASE t = j.t
        <5>1. Ends(alerts', t, path[t])
          BY <1>0, <4>1, <4>2, <4>3, AppendSaves DEF SavedOf
        <5> QED BY <4>1, <5>1 DEF Saved, AlertsLeave
      <4>4. CASE t # j.t
        <5>1. \A p : AlertsLeave(t, p) => AlertsLeave(t, p)'
          BY <3>1, <4>1, <4>2, <4>4 DEF SavedOf
        <5> QED BY <2>4, <2>7, <2>8, <2>9, <4>1, <4>4, <5>1 DEF Clean, Keeps
      <4> QED BY <4>3, <4>4
    <3>6. MoveDone(j) => \/ alerts' = Append(alerts, Item("moved", j.t, j.cur, j.p))
                         \/ UNCHANGED <<alerts, dirty, path>>
      BY DEF MoveDone
    <3> QED BY <2>2, <2>3, <3>2, <3>3, <3>4, <3>5, <3>6
  <2> QED BY <2>5, <2>8, <2>9, StepSaves
<1>2. ASSUME NEW u \in Torrents, Finish(u) \/ MetadataReceived(u) PROVE SaveInv'
  <2>1. PICK k \in {"finished", "metadata"} : alerts' = Append(alerts, Item(k, u, TRUE, NoPath))
    BY <1>2 DEF Finish, MetadataReceived
  <2>2. Item(k, u, TRUE, NoPath) \in Items /\ Item(k, u, TRUE, NoPath).kind # "saved"
    BY ItemType DEF Kinds, Item
  <2>3. /\ meta' \subseteq meta \cup {u} /\ dirty' = dirty \cup {u}
        /\ UNCHANGED <<path, hasty, jobs, batch, stored, stale, dialog, web, resume>>
    BY <1>2 DEF Finish, MetadataReceived
  <2>4. \A t, p : AlertsLeave(t, p) => AlertsLeave(t, p)'
    BY <2>1, <2>2, <2>3, AlertsAppended DEF SavedOf
  <2>5. \A t \in Torrents : Clean(t)' /\ ToBeListed(t)' => Clean(t) /\ ToBeListed(t) /\ Keeps(t)
    BY <2>3, <2>4 DEF Clean, ToBeListed, Keeps, BeingRemoved
  <2>6. LateSavesAreHasty'
    BY <2>3 DEF SaveInv, LateSavesAreHasty
  <2> QED BY <2>5, <2>6, StepSaves
<1>3. ASSUME NEW u \in Torrents, Progress(u) \/ Expire(u) PROVE SaveInv'
  <2>1. /\ dirty \subseteq dirty'
        /\ UNCHANGED <<meta, path, hasty, jobs, alerts, batch, stored, stale, dialog, web, resume>>
    BY <1>3 DEF Progress, Expire
  <2>2. \A t \in Torrents : Clean(t)' /\ ToBeListed(t)' => Clean(t) /\ ToBeListed(t) /\ Keeps(t)
    BY <2>1 DEF Clean, ToBeListed, Keeps, BeingRemoved, AlertsLeave, BatchLeaves
  <2>3. LateSavesAreHasty'
    BY <2>1 DEF SaveInv, LateSavesAreHasty
  <2> QED BY <2>2, <2>3, StepSaves
<1> QED BY <1>1, <1>2, <1>3 DEF Libtorrent

(* Steps that ask for resume data, and steps that do not. *)
LEMMA AskedSaves ==
    ASSUME IInv, SaveInv, NEW u \in Torrents, NEW c \in BOOLEAN, SaveResumeData(u, c),
           UNCHANGED <<meta, path, hasty, stored, stale, dialog, web>>,
           \A t \in Torrents, p \in Paths : BatchLeaves(t, p) => BatchLeaves(t, p)'
    PROVE  SaveInv'
<1>1. /\ LateSavesAreHasty'
      /\ \A t \in Torrents : Queued(jobs, {"save"}, t) => Queued(jobs', {"save"}, t)
      /\ \A t \in Torrents : t \notin dirty' =>
            \/ Queued(jobs', {"save"}, t) \/ Ends(alerts', t, path[t])
            \/ /\ t \notin dirty
               /\ NoSaves(alerts, t) => NoSaves(alerts', t)
               /\ Ends(alerts, t, path[t]) => Ends(alerts', t, path[t])
  BY SaveResumeDataSaves DEF SaveInv
<1>2. ASSUME NEW t \in Torrents, Clean(t)', ToBeListed(t)'
      PROVE  Saved(t)' \/ (Clean(t) /\ ToBeListed(t) /\ Keeps(t))
  <2>1. path[t] \in Paths /\ path'[t] = path[t]
    BY DEF IInv, TypeOK
  <2>2. t \notin dirty' /\ ToBeListed(t) /\ (BeingRemoved(t) => BeingRemoved(t)')
    BY <1>2 DEF Clean, ToBeListed, BeingRemoved
  <2>3. CASE Queued(jobs', {"save"}, t) \/ Ends(alerts', t, path[t])
    BY <2>1, <2>3 DEF Saved, AlertsLeave
  <2>4. CASE /\ t \notin dirty
             /\ NoSaves(alerts, t) => NoSaves(alerts', t)
             /\ Ends(alerts, t, path[t]) => Ends(alerts', t, path[t])
    <3>1. Clean(t)
      BY <1>2, <2>4 DEF Clean
    <3>2. AlertsLeave(t, path[t]) => AlertsLeave(t, path[t])'
      BY <2>1, <2>4 DEF AlertsLeave
    <3> QED BY <1>1, <2>1, <2>2, <3>1, <3>2 DEF Keeps
  <2> QED BY <1>1, <2>2, <2>3, <2>4
<1> QED BY <1>1, <1>2, StepSaves

LEMMA QuietSaves ==
    ASSUME IInv, SaveInv, dirty \subseteq dirty',
           UNCHANGED <<hasty, path, alerts>>,
           jobs' = jobs \/ \E u \in Torrents, p \in Paths : jobs' = Append(jobs, Item("move", u, TRUE, p)),
           \A t \in Torrents : Clean(t)' /\ ToBeListed(t)' => t \in meta /\ ToBeListed(t),
           \A t \in Torrents, p \in Paths : BatchLeaves(t, p) => BatchLeaves(t, p)',
           \A t \in Torrents : BeingRemoved(t) => BeingRemoved(t)'
    PROVE  SaveInv'
<1>0. jobs \in Seq(Items) /\ path \in [Torrents -> Paths]
  BY DEF IInv, TypeOK
<1>1. LateSavesAreHasty' /\ \A t : Queued(jobs, {"save"}, t) => Queued(jobs', {"save"}, t)
  <2>1. CASE jobs' = jobs
    BY <2>1 DEF SaveInv, LateSavesAreHasty
  <2>2. ASSUME NEW u \in Torrents, NEW p \in Paths, jobs' = Append(jobs, Item("move", u, TRUE, p))
        PROVE  LateSavesAreHasty' /\ \A t : Queued(jobs, {"save"}, t) => Queued(jobs', {"save"}, t)
    <3>1. Item("move", u, TRUE, p) \in Items /\ Item("move", u, TRUE, p).kind = "move"
      BY ItemType DEF Kinds, Item
    <3>2. PICK x \in Items : x = Item("move", u, TRUE, p) /\ x.kind = "move"
      BY <3>1
    <3>3. jobs' = Append(jobs, x)
      BY <2>2, <3>2
    <3>4. \A i \in DOMAIN jobs' : (i \in DOMAIN jobs /\ jobs'[i] = jobs[i]) \/ jobs'[i] = x
      BY <1>0, <3>3
    <3>5. LateSavesAreHasty'
      BY <3>2, <3>4 DEF SaveInv, LateSavesAreHasty
    <3> QED BY <1>0, <3>2, <3>3, <3>5, AppendQueued
  <2> QED BY <2>1, <2>2
<1>2. ASSUME NEW t \in Torrents, Clean(t)', ToBeListed(t)'
      PROVE  Clean(t) /\ ToBeListed(t) /\ Keeps(t)
  <2>1. Clean(t) /\ ToBeListed(t)
    BY <1>2 DEF Clean
  <2>2. path[t] \in Paths
    BY <1>0
  <2>3. AlertsLeave(t, path[t]) => AlertsLeave(t, path[t])'
    BY <2>2 DEF AlertsLeave
  <2> QED BY <1>1, <2>1, <2>3 DEF Keeps
<1> QED BY <1>1, <1>2, StepSaves

(* A torrent comes into the session: it has everything to save. *)
LEMMA AdditionSaves ==
    ASSUME IInv, SaveInv, NEW u \in Torrents, u \in dirty' \/ u \notin meta',
           UNCHANGED <<hasty, jobs, alerts, batch, resume>>,
           meta' \subseteq meta \cup {u}, dirty \subseteq dirty',
           \A t \in Torrents \ {u} : path'[t] = path[t],
           \A t \in Torrents \ {u} : ToBeListed(t)' => ToBeListed(t),
           \A t \in Torrents \ {u} : BeingRemoved(t) => BeingRemoved(t)'
    PROVE  SaveInv'
<1>1. LateSavesAreHasty'
  BY DEF SaveInv, LateSavesAreHasty
<1>2. ASSUME NEW t \in Torrents, Clean(t)', ToBeListed(t)'
      PROVE  Clean(t) /\ ToBeListed(t) /\ Keeps(t)
  <2>1. t # u /\ Clean(t)
    BY <1>2 DEF Clean
  <2> QED BY <1>2, <2>1 DEF Keeps, AlertsLeave, BatchLeaves
<1> QED BY <1>1, <1>2, StepSaves

(* The steps of the GUI thread. *)
LEMMA GuiSaves ==
    ASSUME IInv, SaveInv, Gui
    PROVE  SaveInv'
<1> USE ConstantsAssumption DEF closeVars, torrentVars, queueVars, storeVars, webVars, fileVars
<1>0. /\ stored \subseteq Torrents /\ meta \subseteq live
      /\ path \in [Torrents -> Paths] /\ resume \in [Torrents -> ResumeData \cup {None}]
      /\ dialog \in [Torrents -> {"closed", "waiting", "offered", "error", "lost"}]
  BY DEF IInv, TypeOK
<1>1. CASE InitSession
  <2>1. meta' = dirty' /\ jobs' = <<>>
    BY <1>1 DEF InitSession, IInv, DownIsEmpty
  <2> QED BY <2>1 DEF SaveInv, CleanAreSaved, Clean, LateSavesAreHasty
<1>2. CASE PopAlerts
  <2>1. /\ batch = <<>> /\ batch' = alerts /\ alerts' = <<>>
        /\ UNCHANGED <<meta, dirty, hasty, path, jobs, stored, stale, dialog, web, resume>>
    BY <1>2 DEF PopAlerts, GuiIdle
  <2>2. \A t, p : AlertsLeave(t, p) => AlertsLeave(t, p)'
    BY <2>1, EmptySaves DEF AlertsLeave, BatchLeaves
  <2>3. \A t \in Torrents : Clean(t)' /\ ToBeListed(t)' => Clean(t) /\ ToBeListed(t) /\ Keeps(t)
    BY <2>1, <2>2 DEF Clean, ToBeListed, Keeps, BeingRemoved
  <2>4. LateSavesAreHasty'
    BY <2>1 DEF SaveInv, LateSavesAreHasty
  <2> QED BY <2>3, <2>4, StepSaves
<1>3. CASE HandleAlert
  <2> DEFINE a == Head(batch)
  <2>1. a \in Items
    BY <1>3, TailItem DEF HandleAlert, IInv, TypeOK, HandlesCurrent
  <2>2. a.t \in Torrents /\ a.cur \in BOOLEAN
    BY <2>1 DEF Items
  <2>3. /\ batch # <<>> /\ batch' = Tail(batch)
        /\ resume' = IF Head(batch).kind = "saved" THEN ResumeAfter(Head(batch)) ELSE resume
        /\ UNCHANGED <<meta, path, hasty, stored, stale, dialog, web>>
        /\ SaveResumeData(a.t, a.cur) \/ UNCHANGED <<dirty, jobs, alerts>>
    BY <1>3 DEF HandleAlert
  <2>4. \A t \in Torrents, p \in Paths : BatchLeaves(t, p) => BatchLeaves(t, p)'
    BY <2>3, HandledSaves
  <2> HIDE DEF a
  <2>5. CASE SaveResumeData(a.t, a.cur)
    BY <2>2, <2>3, <2>4, <2>5, AskedSaves
  <2>6. CASE UNCHANGED <<dirty, jobs, alerts>>
    <3>1. \A t \in Torrents : /\ Clean(t)' /\ ToBeListed(t)' => t \in meta /\ ToBeListed(t)
                              /\ BeingRemoved(t) => BeingRemoved(t)'
      BY <2>3 DEF Clean, ToBeListed, BeingRemoved
    <3> QED BY <2>3, <2>4, <2>6, <3>1, QuietSaves
  <2> QED BY <2>3, <2>5, <2>6
<1>4. CASE DeliverRemove
  <2>1. /\ stored' \ stale' \subseteq stored \ stale
        /\ UNCHANGED <<meta, dirty, hasty, path, jobs, alerts, batch, dialog, web, resume>>
    BY <1>4 DEF DeliverRemove, StorageRemove
  <2> QED BY <2>1, QuietSaves DEF Clean, ToBeListed, BeingRemoved, BatchLeaves
<1>5. ASSUME NEW u \in Torrents, NEW p \in Paths, NEW g \in Groups, AddTorrent(u, p, g)
      PROVE  SaveInv'
  <2>1. /\ meta' = meta \cup {u} /\ dirty' = dirty \cup {u}
        /\ path' = [path EXCEPT ![u] = AddedPath(u, p)]
        /\ stored' = stored \cup {u} /\ stale' = stale
        /\ UNCHANGED <<hasty, jobs, alerts, batch, dialog, web, resume>>
    BY <1>5 DEF AddTorrent, AddToSession, StorageAppend
  <2>2. \A t \in Torrents \ {u} : path'[t] = path[t]
    BY <1>0, <2>1
  <2>3. \A t \in Torrents \ {u} : /\ ToBeListed(t)' => ToBeListed(t)
                                  /\ BeingRemoved(t) => BeingRemoved(t)'
    BY <2>1 DEF ToBeListed, BeingRemoved
  <2> QED BY <2>1, <2>2, <2>3, AdditionSaves
<1>6. ASSUME NEW u \in Torrents, RemoveTorrent(u) PROVE SaveInv'
  <2>1. /\ RemoveFromSession(u)
        /\ stored' \ stale' \subseteq stored \ stale
        /\ resume' = [resume EXCEPT ![u] = None]
        /\ dialog' = DialogLoses(u) /\ web' = WebLoses(u)
    BY <1>6 DEF RemoveTorrent, StorageRemove, RemoveFiles
  <2>2. \A t \in Torrents \ {u} : resume'[t] = resume[t] /\ dialog'[t] = dialog[t]
    BY <1>0, <2>1 DEF DialogLoses
  <2>3. \A t \in Torrents \ {u} : /\ ToBeListed(t)' => ToBeListed(t)
                                  /\ BeingRemoved(t) => BeingRemoved(t)'
    BY <2>1, <2>2 DEF ToBeListed, BeingRemoved, WebLoses
  <2> QED BY <2>1, <2>2, <2>3, RemovalSaves
<1>7. ASSUME NEW u \in Torrents, NEW g \in Groups, SetGroup(u, g) PROVE SaveInv'
  <2>1. /\ UNCHANGED <<meta, path, hasty, batch, stored, stale, dialog, web, resume>>
        /\ SaveResumeData(u, u \notin stale) \/ UNCHANGED <<dirty, jobs, alerts>>
    BY <1>7 DEF SetGroup
  <2>2. \A t \in Torrents, p \in Paths : BatchLeaves(t, p) => BatchLeaves(t, p)'
    BY <2>1 DEF BatchLeaves
  <2>3. CASE SaveResumeData(u, u \notin stale)
    BY <2>1, <2>2, <2>3, AskedSaves
  <2>4. CASE UNCHANGED <<dirty, jobs, alerts>>
    BY <2>1, <2>2, <2>4, QuietSaves DEF Clean, ToBeListed, BeingRemoved
  <2> QED BY <2>1, <2>3, <2>4
<1>8. ASSUME NEW u \in Torrents, NEW p \in Paths, MoveStorrage(u, p) PROVE SaveInv'
  <2>1. /\ jobs' = Append(jobs, Item("move", u, TRUE, p))
        /\ UNCHANGED <<meta, dirty, hasty, path, alerts, batch, stored, stale, dialog, web, resume>>
    BY <1>8 DEF MoveStorrage
  <2> QED BY <2>1, QuietSaves DEF Clean, ToBeListed, BeingRemoved, BatchLeaves
<1>9. ASSUME NEW u \in Torrents, NEW p \in Paths, NEW g \in Groups, AddMagnet(u, p, g)
      PROVE  SaveInv'
  <2>1. /\ dialog[u] = "offered" /\ dialog' = [dialog EXCEPT ![u] = "closed"]
        /\ jobs' = Append(jobs, Item("move", u, TRUE, p)) \/ jobs' = jobs
        /\ stored' \subseteq stored \cup {u} /\ stale' = stale
        /\ UNCHANGED <<meta, dirty, hasty, path, alerts, batch, web, resume>>
    BY <1>9 DEF AddMagnet, StorageAppend
  <2>2. \A t \in Torrents : ToBeListed(t)' => ToBeListed(t)
    BY <1>0, <2>1 DEF ToBeListed
  <2> QED BY <2>1, <2>2, QuietSaves DEF Clean, BeingRemoved, BatchLeaves
<1>10. ASSUME NEW u \in Torrents, ProcessMagnetLink(u) PROVE SaveInv'
  <2>1. UNCHANGED <<hasty, jobs, alerts, batch, stored, stale, web, resume>>
    BY <1>10 DEF ProcessMagnetLink
  <2>2. CASE u \in live
    <3>1. dialog' = [dialog EXCEPT ![u] = "error"] /\ UNCHANGED <<meta, dirty, path>>
      BY <1>10, <2>2 DEF ProcessMagnetLink
    <3>2. \A t \in Torrents : ToBeListed(t)' => ToBeListed(t)
      BY <1>0, <2>1, <3>1 DEF ToBeListed
    <3> QED BY <2>1, <3>1, <3>2, QuietSaves DEF Clean, BeingRemoved, BatchLeaves
  <2>3. CASE u \notin live
    <3>1. /\ dialog' = [dialog EXCEPT ![u] = "waiting"] /\ dirty \subseteq dirty'
          /\ path' = [path EXCEPT ![u] = NoPath]
          /\ meta' \subseteq meta \cup {u}
          /\ u \in dirty' \/ meta' = meta
      BY <1>10, <2>3 DEF ProcessMagnetLink
    <3>2. /\ u \in dirty' \/ u \notin meta'
          /\ \A t \in Torrents \ {u} : path'[t] = path[t] /\ dialog'[t] = dialog[t]
      BY <1>0, <2>3, <3>1
    <3>3. \A t \in Torrents \ {u} : /\ ToBeListed(t)' => ToBeListed(t)
                                    /\ BeingRemoved(t) => BeingRemoved(t)'
      BY <2>1, <3>2 DEF ToBeListed, BeingRemoved
    <3> QED BY <2>1, <3>1, <3>2, <3>3, AdditionSaves
  <2> QED BY <2>2, <2>3
<1>11. ASSUME NEW u \in Torrents, DownloadMetadataCompleted(u) \/ MagnetError(u) PROVE SaveInv'
  <2>1. /\ UNCHANGED <<meta, dirty, hasty, path, jobs, alerts, batch, stored, stale, web, resume>>
        /\ \/ dialog' = [dialog EXCEPT ![u] = "closed"]
           \/ dialog[u] = "waiting" /\ dialog' = [dialog EXCEPT ![u] = "offered"]
    BY <1>11 DEF DownloadMetadataCompleted, MagnetError
  <2>2. \A t \in Torrents : ToBeListed(t)' => ToBeListed(t)
    BY <1>0, <2>1 DEF ToBeListed
  <2> QED BY <2>1, <2>2, QuietSaves DEF Clean, BeingRemoved, BatchLeaves
<1>12. ASSUME NEW u \in Torrents, CancelMagnetLink(u) PROVE SaveInv'
  <2>1. /\ stored' = stored /\ resume' = resume /\ dialog' = [dialog EXCEPT ![u] = "closed"]
    BY <1>12 DEF CancelMagnetLink
  <2>2. CASE u \in live
    <3>1. RemoveFromSession(u) /\ stale' = EntryLoses(u) /\ web' = WebLoses(u)
      BY <1>12, <2>2 DEF CancelMagnetLink
    <3>2. \A t \in Torrents \ {u} : /\ ToBeListed(t)' => ToBeListed(t)
                                    /\ BeingRemoved(t) => BeingRemoved(t)'
      BY <1>0, <2>1, <3>1 DEF ToBeListed, BeingRemoved, WebLoses, EntryLoses
    <3> QED BY <2>1, <3>1, <3>2, RemovalSaves
  <2>3. CASE u \notin live
    <3>1. UNCHANGED <<meta, dirty, hasty, path, jobs, alerts, batch, stale, web>>
      BY <1>12, <2>3 DEF CancelMagnetLink
    <3>2. \A t \in Torrents : ToBeListed(t)' => ToBeListed(t)
      BY <1>0, <2>1, <3>1 DEF ToBeListed
    <3> QED BY <2>1, <3>1, <3>2, QuietSaves DEF Clean, BeingRemoved, BatchLeaves
  <2> QED BY <2>2, <2>3
<1> QED BY <1>1, <1>2, <1>3, <1>4, <1>5, <1>6, <1>7, <1>8, <1>9, <1>10, <1>11, <1>12 DEF Gui

(* The steps of the one web thread there is. *)
LEMMA WebSaves ==
    ASSUME IInv, DiskInv, SaveInv, Web, Magnets = {}, \E w : WebThreads = {w}
    PROVE  SaveInv'
<1> USE ConstantsAssumption DEF closeVars, torrentVars, queueVars, storeVars, webVars, fileVars
<1>0. /\ stored \subseteq Torrents
      /\ resume \in [Torrents -> ResumeData \cup {None}]
      /\ path \in [Torrents -> Paths]
      /\ web \in [WebThreads -> [op : {"idle", "remove", "store", "copy"},
                                 t : Torrents \cup {None}, cur : BOOLEAN, g : Groups]]
  BY DEF IInv, TypeOK
<1>1. \A w \in WebThreads : web[w].op # "idle" => web[w].t \in Torrents
  BY DEF IInv, BusyHasTorrent
<1>2. WebIdle.op = "idle"
  BY DEF WebIdle
<1>3. ASSUME NEW w \in WebThreads, WebRemoveSession(w) PROVE SaveInv'
  <2>1. PICK u \in Torrents : u = web[w].t
    BY <1>1, <1>3 DEF WebRemoveSession
  <2>2. stored' = stored /\ resume' = resume /\ web[w].op = "remove"
    BY <1>3 DEF WebRemoveSession
  <2>3. CASE web[w].cur \/ u \in zombie
    <3>1. /\ RemoveFromSession(u) /\ stale' = EntryLoses(u) /\ dialog' = DialogLoses(u)
          /\ web' = [WebLoses(u) EXCEPT ![w] = WebIdle]
      BY <1>3, <2>1, <2>3 DEF WebRemoveSession
    <3>2. /\ web'[w].op = "idle"
          /\ \A v \in WebThreads \ {w} : web[v].t # u => web'[v] = web[v]
          /\ \A v \in WebThreads \ {w} : web[v].t = u => web'[v] = [web[v] EXCEPT !.cur = FALSE]
      BY <3>1, <1>2 DEF WebLoses
    <3>3. \A v \in WebThreads \ {w} : web[v].t = u => web'[v].t = u
      BY <1>0, <3>2
    <3>4. \A t \in Torrents \ {u} : dialog'[t] = dialog[t]
      BY <3>1 DEF DialogLoses, IInv, TypeOK
    <3>5. \A t \in Torrents \ {u} : ToBeListed(t)' => ToBeListed(t)
      BY <2>1, <2>2, <3>1, <3>2, <3>3, <3>4 DEF ToBeListed, EntryLoses
    <3>6. \A t \in Torrents \ {u} : BeingRemoved(t) => BeingRemoved(t)'
      BY <2>1, <3>2 DEF BeingRemoved
    <3> QED BY <2>2, <3>1, <3>5, <3>6, RemovalSaves
  <2>4. CASE ~(web[w].cur \/ u \in zombie)
    <3>1. /\ web' = [web EXCEPT ![w] = WebIdle]
          /\ UNCHANGED <<meta, dirty, path, hasty, jobs, alerts, batch, stale, dialog>>
      BY <1>3, <2>1, <2>4 DEF WebRemoveSession
    <3>2. web'[w].op = "idle" /\ \A v \in WebThreads \ {w} : web'[v] = web[v]
      BY <1>0, <1>2, <3>1
    <3>3. \A t \in Torrents : ToBeListed(t)' => ToBeListed(t)
      BY <2>2, <3>1, <3>2 DEF ToBeListed
    <3>4. \A t \in Torrents : BeingRemoved(t) => BeingRemoved(t)'
      BY <2>4, <3>2 DEF BeingRemoved
    <3> QED BY <2>2, <3>1, <3>3, <3>4, QuietSaves DEF Clean, BatchLeaves
  <2> QED BY <2>3, <2>4
<1>4. ASSUME NEW w \in WebThreads, WebAddStore(w) \/ WebAddCopy(w) PROVE SaveInv'
  <2>1. /\ UNCHANGED <<meta, dirty, path, hasty, jobs, alerts, batch, dialog, resume>>
        /\ web[w].op \in {"store", "copy"} /\ web'[w].op \in {"copy", "idle"}
        /\ \A v \in WebThreads \ {w} : web'[v] = web[v]
    <3>1. CASE WebAddStore(w)
      BY <1>0, <3>1 DEF WebAddStore
    <3>2. CASE WebAddCopy(w)
      BY <1>0, <1>2, <3>2 DEF WebAddCopy
    <3> QED BY <1>4, <3>1, <3>2
  <2>2. \A t \in stored' \ stale' : t \in stored \ stale
                                    \/ (web[w].op = "store" /\ web[w].t = t /\ web[w].cur)
    <3>1. CASE WebAddStore(w)
      BY <3>1 DEF WebAddStore
    <3>2. CASE WebAddCopy(w)
      BY <3>2 DEF WebAddCopy
    <3> QED BY <1>4, <3>1, <3>2
  <2>3. \A t \in Torrents : ToBeListed(t)' => ToBeListed(t)
    BY <2>1, <2>2 DEF ToBeListed
  <2>4. \A t \in Torrents : BeingRemoved(t) => BeingRemoved(t)'
    BY <2>1 DEF BeingRemoved
  <2> QED BY <2>1, <2>3, <2>4, QuietSaves DEF Clean, BatchLeaves
<1>5. ASSUME NEW w \in WebThreads, NEW u \in Torrents, WebRemoveFiles(w, u) PROVE SaveInv'
  <2> DEFINE r == [op |-> "remove", t |-> u, cur |-> u \notin stale, g |-> NoGroup]
  <2>1. /\ web' = [web EXCEPT ![w] = r] /\ web[w].op = "idle"
        /\ resume' = [resume EXCEPT ![u] = None]
        /\ UNCHANGED <<meta, dirty, path, hasty, jobs, alerts, batch, stored, stale, dialog>>
    BY <1>5 DEF WebRemoveFiles, RemoveFiles
  <2>2. web'[w] = r /\ \A v \in WebThreads \ {w} : web'[v] = web[v]
    BY <1>0, <2>1
  <2>3. web'[w].op = "remove" /\ web'[w].t = u /\ (u \notin stale => web'[w].cur)
    <3>1. r.op = "remove" /\ r.t = u
      OBVIOUS
    <3>2. r.cur = (u \notin stale)
      OBVIOUS
    <3>3. web'[w].cur = r.cur /\ web'[w].op = r.op /\ web'[w].t = r.t
      BY <2>2
    <3> QED BY <3>1, <3>2, <3>3
  <2> HIDE DEF r
  <2>4. u \in stale => ~ToBeListed(u)'
    <3>1. WebThreads = {w} /\ dialog[u] = "closed"
      BY DEF DiskInv, DialogsOfMagnets
    <3> QED BY <2>1, <2>3, <3>1 DEF ToBeListed
  <2>5. u \notin stale => BeingRemoved(u)'
    BY <2>3 DEF BeingRemoved
  <2>6. ASSUME NEW t \in Torrents, t # u PROVE (ToBeListed(t)' => ToBeListed(t)) /\ Keeps(t)
    <3>1. resume'[t] = resume[t]
      BY <1>0, <2>1, <2>6
    <3>2. ToBeListed(t)' => ToBeListed(t)
      BY <2>1, <2>2, <2>3 DEF ToBeListed
    <3>3. BeingRemoved(t) => BeingRemoved(t)'
      BY <2>1, <2>2 DEF BeingRemoved
    <3> QED BY <2>1, <3>1, <3>2, <3>3 DEF Keeps, AlertsLeave, BatchLeaves
  <2>7. LateSavesAreHasty'
    BY <2>1 DEF SaveInv, LateSavesAreHasty
  <2>8. \A t \in Torrents : Clean(t)' => Clean(t)
    BY <2>1 DEF Clean
  <2>9. BeingRemoved(u)' => Saved(u)'
    BY DEF Saved
  <2>10. ASSUME NEW t \in Torrents, Clean(t)', ToBeListed(t)'
         PROVE  Saved(t)' \/ (Clean(t) /\ ToBeListed(t) /\ Keeps(t))
    BY <2>4, <2>5, <2>6, <2>8, <2>9, <2>10
  <2> QED BY <2>7, <2>10, StepSaves
<1>6. ASSUME NEW w \in WebThreads, NEW u \in Torrents, NEW p \in Paths, WebAddSession(w, u, p)
      PROVE  SaveInv'
  <2> DEFINE r == [op |-> "store", t |-> u, cur |-> TRUE, g |-> AddedGroup(u, NoGroup)]
  <2>1. /\ meta' = meta \cup {u} /\ dirty' = dirty \cup {u}
        /\ path' = [path EXCEPT ![u] = AddedPath(u, p)]
        /\ web' = [web EXCEPT ![w] = r] /\ web[w].op = "idle"
        /\ UNCHANGED <<hasty, jobs, alerts, batch, stored, stale, dialog, resume>>
    BY <1>6 DEF WebAddSession, AddToSession
  <2>2. web'[w] = r /\ \A v \in WebThreads \ {w} : web'[v] = web[v]
    BY <1>0, <2>1
  <2>3. web'[w].t = u
    BY <2>2
  <2> HIDE DEF r
  <2>4. \A t \in Torrents \ {u} : path'[t] = path[t]
    BY <1>0, <2>1
  <2>5. \A t \in Torrents \ {u} : ToBeListed(t)' => ToBeListed(t)
    BY <2>1, <2>2, <2>3 DEF ToBeListed
  <2>6. \A t \in Torrents \ {u} : BeingRemoved(t) => BeingRemoved(t)'
    BY <2>1, <2>2 DEF BeingRemoved
  <2> QED BY <2>1, <2>4, <2>5, <2>6, AdditionSaves
<1> QED BY <1>3, <1>4, <1>5, <1>6 DEF Web

(* onClose, an exit and a crash. *)
LEMMA ClosingSaves ==
    ASSUME IInv, SaveInv, Closing \/ Crash \/ UNCHANGED vars
    PROVE  SaveInv'
<1> USE ConstantsAssumption DEF closeVars, torrentVars, queueVars, storeVars, webVars, fileVars
<1>1. CASE CloseStart \/ CloseWait \/ UNCHANGED vars
  <2>1. UNCHANGED <<meta, dirty, path, hasty, jobs, alerts, batch, stored, stale, dialog, web, resume>>
    BY <1>1 DEF CloseStart, CloseWait, vars
  <2> QED BY <2>1, QuietSaves DEF Clean, ToBeListed, BeingRemoved, BatchLeaves
<1>2. CASE ClosePop
  <2>1. /\ batch = <<>> /\ batch' = alerts /\ alerts' = <<>>
        /\ UNCHANGED <<meta, dirty, hasty, path, jobs, stored, stale, dialog, web, resume>>
    BY <1>2 DEF ClosePop
  <2>2. \A t, p : AlertsLeave(t, p) => AlertsLeave(t, p)'
    BY <2>1, EmptySaves DEF AlertsLeave, BatchLeaves
  <2>3. \A t \in Torrents : Clean(t)' /\ ToBeListed(t)' => Clean(t) /\ ToBeListed(t) /\ Keeps(t)
    BY <2>1, <2>2 DEF Clean, ToBeListed, Keeps, BeingRemoved
  <2>4. LateSavesAreHasty'
    BY <2>1 DEF SaveInv, LateSavesAreHasty
  <2> QED BY <2>3, <2>4, StepSaves
<1>3. CASE CloseHandle
  <2>1. /\ batch # <<>> /\ batch' = Tail(batch)
        /\ resume' = IF Head(batch).kind = "saved" THEN ResumeAfter(Head(batch)) ELSE resume
        /\ UNCHANGED <<meta, dirty, path, hasty, jobs, alerts, stored, stale, dialog, web>>
    BY <1>3 DEF CloseHandle
  <2>2. \A t \in Torrents, p \in Paths : BatchLeaves(t, p) => BatchLeaves(t, p)'
    BY <2>1, HandledSaves
  <2>3. \A t \in Torrents : /\ Clean(t)' /\ ToBeListed(t)' => t \in meta /\ ToBeListed(t)
                            /\ BeingRemoved(t) => BeingRemoved(t)'
    BY <2>1 DEF Clean, ToBeListed, BeingRemoved
  <2> QED BY <2>1, <2>2, <2>3, QuietSaves
<1>4. CASE CloseDone \/ Crash
  <2>1. meta' = {} /\ jobs' = <<>>
    BY <1>4 DEF CloseDone, Crash, Gone
  <2> QED BY <2>1 DEF SaveInv, CleanAreSaved, Clean, LateSavesAreHasty
<1>5. ASSUME NEW u \in Torrents, CloseAsk(u) PROVE SaveInv'
  <2>1. /\ SaveResumeData(u, TRUE)
        /\ UNCHANGED <<meta, path, hasty, batch, stored, stale, dialog, web, resume>>
    BY <1>5 DEF CloseAsk
  <2>2. \A t \in Torrents, p \in Paths : BatchLeaves(t, p) => BatchLeaves(t, p)'
    BY <2>1 DEF BatchLeaves
  <2> QED BY <2>1, <2>2, AskedSaves
<1> QED BY <1>1, <1>2, <1>3, <1>4, <1>5 DEF Closing

(* One thread at most works on the session besides the GUI's.              *)
OneOtherThread == WebThreads = {} \/ (Magnets = {} /\ \E w : WebThreads = {w})

(* SaveInv is inductive next to the other invariants. *)
LEMMA SaveInvariance ==
    ASSUME OneOtherThread PROVE Spec => []SaveInv
<1>1. ASSUME Init PROVE SaveInv
  BY <1>1 DEF Init, SaveInv, CleanAreSaved, Clean, LateSavesAreHasty
<1>2. ASSUME IInv, DiskInv, SaveInv, [Next]_vars PROVE SaveInv'
  <2>1. Web => SaveInv'
    <3>1. CASE WebThreads = {}
      BY <3>1 DEF Web
    <3>2. CASE Magnets = {} /\ \E w : WebThreads = {w}
      BY <1>2, <3>2, WebSaves
    <3> QED BY <3>1, <3>2 DEF OneOtherThread
  <2> QED BY <1>2, <2>1, LibtorrentSaves, GuiSaves, ClosingSaves DEF Next
<1>3. Magnets = {} \/ WebThreads = {}
  BY DEF OneOtherThread
<1>4. Spec => []DiskInv
  BY <1>3, DiskInvariance
<1> QED BY <1>1, <1>2, <1>4, Invariance, PTL DEF Spec

(* CleanMeansSaved: a listed torrent that reports nothing to save has the  *)
(* path it has now in its .resume file, or in a save that onClose or the   *)
(* alert handler of TorrentManager will write there, for any number of     *)
(* torrents and paths and queues of any length; with magnet links, or with *)
(* one thread of the web server, though not with both or with two threads. *)
THEOREM CleanIsSaved ==
    ASSUME WebThreads = {} \/ (Magnets = {} /\ \E w : WebThreads = {w})
    PROVE  Spec => []CleanMeansSaved
<1>1. ASSUME IInv, SaveInv PROVE CleanMeansSaved
  <2> SUFFICES ASSUME NEW t \in ((stored \ (stale \cup hasty)) \cap meta) \ dirty
               PROVE  \/ SaveInFlight(t)
                      \/ resume[t] # None /\ resume[t].path = path[t]
                      \/ \E w \in WebThreads : web[w].t = t /\ web[w].op = "remove"
    BY DEF CleanMeansSaved
  <2>1. t \in Torrents /\ Clean(t) /\ ToBeListed(t)
    BY <1>1 DEF IInv, TypeOK, Clean, ToBeListed
  <2>2. \A q, p : Ends(q, t, p) => Queued(q, {"saved"}, t)
    BY DEF Ends, Queued, SavedOf
  <2>3. Saved(t)
    BY <1>1, <2>1 DEF SaveInv, CleanAreSaved
  <2> QED BY <2>2, <2>3 DEF Saved, AlertsLeave, BatchLeaves, BeingRemoved, SaveInFlight
<1>2. Spec => []SaveInv
  BY SaveInvariance DEF OneOtherThread
<1> QED BY <1>1, <1>2, Invariance, PTL
-----------------------------------------------------------------------------
(* An exit and the next start *)

(* What is listed, or will be, has its metadata, so that onClose can save it. *)
ListedHasMeta ==
    /\ stored \ stale \subseteq meta
    /\ \A w \in WebThreads : web[w].op = "store" /\ web[w].cur => web[w].t \in meta

(* The disk queue holds the jobs of save_resume_data and move_storage. *)
JobKinds == \A i \in DOMAIN jobs : jobs[i].kind \in {"save", "move"}

(* The first n entries of q are no answers to save_resume_data, the others are. *)
AnswersAfter(q, n) ==
    /\ n \in Nat /\ n <= Len(q)
    /\ \A i \in DOMAIN q : q[i].kind \in {"saved", "failed"} <=> i > n

(* The counter of onClose stands for as many answers as are to come. *)
Counted ==
    \E m, n : /\ AnswersAfter(alerts, m) /\ AnswersAfter(batch, n)
              /\ outstanding = Len(jobs) + (Len(alerts) - m) + (Len(batch) - n)

(* While onClose runs that began with nothing in flight, the files and     *)
(* what it asks for are all that is needed of the listed torrents.         *)
CleanExit ==
    phase \in {"saving", "draining"} =>
        /\ \A w \in WebThreads : web[w].op = "idle"
        /\ clean => /\ stored \ stale \subseteq torrentFile
                    /\ dirty \cap meta \subseteq toSave
                    /\ \A i \in DOMAIN jobs : jobs[i].kind = "save"
                    /\ Counted

(* After it the files have what the next start needs. *)
PathsOnDisk ==
    phase = "down" /\ snap # None =>
        \A t \in snap.stored :
            t \in torrentFile /\ resume[t] # None /\ resume[t].path = snap.path[t]

GroupsOnDisk ==
    phase = "down" /\ snap # None =>
        \A t \in snap.stored :
            t \in torrentFile /\ resume[t] # None /\ resume[t].group = snap.group[t]

(* All that a step may do to the disk queue. *)
LEMMA JobSteps ==
    ASSUME IInv, [Next]_vars
    PROVE  \/ jobs' = jobs \/ jobs' = <<>>
           \/ jobs # <<>> /\ jobs' = Tail(jobs)
           \/ \E k \in {"save", "move"}, u \in Torrents, p \in Paths :
                 jobs' = Append(jobs, Item(k, u, TRUE, p))
           \/ \E u \in Torrents : jobs' = Orphan(jobs, u)
<1> USE ConstantsAssumption DEF closeVars, torrentVars, queueVars, storeVars, webVars, fileVars
<1>0. ASSUME NEW u \in Torrents, NEW c \in BOOLEAN, SaveResumeData(u, c)
      PROVE  jobs' = jobs \/ jobs' = Append(jobs, Item("save", u, TRUE, NoPath))
  BY <1>0 DEF SaveResumeData
<1>1. CASE Libtorrent
  BY <1>1 DEF Libtorrent, RunJob, Finish, Progress, MetadataReceived, Expire
<1>2. CASE Gui
  <2>1. CASE HandleAlert
    <3>1. Head(batch) \in Items
      BY <2>1, TailItem DEF HandleAlert, IInv, TypeOK, HandlesCurrent
    <3>2. Head(batch).t \in Torrents /\ Head(batch).cur \in BOOLEAN
      BY <3>1 DEF Items
    <3>3. SaveResumeData(Head(batch).t, Head(batch).cur) \/ jobs' = jobs
      BY <2>1 DEF HandleAlert
    <3> QED BY <1>0, <3>2, <3>3
  <2>2. CASE InitSession \/ PopAlerts \/ DeliverRemove
    BY <2>2 DEF InitSession, PopAlerts, DeliverRemove
  <2>3. ASSUME NEW u \in Torrents, NEW p \in Paths, NEW g \in Groups,
               AddTorrent(u, p, g) \/ AddMagnet(u, p, g) \/ MoveStorrage(u, p)
        PROVE  jobs' = jobs \/ jobs' = Append(jobs, Item("move", u, TRUE, p))
    BY <2>3 DEF AddTorrent, AddMagnet, MoveStorrage
  <2>4. ASSUME NEW u \in Torrents, NEW g \in Groups, SetGroup(u, g)
        PROVE  jobs' = jobs \/ jobs' = Append(jobs, Item("save", u, TRUE, NoPath))
    BY <1>0, <2>4 DEF SetGroup
  <2>5. ASSUME NEW u \in Torrents,
               \/ RemoveTorrent(u) \/ ProcessMagnetLink(u) \/ DownloadMetadataCompleted(u)
               \/ MagnetError(u) \/ CancelMagnetLink(u)
        PROVE  jobs' = jobs \/ jobs' = Orphan(jobs, u)
    BY <2>5 DEF RemoveTorrent, ProcessMagnetLink, DownloadMetadataCompleted, MagnetError,
       CancelMagnetLink, RemoveFromSession
  <2> QED BY <1>2, <2>1, <2>2, <2>3, <2>4, <2>5 DEF Gui
<1>3. CASE Web
  <2>1. ASSUME NEW w \in WebThreads, WebRemoveSession(w)
        PROVE  jobs' = jobs \/ \E u \in Torrents : jobs' = Orphan(jobs, u)
    <3>1. web[w].t \in Torrents
      BY <2>1 DEF WebRemoveSession, IInv, BusyHasTorrent
    <3> QED BY <2>1, <3>1 DEF WebRemoveSession, RemoveFromSession
  <2> QED BY <1>3, <2>1 DEF Web, WebAddStore, WebAddCopy, WebRemoveFiles, WebAddSession
<1>4. CASE Closing \/ Crash \/ UNCHANGED vars
  <2>1. ASSUME NEW u \in Torrents, CloseAsk(u)
        PROVE  jobs' = jobs \/ jobs' = Append(jobs, Item("save", u, TRUE, NoPath))
    BY <1>0, <2>1 DEF CloseAsk
  <2> QED BY <1>4, <2>1 DEF Closing, CloseStart, CloseWait, ClosePop, CloseHandle, CloseDone,
             Crash, Gone, vars
<1> QED BY <1>1, <1>2, <1>3, <1>4 DEF Next

(* No step puts anything else into the disk queue. *)
LEMMA StepKeepsJobKinds ==
    ASSUME IInv, JobKinds, [Next]_vars
    PROVE  JobKinds'
<1>0. jobs \in Seq(Items)
  BY DEF IInv, TypeOK
<1>1. CASE jobs' = jobs \/ jobs' = <<>>
  BY <1>1 DEF JobKinds
<1>2. CASE jobs # <<>> /\ jobs' = Tail(jobs)
  <2>1. \A i \in DOMAIN jobs' : i + 1 \in DOMAIN jobs /\ jobs'[i] = jobs[i + 1]
    BY <1>0, <1>2
  <2> QED BY <2>1 DEF JobKinds
<1>3. ASSUME NEW k \in {"save", "move"}, NEW u \in Torrents, NEW p \in Paths,
             jobs' = Append(jobs, Item(k, u, TRUE, p))
      PROVE  JobKinds'
  <2>1. Item(k, u, TRUE, p) \in Items /\ Item(k, u, TRUE, p).kind = k
    BY ItemType DEF Kinds, Item
  <2>2. PICK x \in Items : x = Item(k, u, TRUE, p) /\ x.kind = k
    BY <2>1
  <2>3. jobs' = Append(jobs, x)
    BY <1>3, <2>2
  <2>4. \A i \in DOMAIN jobs' : (i \in DOMAIN jobs /\ jobs'[i] = jobs[i]) \/ jobs'[i] = x
    BY <1>0, <2>3
  <2> QED BY <2>2, <2>4 DEF JobKinds
<1>4. ASSUME NEW u \in Torrents, jobs' = Orphan(jobs, u) PROVE JobKinds'
  <2>1. ASSUME NEW i \in DOMAIN jobs PROVE Orphan(jobs, u)[i].kind = jobs[i].kind
    <3>1. jobs[i] \in Items
      BY <1>0
    <3> QED BY <3>1 DEF Orphan, Items
  <2>2. DOMAIN jobs' = DOMAIN jobs
    BY <1>4 DEF Orphan
  <2> QED BY <1>4, <2>1, <2>2 DEF JobKinds
<1> QED BY <1>1, <1>2, <1>3, <1>4, JobSteps

(* A removal takes the torrent off whatever lists it or will. *)
LEMMA RemovalKeepsListed ==
    ASSUME IInv, ListedHasMeta, NEW u \in Torrents, RemoveFromSession(u),
           stored' \ stale' \subseteq (stored \ stale) \ {u},
           \A w \in WebThreads : \/ web'[w].op = "idle"
                                 \/ web'[w] = web[w] /\ web[w].t # u
                                 \/ web'[w] = [web[w] EXCEPT !.cur = FALSE]
    PROVE  ListedHasMeta'
<1>1. meta' = meta \ {u}
  BY DEF RemoveFromSession
<1>2. \A w \in WebThreads : ~[web[w] EXCEPT !.cur = FALSE].cur
  BY DEF IInv, TypeOK
<1> QED BY <1>1, <1>2 DEF ListedHasMeta

(* No step lists a torrent without metadata. *)
LEMMA StepKeepsListed ==
    ASSUME IInv, DiskInv, ListedHasMeta, [Next]_vars
    PROVE  ListedHasMeta'
<1> USE ConstantsAssumption DEF closeVars, torrentVars, queueVars, storeVars, webVars, fileVars
<1>0. /\ stored \subseteq Torrents
      /\ web \in [WebThreads -> [op : {"idle", "remove", "store", "copy"},
                                 t : Torrents \cup {None}, cur : BOOLEAN, g : Groups]]
  BY DEF IInv, TypeOK
<1>1. ASSUME meta \subseteq meta', stored' \ stale' \subseteq (stored \ stale) \cup meta', web' = web
      PROVE  ListedHasMeta'
  BY <1>1 DEF ListedHasMeta
<1>2. WebIdle.op = "idle"
  BY DEF WebIdle
<1>3. \A u, w : w \in WebThreads => \/ WebLoses(u)[w] = web[w] /\ web[w].t # u
                                    \/ WebLoses(u)[w] = [web[w] EXCEPT !.cur = FALSE]
  BY DEF WebLoses
<1>4. CASE Libtorrent
  BY <1>1, <1>4 DEF Libtorrent, RunJob, Finish, Progress, MetadataReceived, Expire
<1>5. CASE Gui
  <2>1. CASE InitSession
    <3>1. stored' \subseteq meta' /\ web' = web /\ \A w \in WebThreads : web[w].op = "idle"
      BY <1>2, <2>1 DEF InitSession, IInv, DownIsEmpty
    <3> QED BY <3>1 DEF ListedHasMeta
  <2>2. CASE PopAlerts \/ HandleAlert \/ DeliverRemove
    BY <1>1, <2>2 DEF PopAlerts, HandleAlert, DeliverRemove, StorageRemove
  <2>3. ASSUME NEW u \in Torrents, NEW p \in Paths, NEW g \in Groups,
               AddTorrent(u, p, g) \/ MoveStorrage(u, p) \/ SetGroup(u, g)
        PROVE  ListedHasMeta'
    BY <1>1, <2>3 DEF AddTorrent, AddToSession, StorageAppend, MoveStorrage, SetGroup
  <2>4. ASSUME NEW u \in Torrents, NEW p \in Paths, NEW g \in Groups, AddMagnet(u, p, g)
        PROVE  ListedHasMeta'
    <3>1. u \in meta
      BY <2>4 DEF AddMagnet, DiskInv, OfferedHasMeta
    <3> QED BY <1>1, <2>4, <3>1 DEF AddMagnet, StorageAppend
  <2>5. ASSUME NEW u \in Torrents,
               \/ ProcessMagnetLink(u) \/ DownloadMetadataCompleted(u) \/ MagnetError(u)
               \/ (CancelMagnetLink(u) /\ u \notin live)
        PROVE  ListedHasMeta'
    BY <1>1, <2>5 DEF ProcessMagnetLink, DownloadMetadataCompleted, MagnetError, CancelMagnetLink
  <2>6. ASSUME NEW u \in Torrents, RemoveTorrent(u) \/ (CancelMagnetLink(u) /\ u \in live)
        PROVE  ListedHasMeta'
    <3>1. RemoveFromSession(u) /\ web' = WebLoses(u)
      BY <2>6 DEF RemoveTorrent, CancelMagnetLink
    <3>2. stored' \ stale' \subseteq (stored \ stale) \ {u}
      BY <2>6 DEF RemoveTorrent, StorageRemove, CancelMagnetLink, EntryLoses
    <3> QED BY <1>3, <3>1, <3>2, RemovalKeepsListed
  <2> QED BY <1>5, <2>1, <2>2, <2>3, <2>4, <2>5, <2>6 DEF Gui
<1>6. CASE Web
  <2>1. ASSUME NEW w \in WebThreads, WebRemoveSession(w) PROVE ListedHasMeta'
    <3>1. PICK u \in Torrents : u = web[w].t
      BY <2>1 DEF WebRemoveSession, IInv, BusyHasTorrent
    <3>2. CASE web[w].cur \/ u \in zombie
      <4>1. /\ RemoveFromSession(u) /\ stored' = stored /\ stale' = EntryLoses(u)
            /\ web' = [WebLoses(u) EXCEPT ![w] = WebIdle]
        BY <2>1, <3>1, <3>2 DEF WebRemoveSession
      <4>2. DOMAIN WebLoses(u) = WebThreads
        BY DEF WebLoses
      <4>3. web'[w] = WebIdle /\ \A v \in WebThreads \ {w} : web'[v] = WebLoses(u)[v]
        BY <4>1, <4>2
      <4>4. \A v \in WebThreads : \/ web'[v].op = "idle"
                                  \/ web'[v] = web[v] /\ web[v].t # u
                                  \/ web'[v] = [web[v] EXCEPT !.cur = FALSE]
        BY <1>2, <1>3, <4>3
      <4>5. stored' \ stale' \subseteq (stored \ stale) \ {u}
        BY <4>1 DEF EntryLoses
      <4> QED BY <4>1, <4>4, <4>5, RemovalKeepsListed
    <3>3. CASE ~(web[w].cur \/ u \in zombie)
      <4>1. web' = [web EXCEPT ![w] = WebIdle] /\ UNCHANGED <<meta, stored, stale>>
        BY <2>1, <3>1, <3>3 DEF WebRemoveSession
      <4>2. web'[w].op = "idle" /\ \A v \in WebThreads \ {w} : web'[v] = web[v]
        BY <1>0, <1>2, <4>1
      <4> QED BY <4>1, <4>2 DEF ListedHasMeta
    <3> QED BY <3>2, <3>3
  <2>2. ASSUME NEW w \in WebThreads, WebAddStore(w) PROVE ListedHasMeta'
    <3>1. /\ web'[w].op = "copy" /\ \A v \in WebThreads \ {w} : web'[v] = web[v]
          /\ meta' = meta /\ web[w].op = "store"
      BY <1>0, <2>2 DEF WebAddStore
    <3>2. \A t \in stored' \ stale' : t \in stored \ stale \/ (t = web[w].t /\ web[w].cur)
      BY <2>2 DEF WebAddStore
    <3> QED BY <3>1, <3>2 DEF ListedHasMeta
  <2>3. ASSUME NEW w \in WebThreads, NEW u \in Torrents, WebRemoveFiles(w, u)
        PROVE  ListedHasMeta'
    <3>1. /\ web'[w].op # "store" /\ \A v \in WebThreads \ {w} : web'[v] = web[v]
          /\ UNCHANGED <<meta, stored, stale>>
      BY <1>0, <2>3 DEF WebRemoveFiles
    <3> QED BY <3>1 DEF ListedHasMeta
  <2>4. ASSUME NEW w \in WebThreads, NEW u \in Torrents, NEW p \in Paths, WebAddSession(w, u, p)
        PROVE  ListedHasMeta'
    <3>1. /\ web'[w].t = u /\ \A v \in WebThreads \ {w} : web'[v] = web[v]
          /\ meta' = meta \cup {u} /\ UNCHANGED <<stored, stale>>
      BY <1>0, <2>4 DEF WebAddSession, AddToSession
    <3> QED BY <3>1 DEF ListedHasMeta
  <2>5. ASSUME NEW w \in WebThreads, WebAddCopy(w) PROVE ListedHasMeta'
    <3>1. /\ web'[w].op # "store" /\ \A v \in WebThreads \ {w} : web'[v] = web[v]
          /\ UNCHANGED <<meta, stored, stale>>
      BY <1>0, <1>2, <2>5 DEF WebAddCopy
    <3> QED BY <3>1 DEF ListedHasMeta
  <2> QED BY <1>6, <2>1, <2>2, <2>3, <2>4, <2>5 DEF Web
<1>7. CASE Closing \/ UNCHANGED vars
  <2>1. CASE CloseDone
    <3>1. stored' = {} /\ \A w \in WebThreads : web'[w].op = "idle"
      BY <1>2, <2>1 DEF CloseDone, Gone
    <3> QED BY <3>1 DEF ListedHasMeta
  <2>2. CASE UNCHANGED <<meta, stored, stale, web>>
    BY <1>1, <2>2
  <2> QED BY <1>7, <2>1, <2>2 DEF Closing, CloseStart, CloseWait, ClosePop, CloseHandle, CloseAsk,
             vars
<1>8. CASE Crash
  <2>1. stored' = {} /\ \A w \in WebThreads : web'[w].op = "idle"
    BY <1>2, <1>8 DEF Crash, Gone
  <2> QED BY <2>1 DEF ListedHasMeta
<1> QED BY <1>4, <1>5, <1>6, <1>7, <1>8 DEF Next
-----------------------------------------------------------------------------
(* onClose's counter *)

(* An answer that is posted comes after all others. *)
LEMMA AppendAnswer ==
    ASSUME NEW q \in Seq(Items), NEW x \in Items, x.kind \in {"saved", "failed"},
           NEW n, AnswersAfter(q, n)
    PROVE  AnswersAfter(Append(q, x), n) /\ Len(Append(q, x)) = Len(q) + 1
<1> DEFINE r == Append(q, x)
<1>1. /\ DOMAIN r = 1 .. Len(q) + 1 /\ DOMAIN q = 1 .. Len(q) /\ Len(q) \in Nat
      /\ Len(r) = Len(q) + 1 /\ r[Len(q) + 1] = x /\ \A i \in DOMAIN q : r[i] = q[i]
  OBVIOUS
<1> HIDE DEF r
<1>2. n \in Nat /\ n <= Len(q) /\ \A i \in DOMAIN q : q[i].kind \in {"saved", "failed"} <=> i > n
  BY DEF AnswersAfter
<1>3. \A i \in DOMAIN r : i \in DOMAIN q \/ i = Len(q) + 1
  BY <1>1
<1>4. Len(q) + 1 > n /\ n <= Len(r)
  BY <1>1, <1>2
<1>5. ASSUME NEW i \in DOMAIN r PROVE r[i].kind \in {"saved", "failed"} <=> i > n
  <2>1. CASE i \in DOMAIN q
    BY <1>1, <1>2, <2>1
  <2>2. CASE i = Len(q) + 1
    BY <1>1, <1>4, <2>2
  <2> QED BY <1>3, <2>1, <2>2
<1> QED BY <1>1, <1>2, <1>4, <1>5 DEF AnswersAfter, r

(* One answer fewer is to come once one is taken. *)
LEMMA TailAnswer ==
    ASSUME NEW q \in Seq(Items), q # <<>>, NEW n, AnswersAfter(q, n)
    PROVE  \E m : /\ AnswersAfter(Tail(q), m)
                  /\ Len(Tail(q)) - m = IF Head(q).kind \in {"saved", "failed"}
                                        THEN (Len(q) - n) - 1 ELSE Len(q) - n
<1> DEFINE r == Tail(q)
           m == IF n = 0 THEN 0 ELSE n - 1
<1>1. /\ DOMAIN q = 1 .. Len(q) /\ Len(q) \in Nat \ {0} /\ Head(q) = q[1]
      /\ Len(r) = Len(q) - 1
      /\ DOMAIN r = 1 .. Len(q) - 1 /\ \A i \in DOMAIN r : r[i] = q[i + 1]
  OBVIOUS
<1>2. n \in Nat /\ n <= Len(q) /\ \A i \in DOMAIN q : q[i].kind \in {"saved", "failed"} <=> i > n
  BY DEF AnswersAfter
<1> HIDE DEF r
<1>3. m \in Nat /\ m <= Len(r)
  BY <1>1, <1>2
<1>4. \A i \in DOMAIN r : i + 1 \in DOMAIN q /\ (i + 1 > n <=> i > m)
  BY <1>1, <1>2
<1>5. (Head(q).kind \in {"saved", "failed"}) <=> n = 0
  <2>1. 1 \in DOMAIN q /\ (1 > n <=> n = 0)
    BY <1>1, <1>2
  <2> QED BY <1>1, <1>2, <2>1
<1>6. /\ n = 0 => Len(r) - m = (Len(q) - n) - 1
      /\ n # 0 => Len(r) - m = Len(q) - n
  BY <1>1, <1>2
<1>7. Len(r) - m = IF Head(q).kind \in {"saved", "failed"} THEN (Len(q) - n) - 1 ELSE Len(q) - n
  <2>1. CASE n = 0
    BY <1>5, <1>6, <2>1
  <2>2. CASE n # 0
    BY <1>5, <1>6, <2>2
  <2> QED BY <2>1, <2>2
<1> HIDE DEF m
<1>8. AnswersAfter(r, m)
  BY <1>1, <1>2, <1>3, <1>4 DEF AnswersAfter
<1> QED BY <1>7, <1>8 DEF r

(* Of an empty queue none is to come. *)
LEMMA EmptyAnswers == AnswersAfter(<<>>, 0) /\ \A n : AnswersAfter(<<>>, n) => n = 0
BY DEF AnswersAfter

(* A counter that says that nothing is to come is right. *)
LEMMA NothingToCome ==
    ASSUME IInv, Counted, outstanding <= 0
    PROVE  \A t : ~SaveInFlight(t) /\ NoSaves(alerts, t)
<1>0. jobs \in Seq(Items) /\ alerts \in Seq(Items) /\ batch \in Seq(Items)
  BY DEF IInv, TypeOK
<1>1. PICK m, n : /\ AnswersAfter(alerts, m) /\ AnswersAfter(batch, n)
                  /\ outstanding = Len(jobs) + (Len(alerts) - m) + (Len(batch) - n)
  BY DEF Counted
<1>2. m \in Nat /\ m <= Len(alerts) /\ n \in Nat /\ n <= Len(batch)
  BY <1>1 DEF AnswersAfter
<1>3. Len(jobs) \in Nat /\ Len(alerts) \in Nat /\ Len(batch) \in Nat
  BY <1>0
<1>4. Len(jobs) = 0 /\ Len(alerts) = m /\ Len(batch) = n
  BY <1>1, <1>2, <1>3
<1>5. /\ DOMAIN jobs = {} /\ \A i \in DOMAIN alerts : ~(i > m)
      /\ \A i \in DOMAIN batch : ~(i > n)
  BY <1>0, <1>4
<1>6. /\ \A i \in DOMAIN alerts : alerts[i].kind # "saved"
      /\ \A i \in DOMAIN batch : batch[i].kind # "saved"
  BY <1>1, <1>5 DEF AnswersAfter
<1> QED BY <1>5, <1>6 DEF SaveInFlight, Queued, NoSaves, SavedOf

(* save_resume_data on a torrent with metadata: one answer more to come. *)
LEMMA AskedCounted ==
    ASSUME IInv, Counted, NEW u \in meta, SaveResumeData(u, TRUE), batch' = batch,
           outstanding' = outstanding + 1
    PROVE  Counted'
<1> USE ConstantsAssumption
<1>0. /\ jobs \in Seq(Items) /\ alerts \in Seq(Items) /\ batch \in Seq(Items)
      /\ u \in Torrents /\ path \in [Torrents -> Paths]
  BY DEF IInv, TypeOK
<1>1. PICK m, n : /\ AnswersAfter(alerts, m) /\ AnswersAfter(batch, n)
                  /\ outstanding = Len(jobs) + (Len(alerts) - m) + (Len(batch) - n)
  BY DEF Counted
<1>2. m \in Nat /\ n \in Nat
  BY <1>1 DEF AnswersAfter
<1>3. Len(jobs) \in Nat /\ Len(alerts) \in Nat /\ Len(batch) \in Nat
  BY <1>0
<1>4. CASE \E x \in Items : jobs' = Append(jobs, x) /\ alerts' = alerts
  <2>1. Len(jobs') = Len(jobs) + 1
    BY <1>0, <1>4
  <2>2. outstanding' = Len(jobs') + (Len(alerts') - m) + (Len(batch') - n)
    BY <1>1, <1>2, <1>3, <1>4, <2>1
  <2> QED BY <1>1, <1>4, <2>2 DEF Counted
<1>5. CASE \E x \in Items : /\ x.kind \in {"saved", "failed"}
                            /\ jobs' = jobs /\ alerts' = Append(alerts, x)
  <2>1. AnswersAfter(alerts', m) /\ Len(alerts') = Len(alerts) + 1
    BY <1>0, <1>1, <1>5, AppendAnswer
  <2>2. outstanding' = Len(jobs') + (Len(alerts') - m) + (Len(batch') - n)
    BY <1>1, <1>2, <1>3, <1>5, <2>1
  <2> QED BY <1>1, <2>1, <2>2 DEF Counted
<1>6. /\ Item("save", u, TRUE, NoPath) \in Items
      /\ Item("saved", u, TRUE, path[u]) \in Items /\ Item("saved", u, TRUE, path[u]).kind = "saved"
  <2>1. path[u] \in Paths
    BY <1>0
  <2> QED BY <1>0, <2>1, ItemType DEF Kinds, Item
<1> QED BY <1>4, <1>5, <1>6 DEF SaveResumeData

(* A job of save_resume_data is done: its answer is in the other queue. *)
LEMMA RunCounted ==
    ASSUME IInv, Counted, RunJob, Head(jobs).kind = "save"
    PROVE  Counted'
<1> USE ConstantsAssumption DEF closeVars
<1>0. jobs \in Seq(Items) /\ alerts \in Seq(Items) /\ batch \in Seq(Items) /\ jobs # <<>>
  BY DEF IInv, TypeOK, RunJob
<1>1. PICK m, n : /\ AnswersAfter(alerts, m) /\ AnswersAfter(batch, n)
                  /\ outstanding = Len(jobs) + (Len(alerts) - m) + (Len(batch) - n)
  BY DEF Counted
<1>2. m \in Nat /\ n \in Nat
  BY <1>1 DEF AnswersAfter
<1>3. Len(jobs) \in Nat /\ Len(alerts) \in Nat /\ Len(batch) \in Nat
  BY <1>0
<1>4. PICK x \in Items : alerts' = Append(alerts, x) /\ x.kind \in {"saved", "failed"}
  <2>1. PICK j \in Items : j = Head(jobs)
    BY <1>0
  <2>2. j.t \in Torrents /\ j.cur \in BOOLEAN /\ j.p \in Paths
    BY <2>1 DEF Items
  <2>3. (IF j.cur THEN path[j.t] ELSE j.p) \in Paths
    BY <2>2 DEF IInv, TypeOK
  <2>4. PICK p \in Paths : p = IF j.cur THEN path[j.t] ELSE j.p
    BY <2>3
  <2>5. /\ Item("saved", j.t, j.cur, p) \in Items /\ Item("saved", j.t, j.cur, p).kind = "saved"
        /\ Item("failed", j.t, FALSE, NoPath) \in Items
        /\ Item("failed", j.t, FALSE, NoPath).kind = "failed"
    BY <2>2, ItemType DEF Kinds, Item
  <2>6. SaveDone(j)
    BY <2>1 DEF RunJob, MoveDone
  <2>7. \/ alerts' = Append(alerts, Item("saved", j.t, j.cur, p))
        \/ alerts' = Append(alerts, Item("failed", j.t, FALSE, NoPath))
    BY <2>4, <2>6 DEF SaveDone
  <2> QED BY <2>5, <2>7
<1>5. AnswersAfter(alerts', m) /\ Len(alerts') = Len(alerts) + 1
  BY <1>0, <1>1, <1>4, AppendAnswer
<1>6. Len(jobs') = Len(jobs) - 1 /\ outstanding' = outstanding /\ batch' = batch
  BY <1>0 DEF RunJob
<1>7. outstanding' = Len(jobs') + (Len(alerts') - m) + (Len(batch') - n)
  BY <1>1, <1>2, <1>3, <1>5, <1>6
<1> QED BY <1>1, <1>5, <1>6, <1>7 DEF Counted

(* An answer is handled, or an alert that is none. *)
LEMMA HandleCounted ==
    ASSUME IInv, Counted, CloseHandle
    PROVE  Counted'
<1>0. jobs \in Seq(Items) /\ alerts \in Seq(Items) /\ batch \in Seq(Items) /\ batch # <<>>
  BY DEF IInv, TypeOK, CloseHandle
<1>1. PICK m, n : /\ AnswersAfter(alerts, m) /\ AnswersAfter(batch, n)
                  /\ outstanding = Len(jobs) + (Len(alerts) - m) + (Len(batch) - n)
  BY DEF Counted
<1>2. m \in Nat /\ n \in Nat
  BY <1>1 DEF AnswersAfter
<1>3. Len(jobs) \in Nat /\ Len(alerts) \in Nat /\ Len(batch) \in Nat
  BY <1>0
<1>4. PICK k : /\ AnswersAfter(Tail(batch), k)
               /\ Len(Tail(batch)) - k = IF Head(batch).kind \in {"saved", "failed"}
                                         THEN (Len(batch) - n) - 1 ELSE Len(batch) - n
  BY <1>0, <1>1, TailAnswer
<1>5. /\ batch' = Tail(batch) /\ jobs' = jobs /\ alerts' = alerts
      /\ outstanding' = IF Head(batch).kind \in {"saved", "failed"}
                        THEN outstanding - 1 ELSE outstanding
  BY DEF CloseHandle
<1>6. k \in Nat /\ Len(Tail(batch)) \in Nat
  <2>1. Tail(batch) \in Seq(Items)
    BY <1>0
  <2> QED BY <1>4, <2>1 DEF AnswersAfter
<1>7. outstanding' = Len(jobs') + (Len(alerts') - m) + (Len(batch') - k)
  <2>1. CASE Head(batch).kind \in {"saved", "failed"}
    <3>1. outstanding' = outstanding - 1 /\ Len(Tail(batch)) - k = (Len(batch) - n) - 1
      BY <1>4, <1>5, <2>1
    <3>2. Len(jobs') = Len(jobs) /\ Len(alerts') = Len(alerts) /\ Len(batch') = Len(Tail(batch))
      BY <1>5
    <3>3. outstanding' = (Len(jobs) + (Len(alerts) - m) + (Len(batch) - n)) - 1
      BY <1>1, <3>1
    <3>4. \A a, b, c, d \in Int : c = d - 1 => (a + b + d) - 1 = a + b + c
      OBVIOUS
    <3>5. /\ Len(alerts) - m \in Int /\ Len(Tail(batch)) - k \in Int
          /\ Len(batch) - n \in Int /\ Len(jobs) \in Int
      BY <1>2, <1>3, <1>6
    <3> QED BY <3>1, <3>2, <3>3, <3>4, <3>5
  <2>2. CASE Head(batch).kind \notin {"saved", "failed"}
    <3>1. outstanding' = outstanding /\ Len(Tail(batch)) - k = Len(batch) - n
      BY <1>4, <1>5, <2>2
    <3>2. Len(jobs') = Len(jobs) /\ Len(alerts') = Len(alerts) /\ Len(batch') = Len(Tail(batch))
      BY <1>5
    <3> QED BY <1>1, <1>2, <1>3, <1>6, <3>1, <3>2
  <2> QED BY <2>1, <2>2
<1> QED BY <1>1, <1>4, <1>5, <1>7 DEF Counted
-----------------------------------------------------------------------------
(* The steps of onClose *)

(* Outside onClose a step leads into it only by CloseStart. *)
LEMMA IntoExit ==
    ASSUME IInv, Gui \/ Web \/ Libtorrent
    PROVE  \/ phase' = "up"
           \/ RunJob
           \/ UNCHANGED <<phase, clean, outstanding, toSave, meta, dirty, jobs, alerts, batch, stored,
                          stale, web, torrentFile, resume, snap>>
<1> USE DEF closeVars, torrentVars, queueVars, storeVars, webVars, fileVars
<1>1. CASE Gui
  <2>1. CASE InitSession \/ PopAlerts \/ HandleAlert \/ DeliverRemove
    BY <2>1 DEF InitSession, PopAlerts, HandleAlert, DeliverRemove, GuiIdle
  <2>2. ASSUME NEW t \in Torrents, NEW p \in Paths, NEW g \in Groups,
               AddTorrent(t, p, g) \/ AddMagnet(t, p, g)
        PROVE  phase' = "up"
    BY <2>2 DEF AddTorrent, AddMagnet, GuiIdle
  <2>3. ASSUME NEW t \in Torrents,
               \/ RemoveTorrent(t) \/ ProcessMagnetLink(t) \/ DownloadMetadataCompleted(t)
               \/ MagnetError(t) \/ CancelMagnetLink(t)
        PROVE  phase' = "up"
    BY <2>3 DEF RemoveTorrent, ProcessMagnetLink, DownloadMetadataCompleted, MagnetError,
       CancelMagnetLink, GuiIdle
  <2>4. ASSUME NEW t \in Torrents, NEW g \in Groups, SetGroup(t, g) PROVE phase' = "up"
    BY <2>4 DEF SetGroup, GuiIdle
  <2>5. ASSUME NEW t \in Torrents, NEW p \in Paths, MoveStorrage(t, p) PROVE phase' = "up"
    BY <2>5 DEF MoveStorrage, GuiIdle
  <2> QED BY <1>1, <2>1, <2>2, <2>3, <2>4, <2>5 DEF Gui
<1>2. CASE Web
  BY <1>2 DEF Web, WebRemoveSession, WebAddStore, WebAddCopy, WebRemoveFiles, WebAddSession
<1>3. CASE Libtorrent
  BY <1>3 DEF Libtorrent, Finish, Progress, MetadataReceived, Expire
<1> QED BY <1>1, <1>2, <1>3

(* A session that opened a link never reaches onClose: a torrent with      *)
(* metadata from .resume is no concern of it.                              *)
LinksLeak == reloaded # {} => leaked

LEMMA StepKeepsLinksLeak ==
    ASSUME LinksLeak, [Next]_vars
    PROVE  LinksLeak'
<1> USE DEF closeVars, torrentVars, queueVars, storeVars, webVars, fileVars
<1>1. ASSUME leaked' = leaked, reloaded' \subseteq reloaded PROVE LinksLeak'
  BY <1>1 DEF LinksLeak
<1>2. CASE Libtorrent
  BY <1>1, <1>2 DEF Libtorrent, RunJob, Finish, Progress, MetadataReceived, Expire
<1>3. CASE Gui
  <2>1. CASE InitSession \/ PopAlerts \/ HandleAlert \/ DeliverRemove
    BY <1>1, <2>1 DEF InitSession, PopAlerts, HandleAlert, DeliverRemove
  <2>2. ASSUME NEW t \in Torrents, NEW p \in Paths, NEW g \in Groups,
               \/ AddTorrent(t, p, g) \/ AddMagnet(t, p, g)
               \/ SetGroup(t, g) \/ MoveStorrage(t, p)
        PROVE  LinksLeak'
    BY <1>1, <2>2 DEF AddTorrent, AddToSession, AddMagnet, SetGroup, MoveStorrage
  <2>3. ASSUME NEW t \in Torrents, ProcessMagnetLink(t) PROVE LinksLeak'
    BY <2>3 DEF ProcessMagnetLink, LinksLeak
  <2>4. ASSUME NEW t \in Torrents,
               \/ RemoveTorrent(t) \/ DownloadMetadataCompleted(t)
               \/ MagnetError(t) \/ CancelMagnetLink(t)
        PROVE  LinksLeak'
    BY <1>1, <2>4 DEF RemoveTorrent, DownloadMetadataCompleted, MagnetError,
       CancelMagnetLink, RemoveFromSession
  <2> QED BY <1>3, <2>1, <2>2, <2>3, <2>4, ConstantsAssumption DEF Gui
<1>4. CASE Web
  BY <1>1, <1>4 DEF Web, WebRemoveSession, WebAddStore, WebAddCopy, WebRemoveFiles,
     WebAddSession, AddToSession, RemoveFromSession
<1>5. CASE Closing \/ Crash
  BY <1>1, <1>5 DEF Closing, CloseStart, CloseAsk, CloseWait, ClosePop, CloseHandle,
     CloseDone, Crash, Gone, LinksLeak
<1>6. CASE UNCHANGED vars
  BY <1>1, <1>6 DEF vars
<1> QED BY <1>2, <1>3, <1>4, <1>5, <1>6 DEF Next

(* onClose keeps count of the answers, and nobody else works meanwhile. *)
LEMMA StepKeepsCleanExit ==
    ASSUME IInv, DiskInv, LinksLeak, JobKinds, CleanExit, [Next]_vars
    PROVE  CleanExit'
<1> USE ConstantsAssumption DEF closeVars, torrentVars, queueVars, storeVars, webVars, fileVars
<1>0. /\ jobs \in Seq(Items) /\ alerts \in Seq(Items) /\ batch \in Seq(Items)
      /\ stored \subseteq Torrents /\ toSave \subseteq meta
  BY DEF IInv, TypeOK
<1>1. CASE phase' = "up"
  BY <1>1 DEF CleanExit
<1>2. CASE UNCHANGED <<phase, clean, outstanding, toSave, meta, dirty, jobs, alerts, batch, stored,
                       stale, web, torrentFile, resume, snap>>
  BY <1>2 DEF CleanExit, Counted
<1>3. CASE RunJob
  <2>1. /\ UNCHANGED <<phase, clean, toSave, meta, stored, stale, web, torrentFile>>
        /\ jobs # <<>> /\ jobs' = Tail(jobs)
        /\ SaveDone(Head(jobs)) \/ MoveDone(Head(jobs))
    BY <1>3 DEF RunJob
  <2> SUFFICES ASSUME phase \in {"saving", "draining"}, clean
               PROVE  /\ dirty' \cap meta \subseteq toSave
                      /\ \A i \in DOMAIN jobs' : jobs'[i].kind = "save"
                      /\ Counted'
    BY <2>1 DEF CleanExit
  <2>2. Head(jobs).kind = "save"
    <3>1. 1 \in DOMAIN jobs /\ Head(jobs) = jobs[1]
      BY <1>0, <2>1
    <3> QED BY <3>1 DEF CleanExit
  <2>3. dirty' \subseteq dirty
    BY <2>1, <2>2 DEF SaveDone, MoveDone
  <2>4. \A i \in DOMAIN jobs' : i + 1 \in DOMAIN jobs /\ jobs'[i] = jobs[i + 1]
    BY <1>0, <2>1
  <2>5. Counted'
    BY <1>3, <2>2, RunCounted DEF CleanExit
  <2> QED BY <2>3, <2>4, <2>5 DEF CleanExit
<1>4. CASE CloseStart
  <2>1. /\ phase = "up" /\ batch = <<>> /\ ~leaked
        /\ \A w \in WebThreads : web[w].op = "idle"
        /\ clean' = (NothingInFlight(jobs) /\ NothingInFlight(alerts))
        /\ outstanding' = 0 /\ dirty \cap meta \subseteq toSave'
        /\ UNCHANGED <<meta, dirty, jobs, alerts, batch, stored, stale, web, torrentFile>>
    BY <1>4 DEF CloseStart, GuiIdle
  <2> SUFFICES ASSUME clean'
               PROVE  /\ stored \ stale \subseteq torrentFile
                      /\ \A i \in DOMAIN jobs : jobs[i].kind = "save"
                      /\ Counted'
    BY <2>1 DEF CleanExit
  <2>2. NothingInFlight(jobs) /\ NothingInFlight(alerts)
    BY <2>1
  <2>3. stored \ stale \subseteq torrentFile
    <3>1. \A t : ~NoFileYet(t) /\ ~HalfDone(t)
      BY <2>1, <2>2 DEF NoFileYet, Queued, NothingInFlight, HalfDone, LinksLeak
    <3> QED BY <2>1, <3>1 DEF DiskInv, EntriesOnDisk
  <2>4. DOMAIN jobs = {}
    BY <2>2 DEF JobKinds, NothingInFlight, SaveKinds
  <2>5. Len(jobs) = 0 /\ Len(batch) = 0 /\ Len(alerts) \in Nat
    <3>1. Len(jobs) \in Nat /\ DOMAIN jobs = 1 .. Len(jobs)
      BY <1>0
    <3>2. Len(jobs) = 0
      BY <2>4, <3>1
    <3> QED BY <1>0, <2>1, <3>2
  <2>6. AnswersAfter(alerts, Len(alerts))
    <3>1. \A i \in DOMAIN alerts : ~(i > Len(alerts))
      BY <1>0
    <3>2. \A i \in DOMAIN alerts : alerts[i].kind \notin {"saved", "failed"}
      BY <2>2 DEF NothingInFlight, SaveKinds
    <3> QED BY <2>5, <3>1, <3>2 DEF AnswersAfter
  <2>7. outstanding' = Len(jobs') + (Len(alerts') - Len(alerts)) + (Len(batch') - 0)
    BY <2>1, <2>5
  <2>8. Counted'
    BY <2>1, <2>6, <2>7, EmptyAnswers DEF Counted
  <2> QED BY <2>3, <2>4, <2>8
<1>5. ASSUME NEW u \in Torrents, CloseAsk(u) PROVE CleanExit'
  <2>1. /\ phase = "saving" /\ u \in toSave /\ toSave' = toSave \ {u} /\ SaveResumeData(u, TRUE)
        /\ outstanding' = outstanding + 1
        /\ UNCHANGED <<phase, clean, meta, batch, stored, stale, web, torrentFile>>
    BY <1>5 DEF CloseAsk
  <2>2. u \in meta
    BY <1>0, <2>1
  <2> SUFFICES ASSUME clean
               PROVE  /\ dirty' \cap meta \subseteq toSave'
                      /\ \A i \in DOMAIN jobs' : jobs'[i].kind = "save"
                      /\ Counted'
    BY <2>1 DEF CleanExit
  <2>3. dirty' = dirty \ {u}
    BY <2>1, <2>2 DEF SaveResumeData
  <2>4. Counted'
    BY <2>1, <2>2, AskedCounted DEF CleanExit
  <2>5. PICK x \in Items : x.kind = "save" /\ x = Item("save", u, TRUE, NoPath)
    BY ItemType DEF Kinds, Item
  <2>6. jobs' = jobs \/ jobs' = Append(jobs, x)
    BY <2>1, <2>5 DEF SaveResumeData
  <2>7. \A i \in DOMAIN jobs' : (i \in DOMAIN jobs /\ jobs'[i] = jobs[i]) \/ jobs'[i] = x
    <3>1. CASE jobs' = jobs
      BY <3>1
    <3>2. CASE jobs' = Append(jobs, x)
      BY <1>0, <3>2
    <3> QED BY <2>6, <3>1, <3>2
  <2>8. \A i \in DOMAIN jobs' : jobs'[i].kind = "save"
    BY <2>1, <2>5, <2>7 DEF CleanExit
  <2> QED BY <2>1, <2>3, <2>4, <2>8 DEF CleanExit
<1>6. CASE CloseWait
  BY <1>6 DEF CloseWait, CleanExit, Counted
<1>7. CASE ClosePop
  <2>1. /\ phase = "draining" /\ batch = <<>> /\ batch' = alerts /\ alerts' = <<>>
        /\ UNCHANGED <<phase, clean, outstanding, toSave, meta, dirty, jobs, stored, stale, web,
                       torrentFile>>
    BY <1>7 DEF ClosePop
  <2> SUFFICES ASSUME clean, Counted PROVE Counted'
    BY <2>1 DEF CleanExit
  <2>2. PICK m, n : /\ AnswersAfter(alerts, m) /\ AnswersAfter(batch, n)
                    /\ outstanding = Len(jobs) + (Len(alerts) - m) + (Len(batch) - n)
    BY DEF Counted
  <2>3. n = 0 /\ AnswersAfter(alerts', 0) /\ AnswersAfter(batch', m)
    BY <2>1, <2>2, EmptyAnswers
  <2>4. m \in Nat /\ Len(jobs) \in Nat /\ Len(alerts) \in Nat /\ Len(<<>>) = 0
    BY <1>0, <2>2 DEF AnswersAfter
  <2>5. outstanding' = Len(jobs') + (Len(alerts') - 0) + (Len(batch') - m)
    BY <2>1, <2>2, <2>3, <2>4
  <2> QED BY <2>3, <2>5 DEF Counted
<1>8. CASE CloseHandle
  <2>1. UNCHANGED <<phase, clean, toSave, meta, dirty, jobs, stored, stale, web, torrentFile>>
    BY <1>8 DEF CloseHandle
  <2>2. Counted => Counted'
    BY <1>8, HandleCounted
  <2> QED BY <2>1, <2>2 DEF CleanExit
<1>9. CASE CloseDone \/ Crash
  BY <1>9 DEF CloseDone, Crash, Gone, CleanExit
<1>10. CASE UNCHANGED vars
  BY <1>2, <1>10 DEF vars
<1> QED BY <1>1, <1>2, <1>3, <1>4, <1>5, <1>6, <1>7, <1>8, <1>9, <1>10, IntoExit DEF Next, Closing

(* The program is down after a crash, after onClose, or because it was. *)
LEMMA GoesDown ==
    ASSUME IInv, [Next]_vars, phase' = "down"
    PROVE  Crash \/ CloseDone \/ UNCHANGED <<phase, torrentFile, resume, snap>>
<1>1. ASSUME NEW t \in Torrents PROVE ~CloseAsk(t)
  BY DEF CloseAsk
<1>2. Closing => CloseDone
  BY <1>1 DEF Closing, CloseStart, CloseWait, ClosePop, CloseHandle
<1>3. ~RunJob
  BY DEF RunJob
<1>4. UNCHANGED vars => UNCHANGED <<phase, torrentFile, resume, snap>>
  BY DEF vars, fileVars
<1> QED BY <1>2, <1>3, <1>4, IntoExit DEF Next

(* A clean exit leaves the files with the paths of the torrents; a crash   *)
(* promises nothing, and while the program is down nothing happens.        *)
LEMMA StepKeepsPaths ==
    ASSUME IInv, SaveInv, ListedHasMeta, CleanExit, PathsOnDisk, [Next]_vars
    PROVE  PathsOnDisk'
<1> USE ConstantsAssumption DEF closeVars, torrentVars, queueVars, storeVars, webVars, fileVars
<1>1. CASE phase' # "down"
  BY <1>1 DEF PathsOnDisk
<1>2. CASE UNCHANGED <<phase, torrentFile, resume, snap>>
  BY <1>2 DEF PathsOnDisk
<1>3. CASE Crash
  BY <1>3 DEF Crash, PathsOnDisk
<1>4. CASE CloseDone
  <2>1. /\ phase = "draining" /\ batch = <<>> /\ outstanding <= 0
        /\ UNCHANGED <<torrentFile, resume>>
        /\ snap' = IF clean
                   THEN [stored |-> stored \ (stale \cup hasty), path |-> path, group |-> group]
                   ELSE None
    BY <1>4 DEF CloseDone, Gone
  <2>2. CASE ~clean
    BY <2>1, <2>2 DEF PathsOnDisk
  <2>3. CASE clean
    <3>1. snap'.stored = stored \ (stale \cup hasty) /\ snap'.path = path
      BY <2>1, <2>3
    <3>2. ASSUME NEW t \in stored \ (stale \cup hasty)
          PROVE  t \in torrentFile /\ resume[t] # None /\ resume[t].path = path[t]
      <4>1. t \in torrentFile /\ t \in meta /\ toSave = {}
        BY <2>1, <2>3 DEF CleanExit, ListedHasMeta, IInv, ToSaveOnlyWhileSaving
      <4>2. t \in Torrents /\ Clean(t) /\ ToBeListed(t)
        BY <2>1, <2>3, <4>1 DEF Clean, ToBeListed, CleanExit, IInv, TypeOK
      <4>3. Saved(t)
        BY <4>2 DEF SaveInv, CleanAreSaved
      <4>4. ~BeingRemoved(t)
        BY <2>1 DEF BeingRemoved, CleanExit
      <4>5. ~SaveInFlight(t) /\ NoSaves(alerts, t)
        BY <2>1, <2>3, NothingToCome DEF CleanExit
      <4>6. ~Queued(jobs, {"save"}, t) /\ ~Ends(alerts, t, path[t]) /\ ~Ends(batch, t, path[t])
        BY <2>1, <4>5, EmptySaves DEF SaveInFlight, Ends, NoSaves
      <4> QED BY <4>1, <4>3, <4>4, <4>6 DEF Saved, AlertsLeave, BatchLeaves
    <3> QED BY <2>1, <3>1, <3>2 DEF PathsOnDisk
  <2> QED BY <2>2, <2>3
<1> QED BY <1>1, <1>2, <1>3, <1>4, GoesDown

(* The invariants of the exit. *)
ExitInv == ListedHasMeta /\ LinksLeak /\ JobKinds /\ CleanExit /\ PathsOnDisk

(* They are inductive, next to SaveInv and DiskInv. *)
LEMMA ExitInvariance ==
    ASSUME WebThreads = {} \/ (Magnets = {} /\ \E w : WebThreads = {w})
    PROVE  Spec => []ExitInv
<1>1. Init => ExitInv
  BY DEF Init, ExitInv, ListedHasMeta, LinksLeak, JobKinds, CleanExit, PathsOnDisk, WebIdle
<1>2. IInv /\ DiskInv /\ SaveInv /\ ExitInv /\ [Next]_vars => ExitInv'
  BY StepKeepsListed, StepKeepsLinksLeak, StepKeepsJobKinds, StepKeepsCleanExit, StepKeepsPaths
     DEF ExitInv
<1>3. Magnets = {} \/ WebThreads = {}
  OBVIOUS
<1>4. Spec => []DiskInv
  BY <1>3, DiskInvariance
<1>5. Spec => []SaveInv
  BY SaveInvariance DEF OneOtherThread
<1> QED BY <1>1, <1>2, <1>4, <1>5, Invariance, PTL DEF Spec

(* Only initSession brings the program up. *)
LEMMA Starts ==
    ASSUME [Next]_vars, phase = "down", phase' = "up"
    PROVE  InitSession
<1> USE DEF closeVars, torrentVars, queueVars, storeVars, webVars, fileVars
<1>1. ~Libtorrent
  BY DEF Libtorrent, RunJob, Finish, Progress, MetadataReceived, Expire
<1>2. ~Web
  BY DEF Web, WebRemoveSession, WebAddStore, WebAddCopy, WebRemoveFiles, WebAddSession
<1>3. ~Closing /\ ~Crash
  BY DEF Closing, CloseStart, CloseAsk, CloseWait, ClosePop, CloseHandle, CloseDone, Crash, GuiIdle
<1>4. Gui => InitSession
  BY DEF Gui, PopAlerts, HandleAlert, DeliverRemove, AddTorrent, AddMagnet, SetGroup, MoveStorrage,
     RemoveTorrent, ProcessMagnetLink, DownloadMetadataCompleted, MagnetError, CancelMagnetLink,
     GuiIdle
<1>5. ~UNCHANGED vars
  BY DEF vars
<1> QED BY <1>1, <1>2, <1>3, <1>4, <1>5 DEF Next

(* RestartRestores: after an onClose that began with nothing in flight,    *)
(* initSession lists every torrent that was listed, at the save path it    *)
(* had, though onClose only asks for the resume data of some and counts    *)
(* answers it does not match with what it asked for.                       *)
THEOREM ExitRestores ==
    ASSUME WebThreads = {} \/ (Magnets = {} /\ \E w : WebThreads = {w})
    PROVE  Spec => RestartRestores
<1>1. ASSUME IInv, ExitInv, [Next]_vars, phase = "down", phase' = "up", snap # None,
             NEW t \in snap.stored
      PROVE  t \in stored' /\ path'[t] = snap.path[t]
  <2>1. InitSession
    BY <1>1, Starts
  <2>2. t \in torrentFile /\ resume[t] # None /\ resume[t].path = snap.path[t]
    BY <1>1 DEF ExitInv, PathsOnDisk
  <2>3. t \in Torrents
    BY <1>1, <2>2 DEF IInv, TypeOK
  <2>4. path'[t] = AddedPath(t, IF legacy[t] # None THEN legacy[t].path ELSE NoPath)
    BY <2>1, <2>2, <2>3 DEF InitSession
  <2> QED BY <2>1, <2>2, <2>4 DEF InitSession, AddedPath
<1>2. IInv /\ ExitInv /\ [Next]_vars =>
         [phase = "down" /\ phase' = "up" /\ snap # None =>
            \A t \in snap.stored : t \in stored' /\ path'[t] = snap.path[t]]_vars
  BY <1>1
<1>3. Spec => []ExitInv
  BY ExitInvariance
<1> QED BY <1>2, <1>3, Invariance, PTL DEF Spec, RestartRestores

(* RestartRestoresGroups: with the GUI thread alone, the same for the      *)
(* group Torrent::setGroup gave it.                                        *)
THEOREM ExitRestoresGroups ==
    ASSUME Magnets = {}, WebThreads = {}
    PROVE  Spec => RestartRestoresGroups
<1> USE ConstantsAssumption
<1>1. Init => GroupsOnDisk
  BY DEF Init, GroupsOnDisk
<1>2. ASSUME IInv, GuiInv, GroupsKept, ExitInv, GroupsOnDisk, [Next]_vars PROVE GroupsOnDisk'
  <2> USE DEF closeVars, torrentVars, queueVars, storeVars, webVars, fileVars
  <2>1. CASE phase' # "down"
    BY <2>1 DEF GroupsOnDisk
  <2>2. CASE UNCHANGED <<phase, torrentFile, resume, snap>>
    BY <1>2, <2>2 DEF GroupsOnDisk
  <2>3. CASE Crash
    BY <2>3 DEF Crash, GroupsOnDisk
  <2>4. CASE CloseDone
    <3>1. /\ phase = "draining" /\ outstanding <= 0
          /\ UNCHANGED <<torrentFile, resume>>
          /\ snap' = IF clean
                     THEN [stored |-> stored \ (stale \cup hasty), path |-> path, group |-> group]
                     ELSE None
      BY <2>4 DEF CloseDone, Gone
    <3>2. CASE ~clean
      BY <3>1, <3>2 DEF GroupsOnDisk
    <3>3. CASE clean
      <4>1. snap'.stored = stored \ (stale \cup hasty) /\ snap'.group = group
        BY <3>1, <3>3
      <4>2. CleanExit /\ ListedHasMeta
        BY <1>2 DEF ExitInv
      <4>3. ASSUME NEW t \in stored \ (stale \cup hasty)
            PROVE  t \in torrentFile /\ resume[t] # None /\ resume[t].group = group[t]
        <5>1. t \in torrentFile /\ t \in meta /\ toSave = {}
          BY <1>2, <3>1, <3>3, <4>2 DEF CleanExit, ListedHasMeta, IInv, ToSaveOnlyWhileSaving
        <5>2. t \notin dirty
          BY <3>1, <3>3, <4>2, <5>1 DEF CleanExit
        <5>3. ~SaveInFlight(t)
          BY <1>2, <3>1, <3>3, <4>2, NothingToCome DEF CleanExit
        <5> QED BY <1>2, <5>1, <5>2, <5>3 DEF GroupsKept
      <4> QED BY <3>1, <4>1, <4>3 DEF GroupsOnDisk
    <3> QED BY <3>2, <3>3
  <2> QED BY <1>2, <2>1, <2>2, <2>3, <2>4, GoesDown
<1>3. ASSUME IInv, GroupsOnDisk, [Next]_vars, phase = "down", phase' = "up", snap # None,
             NEW t \in snap.stored
      PROVE  group'[t] = snap.group[t]
  <2>1. InitSession
    BY <1>3, Starts
  <2>2. t \in torrentFile /\ resume[t] # None /\ resume[t].group = snap.group[t]
    BY <1>3 DEF GroupsOnDisk
  <2>3. t \in Torrents
    BY <1>3, <2>2 DEF IInv, TypeOK
  <2>4. snap.group[t] # None
    <3>1. snap \in Snapshots
      BY <1>3 DEF IInv, TypeOK
    <3>2. snap.group[t] \in Groups
      BY <2>3, <3>1 DEF Snapshots
    <3> QED BY <3>2
  <2>5. group'[t] = AddedGroup(t, IF legacy[t] # None /\ legacy[t].group # None
                                  THEN legacy[t].group ELSE NoGroup)
    BY <2>1, <2>2, <2>3 DEF InitSession
  <2> QED BY <2>2, <2>4, <2>5 DEF AddedGroup
<1>4. IInv /\ GroupsOnDisk /\ [Next]_vars =>
         [phase = "down" /\ phase' = "up" /\ snap # None =>
            \A t \in snap.stored : group'[t] = snap.group[t]]_vars
  BY <1>3
<1>5. Spec => []ExitInv
  BY ExitInvariance
<1>6. Spec => [](GuiInv /\ GroupsKept)
  BY GroupInvariance
<1> QED BY <1>1, <1>2, <1>4, <1>5, <1>6, Invariance, PTL DEF Spec, RestartRestoresGroups
=============================================================================
