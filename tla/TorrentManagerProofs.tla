------------------------ MODULE TorrentManagerProofs ------------------------
(***************************************************************************)
(* What holds of TorrentManager for any number of torrents, paths, groups  *)
(* and web threads.                                                        *)
(***************************************************************************)
EXTENDS TorrentManager, SequenceTheorems, TLAPS

(* The queue q holds no current handle of a torrent outside L. *)
CurrentIn(q, L) == \A i \in DOMAIN q : q[i].cur => q[i].t \in L

(* Whoever holds a handle and was not told that it is dead holds one of a  *)
(* torrent that is in the session.                                         *)
HandlesCurrent ==
    /\ CurrentIn(jobs, live) /\ CurrentIn(alerts, live) /\ CurrentIn(batch, live)
    /\ \A t \in Torrents : dialog[t] \in {"waiting", "offered"} => t \in live
    /\ \A w \in WebThreads : web[w].cur => web[w].t \in live

(* No handle survives the process. *)
DownIsEmpty ==
    phase = "down" =>
        /\ jobs = <<>> /\ alerts = <<>> /\ batch = <<>> /\ posted = <<>>
        /\ stored = {} /\ stale = {}
        /\ dialog = [t \in Torrents |-> "closed"]
        /\ web = [w \in WebThreads |-> WebIdle]

(* onClose's list lives as long as the loop that goes through it. *)
ToSaveOnlyWhileSaving == phase # "saving" => toSave = {}

(* A web thread that is in the middle of something knows for which torrent. *)
BusyHasTorrent ==
    \A w \in WebThreads : web[w].op # "idle" => web[w].t \in Torrents

IInv ==
    /\ TypeOK
    /\ HandlesCurrent
    /\ FreshEntriesAreLive
    /\ DownIsEmpty
    /\ ToSaveOnlyWhileSaving
    /\ BusyHasTorrent
-----------------------------------------------------------------------------
(* Queues *)

(* What the program and libtorrent queue is a queue item. *)
LEMMA ItemType ==
    ASSUME NEW k \in Kinds, NEW t \in Torrents, NEW c \in BOOLEAN, NEW p \in Paths
    PROVE  Item(k, t, c, p) \in Items
BY DEF Item, Items

(* A posted item keeps the queue's promise if its own handle is good. *)
LEMMA AppendItem ==
    ASSUME NEW q \in Seq(Items), NEW x \in Items, NEW L, CurrentIn(q, L),
           x.cur => x.t \in L
    PROVE  Append(q, x) \in Seq(Items) /\ CurrentIn(Append(q, x), L)
BY DEF CurrentIn

(* So does taking one out, whose handle is then as good as it was. *)
LEMMA TailItem ==
    ASSUME NEW q \in Seq(Items), q # <<>>, NEW L, CurrentIn(q, L)
    PROVE  /\ Tail(q) \in Seq(Items) /\ CurrentIn(Tail(q), L)
           /\ Head(q) \in Items /\ (Head(q).cur => Head(q).t \in L)
BY DEF CurrentIn

(* A session with more torrents does not harm the handles there are. *)
LEMMA MoreCurrent ==
    ASSUME NEW q, NEW L, NEW M, CurrentIn(q, L), L \subseteq M
    PROVE  CurrentIn(q, M)
BY DEF CurrentIn

(* After Orphan no item claims a handle of the torrent that was removed. *)
LEMMA OrphanItem ==
    ASSUME NEW q \in Seq(Items), NEW t \in Torrents, NEW L, CurrentIn(q, L),
           path \in [Torrents -> Paths]
    PROVE  Orphan(q, t) \in Seq(Items) /\ CurrentIn(Orphan(q, t), L \ {t})
<1>1. DOMAIN q = 1..Len(q) /\ Len(q) \in Nat
  OBVIOUS
<1>2. ASSUME NEW i \in 1..Len(q) PROVE Orphan(q, t)[i] \in Items
  <2>1. q[i] \in Items /\ path[t] \in Paths
    BY <1>1
  <2>2. ASSUME NEW p \in Paths PROVE [q[i] EXCEPT !.cur = FALSE, !.p = p] \in Items
    BY <2>1 DEF Items
  <2>3. q[i].p \in Paths
    BY <2>1 DEF Items
  <2> QED BY <1>1, <2>1, <2>2, <2>3 DEF Orphan
<1>3. Orphan(q, t) \in [1..Len(q) -> Items]
  BY <1>1, <1>2 DEF Orphan
<1>4. Orphan(q, t) \in Seq(Items)
  BY <1>1, <1>3, SeqDef
<1>5. CurrentIn(Orphan(q, t), L \ {t})
  BY <1>1 DEF Orphan, CurrentIn, Items
<1> QED BY <1>4, <1>5

(* What is queued stays queued when something is added ... *)
LEMMA AppendQueued ==
    ASSUME NEW q \in Seq(Items), NEW x \in Items, NEW K, NEW t
    PROVE  /\ Queued(q, K, t) => Queued(Append(q, x), K, t)
           /\ x.kind \in K /\ x.t = t /\ x.cur => Queued(Append(q, x), K, t)
<1>1. ASSUME NEW i \in DOMAIN q
      PROVE  i \in DOMAIN Append(q, x) /\ Append(q, x)[i] = q[i]
  OBVIOUS
<1>2. Len(q) + 1 \in DOMAIN Append(q, x) /\ Append(q, x)[Len(q) + 1] = x
  OBVIOUS
<1>3. Queued(q, K, t) => Queued(Append(q, x), K, t)
  BY <1>1 DEF Queued
<1>4. x.kind \in K /\ x.t = t /\ x.cur => Queued(Append(q, x), K, t)
  BY <1>2 DEF Queued
<1> QED BY <1>3, <1>4

(* ... and when another item is taken out ... *)
LEMMA TailQueued ==
    ASSUME NEW q \in Seq(Items), q # <<>>, NEW K, NEW t, Queued(q, K, t)
    PROVE  \/ Queued(Tail(q), K, t)
           \/ Head(q).kind \in K /\ Head(q).t = t /\ Head(q).cur
<1>1. PICK i \in DOMAIN q : q[i].kind \in K /\ q[i].t = t /\ q[i].cur
  BY DEF Queued
<1>2. CASE i = 1
  BY <1>1, <1>2
<1>3. CASE i # 1
  <2>1. i - 1 \in DOMAIN Tail(q) /\ Tail(q)[i - 1] = q[i]
    BY <1>3
  <2> QED BY <1>1, <2>1 DEF Queued
<1> QED BY <1>2, <1>3

(* ... and when another torrent is removed. *)
LEMMA OrphanQueued ==
    ASSUME NEW q \in Seq(Items), NEW K, NEW t, NEW u, u # t, Queued(q, K, u)
    PROVE  Queued(Orphan(q, t), K, u)
<1>1. PICK i \in DOMAIN q : q[i].kind \in K /\ q[i].t = u /\ q[i].cur
  BY DEF Queued
<1>2. i \in DOMAIN Orphan(q, t) /\ Orphan(q, t)[i] = q[i]
  BY <1>1 DEF Orphan
<1> QED BY <1>1, <1>2 DEF Queued
-----------------------------------------------------------------------------
(* The pieces of the actions *)

(* save_resume_data queues a job or answers with an alert, both for a torrent
   that is there if the caller's handle is. *)
LEMMA SaveResumeDataKeeps ==
    ASSUME NEW t \in Torrents, NEW c \in BOOLEAN, c => t \in live,
           jobs \in Seq(Items), alerts \in Seq(Items), dirty \subseteq live,
           CurrentIn(jobs, live), CurrentIn(alerts, live), NoPath \in Paths,
           path \in [Torrents -> Paths],
           SaveResumeData(t, c)
    PROVE  /\ jobs' \in Seq(Items) /\ alerts' \in Seq(Items) /\ dirty' \subseteq live
           /\ CurrentIn(jobs', live) /\ CurrentIn(alerts', live)
<1> DEFINE ask    == Item("save", t, TRUE, NoPath)
           failed == Item("failed", t, c, NoPath)
           saved  == Item("saved", t, TRUE, path[t])
<1>1. ask \in Items /\ ask.cur = TRUE /\ ask.t = t
  BY ItemType DEF Item, Kinds
<1>2. failed \in Items /\ failed.cur = c /\ failed.t = t
  BY ItemType DEF Item, Kinds
<1>5. saved \in Items /\ saved.cur = TRUE /\ saved.t = t
  BY ItemType DEF Item, Kinds
<1> HIDE DEF ask, failed, saved
<1>3. CASE c /\ t \in meta
  <2>1. dirty' = dirty \ {t}
    BY <1>3 DEF SaveResumeData
  <2>2. CASE jobs' = Append(jobs, ask) /\ alerts' = alerts
    BY <2>1, <2>2, <1>1, <1>3, AppendItem
  <2>3. CASE alerts' = Append(alerts, saved) /\ jobs' = jobs
    BY <2>1, <2>3, <1>5, <1>3, AppendItem
  <2> QED BY <2>2, <2>3, <1>3 DEF SaveResumeData, ask, saved
<1>4. CASE ~(c /\ t \in meta)
  <2>1. alerts' = Append(alerts, failed) /\ jobs' = jobs /\ dirty' = dirty
    BY <1>4 DEF SaveResumeData, failed
  <2> QED BY <2>1, <1>2, AppendItem
<1> QED BY <1>3, <1>4

(* save_resume_data takes nothing out of a queue. *)
LEMMA SaveResumeDataQueues ==
    ASSUME NEW t \in Torrents, NEW c \in BOOLEAN, TypeOK, SaveResumeData(t, c), NEW K, NEW u
    PROVE  /\ Queued(jobs, K, u) => Queued(jobs', K, u)
           /\ Queued(alerts, K, u) => Queued(alerts', K, u)
<1> USE ConstantsAssumption
<1>1. Item("save", t, TRUE, NoPath) \in Items
  BY ItemType DEF Kinds
<1>2. Item("failed", t, c, NoPath) \in Items
  BY ItemType DEF Kinds
<1>3. Item("saved", t, TRUE, path[t]) \in Items
  BY ItemType DEF Kinds, TypeOK
<1>4. jobs \in Seq(Items) /\ alerts \in Seq(Items)
  BY DEF TypeOK
<1>5. CASE jobs' = Append(jobs, Item("save", t, TRUE, NoPath)) /\ UNCHANGED alerts
  BY <1>1, <1>4, <1>5, AppendQueued
<1>6. CASE alerts' = Append(alerts, Item("failed", t, c, NoPath)) /\ UNCHANGED jobs
  BY <1>2, <1>4, <1>6, AppendQueued
<1>7. CASE alerts' = Append(alerts, Item("saved", t, TRUE, path[t])) /\ UNCHANGED jobs
  BY <1>3, <1>4, <1>7, AppendQueued
<1> QED BY <1>5, <1>6, <1>7 DEF SaveResumeData

(* remove_torrent leaves no queued handle that passes for a current one. *)
LEMMA RemoveFromSessionKeeps ==
    ASSUME NEW t \in Torrents, TypeOK, HandlesCurrent, RemoveFromSession(t)
    PROVE  /\ live' = live \ {t} /\ live' \subseteq Torrents
           /\ meta' \subseteq live' /\ dirty' \subseteq live'
           /\ path' \in [Torrents -> Paths] /\ zombie' \subseteq Torrents /\ hasty' \subseteq Torrents /\ reloaded' \subseteq Magnets
           /\ jobs' \in Seq(Items) /\ CurrentIn(jobs', live')
           /\ alerts' \in Seq(Items) /\ CurrentIn(alerts', live')
           /\ batch' \in Seq(Items) /\ CurrentIn(batch', live')
<1>1. live' = live \ {t} /\ path' = path
  BY DEF RemoveFromSession
<1>2. /\ meta' \subseteq live' /\ dirty' \subseteq live' /\ zombie' \subseteq Torrents /\ hasty' \subseteq Torrents /\ reloaded' \subseteq Magnets
      /\ live' \subseteq Torrents
  BY DEF RemoveFromSession, TypeOK
<1>3. jobs' \in Seq(Items) /\ CurrentIn(jobs', live \ {t})
  BY OrphanItem DEF RemoveFromSession, TypeOK, HandlesCurrent
<1>4. alerts' \in Seq(Items) /\ CurrentIn(alerts', live \ {t})
  BY OrphanItem DEF RemoveFromSession, TypeOK, HandlesCurrent
<1>5. batch' \in Seq(Items) /\ CurrentIn(batch', live \ {t})
  BY OrphanItem DEF RemoveFromSession, TypeOK, HandlesCurrent
<1> QED BY <1>1, <1>2, <1>3, <1>4, <1>5 DEF TypeOK

(* ... nor one held by a web thread ... *)
LEMMA WebLosesKeeps ==
    ASSUME NEW t \in Torrents, TypeOK, HandlesCurrent
    PROVE  /\ WebLoses(t) \in [WebThreads -> [op : {"idle", "remove", "store", "copy"},
                                              t : Torrents \cup {None}, cur : BOOLEAN,
                                              g : Groups]]
           /\ \A w \in WebThreads : WebLoses(t)[w].cur => WebLoses(t)[w].t \in live \ {t}
           /\ \A w \in WebThreads : /\ WebLoses(t)[w].op = web[w].op
                                    /\ WebLoses(t)[w].t = web[w].t
BY DEF WebLoses, TypeOK, HandlesCurrent

(* ... nor one held by the dialog of a magnet link. *)
LEMMA DialogLosesKeeps ==
    ASSUME NEW t \in Torrents, TypeOK, HandlesCurrent
    PROVE  /\ DialogLoses(t) \in [Torrents -> {"closed", "waiting", "offered", "error", "lost"}]
           /\ \A u \in Torrents : DialogLoses(t)[u] \in {"waiting", "offered"} => u \in live \ {t}
BY DEF DialogLoses, TypeOK, HandlesCurrent

(* What .resume makes of the path and group asked for. *)
LEMMA AddedType ==
    ASSUME NEW t \in Torrents, NEW p \in Paths, NEW g \in Groups, TypeOK
    PROVE  AddedPath(t, p) \in Paths /\ AddedGroup(t, g) \in Groups
BY DEF AddedPath, AddedGroup, TypeOK, ResumeData

(* Writing resume data leaves .resume files. *)
LEMMA ResumeAfterType ==
    ASSUME NEW a \in Items, TypeOK
    PROVE  ResumeAfter(a) \in [Torrents -> ResumeData \cup {None}]
<1>1. a.t \in Torrents /\ a.p \in Paths
  BY DEF Items
<1>2. [path |-> a.p, group |-> IF a.t \in stored THEN group[a.t] ELSE None] \in ResumeData
  BY <1>1 DEF ResumeData, TypeOK
<1> QED BY <1>1, <1>2 DEF ResumeAfter, TypeOK

(* A web thread goes on from the storage to copying the file. *)
LEMMA CopyType ==
    ASSUME NEW r \in [op : {"idle", "remove", "store", "copy"},
                      t : Torrents \cup {None}, cur : BOOLEAN, g : Groups]
    PROVE  [r EXCEPT !.op = "copy"] \in [op : {"idle", "remove", "store", "copy"},
                      t : Torrents \cup {None}, cur : BOOLEAN, g : Groups]
OBVIOUS

(* The end of the process leaves no handle behind. *)
LEMMA GoneKeeps ==
    ASSUME TypeOK, Gone, snap' \in Snapshots \cup {None}
    PROVE  IInv'
<1> USE ConstantsAssumption
<1>0. /\ phase' = "down" /\ outstanding' = 0 /\ leaked' = FALSE /\ clean' = FALSE
      /\ live' = {} /\ meta' = {} /\ dirty' = {} /\ toSave' = {} /\ zombie' = {} /\ hasty' = {} /\ reloaded' = {}
      /\ stored' = {} /\ stale' = {}
  BY DEF Gone
<1>1. /\ phase' \in {"down", "up", "saving", "draining"} /\ outstanding' \in Int
      /\ leaked' \in BOOLEAN /\ clean' \in BOOLEAN
  <2>1. phase' \in {"down", "up", "saving", "draining"} /\ outstanding' \in Int
    BY <1>0
  <2>2. leaked' \in BOOLEAN
    BY <1>0
  <2>3. clean' \in BOOLEAN
    BY <1>0
  <2> QED BY <2>1, <2>2, <2>3
<1>9. /\ live' \subseteq Torrents /\ meta' \subseteq live' /\ dirty' \subseteq live'
      /\ toSave' \subseteq meta' /\ zombie' \subseteq Torrents /\ hasty' \subseteq Torrents /\ reloaded' \subseteq Magnets
      /\ stored' \subseteq Torrents /\ stale' \subseteq stored'
  BY <1>0
<1>2. /\ jobs' \in Seq(Items) /\ alerts' \in Seq(Items) /\ batch' \in Seq(Items)
      /\ posted' \in Seq(Torrents)
  BY DEF Gone
<1>3. /\ path' \in [Torrents -> Paths] /\ group' \in [Torrents -> Groups]
      /\ dialog' \in [Torrents -> {"closed", "waiting", "offered", "error", "lost"}]
  BY DEF Gone
<1>4. web' \in [WebThreads -> [op : {"idle", "remove", "store", "copy"},
                               t : Torrents \cup {None}, cur : BOOLEAN, g : Groups]]
  BY DEF Gone, WebIdle
<1>5. /\ torrentFile' \subseteq Torrents
      /\ resume' \in [Torrents -> ResumeData \cup {None}]
      /\ legacy' \in [Torrents -> ResumeData \cup {None}]
  BY DEF Gone, fileVars, TypeOK
<1>6. TypeOK'
  BY <1>1, <1>2, <1>3, <1>4, <1>5, <1>9 DEF TypeOK
<1>7. HandlesCurrent'
  BY DEF Gone, HandlesCurrent, CurrentIn, WebIdle
<1>8. (FreshEntriesAreLive /\ DownIsEmpty /\ ToSaveOnlyWhileSaving /\ BusyHasTorrent)'
  BY DEF Gone, FreshEntriesAreLive, DownIsEmpty, ToSaveOnlyWhileSaving, BusyHasTorrent, WebIdle
<1> QED BY <1>6, <1>7, <1>8 DEF IInv
-----------------------------------------------------------------------------
(* The invariant is inductive *)

(* CT_DATA is all there is before the program starts. *)
LEMMA InitIInv ==
    ASSUME Init PROVE IInv
<1> USE ConstantsAssumption
<1>1. TypeOK
  <2>1. /\ phase \in {"down", "up", "saving", "draining"} /\ outstanding \in Int
        /\ live \subseteq Torrents /\ meta \subseteq live /\ dirty \subseteq live
        /\ toSave \subseteq meta /\ zombie \subseteq Torrents /\ hasty \subseteq Torrents /\ reloaded \subseteq Magnets
        /\ stored \subseteq Torrents /\ stale \subseteq stored
    BY DEF Init
  <2>2. leaked \in BOOLEAN
    BY DEF Init
  <2>3. clean \in BOOLEAN
    BY DEF Init
  <2>4. /\ jobs \in Seq(Items) /\ alerts \in Seq(Items) /\ batch \in Seq(Items)
        /\ posted \in Seq(Torrents)
    BY DEF Init
  <2>5. /\ path \in [Torrents -> Paths] /\ group \in [Torrents -> Groups]
        /\ dialog \in [Torrents -> {"closed", "waiting", "offered", "error", "lost"}]
    BY DEF Init
  <2>6. web \in [WebThreads -> [op : {"idle", "remove", "store", "copy"},
                              t : Torrents \cup {None}, cur : BOOLEAN, g : Groups]]
    BY DEF Init, WebIdle
  <2>7. /\ torrentFile \subseteq Torrents
        /\ resume \in [Torrents -> ResumeData \cup {None}]
        /\ legacy \in [Torrents -> ResumeData \cup {None}]
        /\ snap \in Snapshots \cup {None}
    BY DEF Init
  <2> QED BY <2>1, <2>2, <2>3, <2>4, <2>5, <2>6, <2>7 DEF TypeOK
<1>2. HandlesCurrent /\ BusyHasTorrent
  BY DEF Init, HandlesCurrent, CurrentIn, BusyHasTorrent, WebIdle
<1>3. FreshEntriesAreLive /\ DownIsEmpty /\ ToSaveOnlyWhileSaving
  BY DEF Init, FreshEntriesAreLive, DownIsEmpty, ToSaveOnlyWhileSaving
<1> QED BY <1>1, <1>2, <1>3 DEF IInv

(* Whatever thread makes it, a step keeps every handle that passes for a   *)
(* current one on a torrent of the session.                                *)
LEMMA StepKeepsIInv ==
    ASSUME IInv, [Next]_vars
    PROVE  IInv'
<1> USE ConstantsAssumption DEF IInv, closeVars, torrentVars, queueVars, storeVars, webVars, fileVars
<1>1. ASSUME RunJob PROVE IInv'
  <2> DEFINE j == Head(jobs)
  <2>1. /\ phase # "down" /\ jobs # <<>> /\ jobs' = Tail(jobs)
        /\ UNCHANGED <<phase, leaked, closeVars, live, meta, zombie, hasty, reloaded, batch, storeVars,
                       dialog, webVars, fileVars, snap>>
    BY <1>1 DEF RunJob
  <2>2. /\ Tail(jobs) \in Seq(Items) /\ CurrentIn(Tail(jobs), live)
        /\ j \in Items /\ (j.cur => j.t \in live)
    BY <2>1, TailItem DEF TypeOK, HandlesCurrent
  <2>3. j.t \in Torrents /\ j.cur \in BOOLEAN /\ j.p \in Paths
    BY <2>2 DEF Items
  <2> HIDE DEF j
  <2>4. ASSUME NEW k \in Kinds, NEW c \in BOOLEAN, NEW p \in Paths, c => j.cur,
               alerts' = Append(alerts, Item(k, j.t, c, p))
        PROVE  alerts' \in Seq(Items) /\ CurrentIn(alerts', live)
    <3>1. /\ Item(k, j.t, c, p) \in Items
          /\ Item(k, j.t, c, p).cur = c /\ Item(k, j.t, c, p).t = j.t
      BY <2>3, ItemType DEF Item
    <3> QED BY <2>2, <2>4, <3>1, AppendItem DEF TypeOK, HandlesCurrent
  <2>5. /\ alerts' \in Seq(Items) /\ CurrentIn(alerts', live)
        /\ dirty' \subseteq live /\ path' \in [Torrents -> Paths]
    <3>1. CASE /\ j.kind = "save"
               /\ alerts' = Append(alerts, Item("saved", j.t, j.cur,
                                               IF j.cur THEN path[j.t] ELSE j.p))
               /\ dirty' = IF j.cur THEN dirty \ {j.t} ELSE dirty
               /\ UNCHANGED path
      <4>1. (IF j.cur THEN path[j.t] ELSE j.p) \in Paths
        BY <2>3 DEF TypeOK
      <4> QED BY <3>1, <4>1, <2>3, <2>4 DEF TypeOK, Kinds
    <3>2. CASE /\ alerts' = Append(alerts, Item("failed", j.t, FALSE, NoPath))
               /\ UNCHANGED <<dirty, path>>
      BY <3>2, <2>4 DEF TypeOK, Kinds
    <3>3. CASE /\ alerts' = Append(alerts, Item("moved", j.t, j.cur, j.p))
               /\ path' = IF j.cur THEN [path EXCEPT ![j.t] = j.p] ELSE path
               /\ dirty' = IF j.cur THEN dirty \cup {j.t} ELSE dirty
      BY <3>3, <2>2, <2>3, <2>4 DEF TypeOK, Kinds
    <3>4. CASE UNCHANGED <<alerts, dirty, path>>
      BY <3>4 DEF TypeOK, HandlesCurrent
    <3> QED BY <1>1, <3>1, <3>2, <3>3, <3>4 DEF RunJob, SaveDone, MoveDone, j
  <2>6. TypeOK'
    BY <2>1, <2>2, <2>5 DEF TypeOK
  <2>7. (HandlesCurrent /\ FreshEntriesAreLive)'
    BY <2>1, <2>2, <2>5 DEF HandlesCurrent, FreshEntriesAreLive
  <2>8. (DownIsEmpty /\ ToSaveOnlyWhileSaving /\ BusyHasTorrent)'
    BY <2>1 DEF DownIsEmpty, ToSaveOnlyWhileSaving, BusyHasTorrent
  <2> QED BY <2>6, <2>7, <2>8
<1>2. ASSUME NEW t \in Torrents, Finish(t) PROVE IInv'
  <2>1. /\ Item("finished", t, TRUE, NoPath) \in Items
        /\ Item("finished", t, TRUE, NoPath).cur = TRUE /\ Item("finished", t, TRUE, NoPath).t = t
    BY ItemType DEF Item, Kinds
  <2>2. alerts' \in Seq(Items) /\ CurrentIn(alerts', live)
    BY <1>2, <2>1, AppendItem DEF Finish, TypeOK, HandlesCurrent, FreshEntriesAreLive
  <2>3. TypeOK'
    BY <1>2, <2>2 DEF Finish, TypeOK
  <2>4. HandlesCurrent'
    BY <1>2, <2>2 DEF Finish, HandlesCurrent, FreshEntriesAreLive, TypeOK
  <2>5. FreshEntriesAreLive'
    BY <1>2, <2>2 DEF Finish, FreshEntriesAreLive, HandlesCurrent, TypeOK
  <2>6. (DownIsEmpty /\ ToSaveOnlyWhileSaving /\ BusyHasTorrent)'
    BY <1>2, <2>2 DEF Finish, GuiIdle, DownIsEmpty, ToSaveOnlyWhileSaving,
       BusyHasTorrent, TypeOK
  <2> QED BY <2>3, <2>4, <2>5, <2>6
<1>3. ASSUME NEW t \in Torrents, Progress(t) PROVE IInv'
  BY <1>3 DEF Progress, TypeOK, HandlesCurrent, FreshEntriesAreLive, DownIsEmpty,
     ToSaveOnlyWhileSaving, BusyHasTorrent, GuiIdle
<1>4. ASSUME NEW t \in Torrents, MetadataReceived(t) PROVE IInv'
  <2>1. /\ Item("metadata", t, TRUE, NoPath) \in Items
        /\ Item("metadata", t, TRUE, NoPath).cur = TRUE /\ Item("metadata", t, TRUE, NoPath).t = t
    BY ItemType DEF Item, Kinds
  <2>2. alerts' \in Seq(Items) /\ CurrentIn(alerts', live)
    BY <1>4, <2>1, AppendItem DEF MetadataReceived, TypeOK, HandlesCurrent,
       FreshEntriesAreLive
  <2>3. TypeOK'
    BY <1>4, <2>2 DEF MetadataReceived, TypeOK
  <2>4. HandlesCurrent'
    BY <1>4, <2>2 DEF MetadataReceived, HandlesCurrent, FreshEntriesAreLive, TypeOK
  <2>5. FreshEntriesAreLive'
    BY <1>4, <2>2 DEF MetadataReceived, FreshEntriesAreLive, HandlesCurrent, TypeOK
  <2>6. (DownIsEmpty /\ ToSaveOnlyWhileSaving /\ BusyHasTorrent)'
    BY <1>4, <2>2 DEF MetadataReceived, GuiIdle, DownIsEmpty, ToSaveOnlyWhileSaving,
       BusyHasTorrent, TypeOK
  <2> QED BY <2>3, <2>4, <2>5, <2>6
<1>5. ASSUME NEW t \in Torrents, Expire(t) PROVE IInv'
  BY <1>5 DEF Expire, TypeOK, HandlesCurrent, FreshEntriesAreLive, DownIsEmpty,
     ToSaveOnlyWhileSaving, BusyHasTorrent, GuiIdle
<1>6. ASSUME InitSession PROVE IInv'
  <2>1. /\ path' \in [Torrents -> Paths] /\ group' \in [Torrents -> Groups]
        /\ legacy' \in [Torrents -> ResumeData \cup {None}]
    BY <1>6, AddedType DEF InitSession, TypeOK, ResumeData
  <2>2. HandlesCurrent'
    BY <1>6 DEF InitSession, DownIsEmpty, HandlesCurrent, CurrentIn, WebIdle
  <2>3. TypeOK'
    BY <1>6, <2>1, <2>2 DEF InitSession, TypeOK, DownIsEmpty, ToSaveOnlyWhileSaving
  <2>4. FreshEntriesAreLive'
    BY <1>6, <2>1, <2>2 DEF InitSession, FreshEntriesAreLive, HandlesCurrent, TypeOK,
       DownIsEmpty
  <2>5. (DownIsEmpty /\ ToSaveOnlyWhileSaving /\ BusyHasTorrent)'
    BY <1>6, <2>1, <2>2 DEF InitSession, GuiIdle, DownIsEmpty, ToSaveOnlyWhileSaving,
       BusyHasTorrent, TypeOK
  <2> QED BY <2>2, <2>3, <2>4, <2>5
<1>7. ASSUME NEW t \in Torrents, NEW p \in Paths, NEW g \in Groups, AddTorrent(t, p, g) PROVE IInv'
  <2>1. AddedPath(t, p) \in Paths /\ AddedGroup(t, g) \in Groups
    BY <1>7, AddedType
  <2>2. path' \in [Torrents -> Paths]
    BY <1>7, <2>1 DEF AddTorrent, AddToSession, TypeOK
  <2>3. group' \in [Torrents -> Groups]
    BY <1>7, <2>1 DEF AddTorrent, StorageAppend, TypeOK, storeVars
  <2>4. TypeOK'
    BY <1>7, <2>1, <2>2, <2>3 DEF AddTorrent, AddToSession, StorageAppend, TypeOK
  <2>5. HandlesCurrent'
    BY <1>7, <2>1, <2>2, <2>3, MoreCurrent DEF AddTorrent, AddToSession, StorageAppend,
       HandlesCurrent, FreshEntriesAreLive, TypeOK
  <2>6. FreshEntriesAreLive'
    BY <1>7, <2>1, <2>2, <2>3 DEF AddTorrent, AddToSession, StorageAppend,
       FreshEntriesAreLive, HandlesCurrent, TypeOK
  <2>7. (DownIsEmpty /\ ToSaveOnlyWhileSaving /\ BusyHasTorrent)'
    BY <1>7, <2>1, <2>2, <2>3 DEF AddTorrent, AddToSession, StorageAppend, GuiIdle,
       DownIsEmpty, ToSaveOnlyWhileSaving, BusyHasTorrent, TypeOK
  <2> QED BY <2>4, <2>5, <2>6, <2>7
<1>8. ASSUME NEW t \in Torrents, RemoveTorrent(t) PROVE IInv'
  <2>1. /\ live' = live \ {t} /\ live' \subseteq Torrents
        /\ meta' \subseteq live' /\ dirty' \subseteq live'
        /\ path' \in [Torrents -> Paths] /\ zombie' \subseteq Torrents /\ hasty' \subseteq Torrents /\ reloaded' \subseteq Magnets
        /\ jobs' \in Seq(Items) /\ CurrentIn(jobs', live')
        /\ alerts' \in Seq(Items) /\ CurrentIn(alerts', live')
        /\ batch' \in Seq(Items) /\ CurrentIn(batch', live')
    BY <1>8, RemoveFromSessionKeeps DEF RemoveTorrent
  <2>2. TypeOK'
    BY <1>8, <2>1, WebLosesKeeps, DialogLosesKeeps DEF RemoveTorrent, StorageRemove,
       RemoveFiles, TypeOK, GuiIdle, ToSaveOnlyWhileSaving
  <2>3. HandlesCurrent'
    BY <1>8, <2>1, WebLosesKeeps, DialogLosesKeeps DEF RemoveTorrent, StorageRemove,
       RemoveFiles, HandlesCurrent, FreshEntriesAreLive, TypeOK
  <2>4. FreshEntriesAreLive'
    BY <1>8, <2>1, WebLosesKeeps, DialogLosesKeeps DEF RemoveTorrent, StorageRemove,
       RemoveFiles, FreshEntriesAreLive, HandlesCurrent, TypeOK
  <2>5. (DownIsEmpty /\ ToSaveOnlyWhileSaving /\ BusyHasTorrent)'
    BY <1>8, <2>1, WebLosesKeeps, DialogLosesKeeps DEF RemoveTorrent, StorageRemove,
       RemoveFiles, GuiIdle, DownIsEmpty, ToSaveOnlyWhileSaving, BusyHasTorrent, TypeOK
  <2> QED BY <2>2, <2>3, <2>4, <2>5
<1>9. ASSUME NEW t \in Torrents, NEW g \in Groups, SetGroup(t, g) PROVE IInv'
  <2>1. /\ jobs' \in Seq(Items) /\ alerts' \in Seq(Items) /\ dirty' \subseteq live
        /\ CurrentIn(jobs', live) /\ CurrentIn(alerts', live)
    BY <1>9, SaveResumeDataKeeps DEF SetGroup, TypeOK, HandlesCurrent, FreshEntriesAreLive
  <2>2. TypeOK'
    BY <1>9, <2>1 DEF SetGroup, TypeOK
  <2>3. HandlesCurrent'
    BY <1>9, <2>1 DEF SetGroup, HandlesCurrent, FreshEntriesAreLive, TypeOK
  <2>4. FreshEntriesAreLive'
    BY <1>9, <2>1 DEF SetGroup, FreshEntriesAreLive, HandlesCurrent, TypeOK
  <2>5. (DownIsEmpty /\ ToSaveOnlyWhileSaving /\ BusyHasTorrent)'
    BY <1>9, <2>1 DEF SetGroup, GuiIdle, DownIsEmpty, ToSaveOnlyWhileSaving,
       BusyHasTorrent, TypeOK
  <2> QED BY <2>2, <2>3, <2>4, <2>5
<1>10. ASSUME NEW t \in Torrents, NEW p \in Paths, MoveStorrage(t, p) PROVE IInv'
  <2>1. /\ Item("move", t, TRUE, p) \in Items
        /\ Item("move", t, TRUE, p).cur = TRUE /\ Item("move", t, TRUE, p).t = t
    BY ItemType DEF Item, Kinds
  <2>2. jobs' \in Seq(Items) /\ CurrentIn(jobs', live)
    BY <1>10, <2>1, AppendItem DEF MoveStorrage, TypeOK, HandlesCurrent, FreshEntriesAreLive
  <2>3. TypeOK'
    BY <1>10, <2>2 DEF MoveStorrage, TypeOK
  <2>4. HandlesCurrent'
    BY <1>10, <2>2 DEF MoveStorrage, HandlesCurrent, FreshEntriesAreLive, TypeOK
  <2>5. FreshEntriesAreLive'
    BY <1>10, <2>2 DEF MoveStorrage, FreshEntriesAreLive, HandlesCurrent, TypeOK
  <2>6. (DownIsEmpty /\ ToSaveOnlyWhileSaving /\ BusyHasTorrent)'
    BY <1>10, <2>2 DEF MoveStorrage, GuiIdle, DownIsEmpty, ToSaveOnlyWhileSaving,
       BusyHasTorrent, TypeOK
  <2> QED BY <2>3, <2>4, <2>5, <2>6
<1>11. ASSUME PopAlerts PROVE IInv'
  BY <1>11 DEF PopAlerts, TypeOK, HandlesCurrent, FreshEntriesAreLive, DownIsEmpty,
     ToSaveOnlyWhileSaving, BusyHasTorrent, GuiIdle, CurrentIn
<1>12. ASSUME HandleAlert PROVE IInv'
  <2> DEFINE a == Head(batch)
  <2>1. /\ phase = "up" /\ batch # <<>> /\ batch' = Tail(batch)
        /\ UNCHANGED <<phase, leaked, closeVars, live, meta, path, zombie, hasty, reloaded, storeVars,
                       dialog, webVars, legacy, snap>>
    BY <1>12 DEF HandleAlert
  <2>2. /\ Tail(batch) \in Seq(Items) /\ CurrentIn(Tail(batch), live)
        /\ a \in Items /\ (a.cur => a.t \in live)
    BY <2>1, TailItem DEF TypeOK, HandlesCurrent
  <2>3. a.t \in Torrents /\ a.cur \in BOOLEAN
    BY <2>2 DEF Items
  <2> HIDE DEF a
  <2>4. SaveResumeData(a.t, a.cur) \/ UNCHANGED <<dirty, jobs, alerts>>
    BY <1>12 DEF HandleAlert, a
  <2>5. /\ jobs' \in Seq(Items) /\ alerts' \in Seq(Items) /\ dirty' \subseteq live
        /\ CurrentIn(jobs', live) /\ CurrentIn(alerts', live)
    BY <2>2, <2>3, <2>4, SaveResumeDataKeeps DEF TypeOK, HandlesCurrent
  <2>6. /\ resume' \in [Torrents -> ResumeData \cup {None}]
        /\ torrentFile' \subseteq Torrents
    BY <1>12, <2>2, <2>3, ResumeAfterType DEF HandleAlert, TypeOK, a
  <2>7. TypeOK'
    BY <2>1, <2>2, <2>5, <2>6 DEF TypeOK
  <2>8. (HandlesCurrent /\ FreshEntriesAreLive)'
    BY <2>1, <2>2, <2>5 DEF HandlesCurrent, FreshEntriesAreLive
  <2>9. (DownIsEmpty /\ ToSaveOnlyWhileSaving /\ BusyHasTorrent)'
    BY <2>1 DEF DownIsEmpty, ToSaveOnlyWhileSaving, BusyHasTorrent
  <2> QED BY <2>7, <2>8, <2>9
<1>13. ASSUME DeliverRemove PROVE IInv'
  <2>1. TypeOK'
    BY <1>13 DEF DeliverRemove, StorageRemove, TypeOK
  <2>2. HandlesCurrent'
    BY <1>13 DEF DeliverRemove, StorageRemove, HandlesCurrent, FreshEntriesAreLive, TypeOK
  <2>3. FreshEntriesAreLive'
    BY <1>13 DEF DeliverRemove, StorageRemove, FreshEntriesAreLive, HandlesCurrent, TypeOK
  <2>4. (DownIsEmpty /\ ToSaveOnlyWhileSaving /\ BusyHasTorrent)'
    BY <1>13 DEF DeliverRemove, StorageRemove, GuiIdle, DownIsEmpty,
       ToSaveOnlyWhileSaving, BusyHasTorrent, TypeOK
  <2> QED BY <2>1, <2>2, <2>3, <2>4
<1>14. ASSUME NEW t \in Torrents, ProcessMagnetLink(t) PROVE IInv'
  <2>1. dialog' \in [Torrents -> {"closed", "waiting", "offered", "error", "lost"}]
    BY <1>14 DEF ProcessMagnetLink, TypeOK
  <2>2. path' \in [Torrents -> Paths]
    BY <1>14 DEF ProcessMagnetLink, TypeOK
  <2>3. /\ live \subseteq live' /\ live' \subseteq Torrents /\ dirty' \subseteq live'
        /\ meta \subseteq meta' /\ meta' \subseteq live' /\ reloaded' \subseteq Magnets
        /\ zombie' = zombie /\ hasty' = hasty
    BY <1>14 DEF ProcessMagnetLink, TypeOK
  <2>4. TypeOK'
    BY <1>14, <2>1, <2>2, <2>3 DEF ProcessMagnetLink, TypeOK
  <2>5. HandlesCurrent'
    BY <1>14, <2>1, <2>2, <2>3, MoreCurrent DEF ProcessMagnetLink, HandlesCurrent,
       FreshEntriesAreLive, TypeOK
  <2>6. FreshEntriesAreLive'
    BY <1>14, <2>1, <2>2, <2>3 DEF ProcessMagnetLink, FreshEntriesAreLive,
       HandlesCurrent, TypeOK
  <2>7. (DownIsEmpty /\ ToSaveOnlyWhileSaving /\ BusyHasTorrent)'
    BY <1>14, <2>1, <2>2, <2>3 DEF ProcessMagnetLink, GuiIdle, DownIsEmpty,
       ToSaveOnlyWhileSaving, BusyHasTorrent, TypeOK
  <2> QED BY <2>4, <2>5, <2>6, <2>7
<1>15. ASSUME NEW t \in Torrents, DownloadMetadataCompleted(t) PROVE IInv'
  BY <1>15 DEF DownloadMetadataCompleted, TypeOK, HandlesCurrent, FreshEntriesAreLive,
     DownIsEmpty, ToSaveOnlyWhileSaving, BusyHasTorrent, GuiIdle
<1>16. ASSUME NEW t \in Torrents, MagnetError(t) PROVE IInv'
  BY <1>16 DEF MagnetError, TypeOK, HandlesCurrent, FreshEntriesAreLive, DownIsEmpty,
     ToSaveOnlyWhileSaving, BusyHasTorrent, GuiIdle
<1>17. ASSUME NEW t \in Torrents, NEW p \in Paths, NEW g \in Groups, AddMagnet(t, p, g) PROVE IInv'
  <2>1. /\ Item("move", t, TRUE, p) \in Items
        /\ Item("move", t, TRUE, p).cur = TRUE /\ Item("move", t, TRUE, p).t = t
    BY ItemType DEF Item, Kinds
  <2>2. jobs' \in Seq(Items) /\ CurrentIn(jobs', live)
    BY <1>17, <2>1, AppendItem DEF AddMagnet, TypeOK, HandlesCurrent, FreshEntriesAreLive
  <2>3. dialog' \in [Torrents -> {"closed", "waiting", "offered", "error", "lost"}]
    BY <1>17 DEF AddMagnet, TypeOK
  <2>4. /\ stored' \subseteq Torrents /\ stale' \subseteq stored'
        /\ group' \in [Torrents -> Groups]
    BY <1>17 DEF AddMagnet, StorageAppend, TypeOK
  <2>5. TypeOK'
    BY <1>17, <2>2, <2>3, <2>4 DEF AddMagnet, StorageAppend, TypeOK
  <2>6. HandlesCurrent'
    BY <1>17, <2>2, <2>3, <2>4 DEF AddMagnet, StorageAppend, HandlesCurrent,
       FreshEntriesAreLive, TypeOK
  <2>7. FreshEntriesAreLive'
    BY <1>17, <2>2, <2>3, <2>4 DEF AddMagnet, StorageAppend, FreshEntriesAreLive,
       HandlesCurrent, TypeOK
  <2>8. (DownIsEmpty /\ ToSaveOnlyWhileSaving /\ BusyHasTorrent)'
    BY <1>17, <2>2, <2>3, <2>4 DEF AddMagnet, StorageAppend, GuiIdle, DownIsEmpty,
       ToSaveOnlyWhileSaving, BusyHasTorrent, TypeOK
  <2> QED BY <2>5, <2>6, <2>7, <2>8
<1>18. ASSUME NEW t \in Torrents, CancelMagnetLink(t) PROVE IInv'
  <2>1. CASE t \in live
    <3>1. RemoveFromSession(t) /\ stale' = EntryLoses(t) /\ web' = WebLoses(t)
      BY <1>18, <2>1 DEF CancelMagnetLink
    <3>2. /\ live' = live \ {t} /\ live' \subseteq Torrents
          /\ meta' \subseteq live' /\ dirty' \subseteq live'
          /\ path' \in [Torrents -> Paths] /\ zombie' \subseteq Torrents /\ hasty' \subseteq Torrents /\ reloaded' \subseteq Magnets
          /\ jobs' \in Seq(Items) /\ CurrentIn(jobs', live')
          /\ alerts' \in Seq(Items) /\ CurrentIn(alerts', live')
          /\ batch' \in Seq(Items) /\ CurrentIn(batch', live')
      BY <3>1, RemoveFromSessionKeeps
    <3>0. /\ dialog' \in [Torrents -> {"closed", "waiting", "offered", "error", "lost"}]
          /\ dialog'[t] = "closed" /\ \A u \in Torrents \ {t} : dialog'[u] = dialog[u]
      BY <1>18 DEF CancelMagnetLink, TypeOK
    <3>7. /\ stored' = stored /\ stale' \subseteq stored /\ torrentFile' \subseteq Torrents
          /\ UNCHANGED <<phase, leaked, closeVars, group, posted, resume, legacy, snap>>
      BY <1>18, <2>1, <3>1 DEF CancelMagnetLink, EntryLoses, TypeOK
    <3>8. toSave' \subseteq meta'
      BY <1>18, <3>7 DEF CancelMagnetLink, GuiIdle, ToSaveOnlyWhileSaving
    <3>3. TypeOK'
      BY <3>0, <3>1, <3>2, <3>7, <3>8, WebLosesKeeps DEF TypeOK
    <3>4. HandlesCurrent'
      BY <1>18, <3>0, <3>1, <3>2, WebLosesKeeps DEF CancelMagnetLink, HandlesCurrent
    <3>5. (FreshEntriesAreLive /\ DownIsEmpty /\ ToSaveOnlyWhileSaving)'
      BY <1>18, <3>1, <3>2 DEF CancelMagnetLink, EntryLoses, GuiIdle, FreshEntriesAreLive,
         DownIsEmpty, ToSaveOnlyWhileSaving
    <3>6. BusyHasTorrent'
      BY <3>1, WebLosesKeeps DEF BusyHasTorrent
    <3> QED BY <3>3, <3>4, <3>5, <3>6
  <2>2. CASE t \notin live
    BY <1>18, <2>2 DEF CancelMagnetLink, GuiIdle, TypeOK, HandlesCurrent,
       FreshEntriesAreLive,
       DownIsEmpty, ToSaveOnlyWhileSaving, BusyHasTorrent
  <2> QED BY <2>1, <2>2
<1>19. ASSUME NEW w \in WebThreads, NEW t \in Torrents, WebRemoveFiles(w, t) PROVE IInv'
  <2>1. TypeOK'
    BY <1>19 DEF WebRemoveFiles, RemoveFiles, TypeOK
  <2>2. HandlesCurrent'
    BY <1>19 DEF WebRemoveFiles, RemoveFiles, HandlesCurrent, FreshEntriesAreLive, TypeOK
  <2>3. FreshEntriesAreLive'
    BY <1>19 DEF WebRemoveFiles, RemoveFiles, FreshEntriesAreLive, HandlesCurrent, TypeOK
  <2>4. (DownIsEmpty /\ ToSaveOnlyWhileSaving /\ BusyHasTorrent)'
    BY <1>19 DEF WebRemoveFiles, RemoveFiles, GuiIdle, DownIsEmpty,
       ToSaveOnlyWhileSaving, BusyHasTorrent, TypeOK
  <2> QED BY <2>1, <2>2, <2>3, <2>4
<1>20. ASSUME NEW w \in WebThreads, WebRemoveSession(w) PROVE IInv'
  <2>0. web[w].t \in Torrents
    BY <1>20 DEF WebRemoveSession, BusyHasTorrent
  <2>1. CASE web[w].cur \/ web[w].t \in zombie
    <3> DEFINE t == web[w].t
    <3>1. /\ RemoveFromSession(t) /\ stale' = EntryLoses(t) /\ dialog' = DialogLoses(t)
          /\ web' = [WebLoses(t) EXCEPT ![w] = WebIdle]
          /\ phase = "up"
          /\ UNCHANGED <<phase, leaked, closeVars, stored, group, posted, fileVars, snap>>
      BY <1>20, <2>1 DEF WebRemoveSession
    <3>2. t \in Torrents
      BY <2>0
    <3> HIDE DEF t
    <3>3. /\ live' = live \ {t} /\ live' \subseteq Torrents
          /\ meta' \subseteq live' /\ dirty' \subseteq live'
          /\ path' \in [Torrents -> Paths] /\ zombie' \subseteq Torrents /\ hasty' \subseteq Torrents /\ reloaded' \subseteq Magnets
          /\ jobs' \in Seq(Items) /\ CurrentIn(jobs', live')
          /\ alerts' \in Seq(Items) /\ CurrentIn(alerts', live')
          /\ batch' \in Seq(Items) /\ CurrentIn(batch', live')
      BY <3>1, <3>2, RemoveFromSessionKeeps
    <3>4. WebIdle.cur = FALSE /\ WebIdle.op = "idle"
          /\ WebIdle \in [op : {"idle", "remove", "store", "copy"},
                         t : Torrents \cup {None}, cur : BOOLEAN, g : Groups]
      BY DEF WebIdle
    <3>9. /\ web' \in [WebThreads -> [op : {"idle", "remove", "store", "copy"},
                                     t : Torrents \cup {None}, cur : BOOLEAN, g : Groups]]
      BY <3>1, <3>2, <3>4, WebLosesKeeps
    <3>10. stale' \subseteq stored /\ toSave' \subseteq meta'
      BY <3>1 DEF EntryLoses, TypeOK, ToSaveOnlyWhileSaving
    <3>5. TypeOK'
      BY <3>1, <3>2, <3>3, <3>9, <3>10, DialogLosesKeeps DEF TypeOK
    <3>6. HandlesCurrent'
      BY <3>1, <3>2, <3>3, <3>4, WebLosesKeeps, DialogLosesKeeps DEF HandlesCurrent
    <3>7. (FreshEntriesAreLive /\ DownIsEmpty /\ ToSaveOnlyWhileSaving)'
      BY <3>1, <3>2, <3>3 DEF EntryLoses, FreshEntriesAreLive, DownIsEmpty,
         ToSaveOnlyWhileSaving
    <3>8. BusyHasTorrent'
      BY <3>1, <3>2, <3>4, WebLosesKeeps DEF BusyHasTorrent
    <3> QED BY <3>5, <3>6, <3>7, <3>8
  <2>2. CASE ~(web[w].cur \/ web[w].t \in zombie)
    <3>1. /\ phase = "up" /\ web' = [web EXCEPT ![w] = WebIdle]
          /\ UNCHANGED <<phase, leaked, closeVars, torrentVars, queueVars, storeVars, dialog,
                         posted, fileVars, snap>>
      BY <1>20, <2>2 DEF WebRemoveSession
    <3>2. WebIdle.cur = FALSE /\ WebIdle.op = "idle"
          /\ WebIdle \in [op : {"idle", "remove", "store", "copy"},
                         t : Torrents \cup {None}, cur : BOOLEAN, g : Groups]
      BY DEF WebIdle
    <3>3. TypeOK'
      BY <3>1, <3>2 DEF TypeOK
    <3>4. (HandlesCurrent /\ FreshEntriesAreLive /\ DownIsEmpty /\ ToSaveOnlyWhileSaving
           /\ BusyHasTorrent)'
      BY <3>1, <3>2 DEF TypeOK, HandlesCurrent, FreshEntriesAreLive, DownIsEmpty,
         ToSaveOnlyWhileSaving, BusyHasTorrent
    <3> QED BY <3>3, <3>4
  <2> QED BY <2>1, <2>2
<1>21. ASSUME NEW w \in WebThreads, NEW t \in Torrents, NEW p \in Paths, WebAddSession(w, t, p) PROVE IInv'
  <2>1. TypeOK'
    BY <1>21, AddedType DEF WebAddSession, AddToSession, TypeOK
  <2>2. HandlesCurrent'
    BY <1>21, AddedType, MoreCurrent DEF WebAddSession, AddToSession, HandlesCurrent,
       FreshEntriesAreLive, TypeOK
  <2>3. FreshEntriesAreLive'
    BY <1>21, AddedType DEF WebAddSession, AddToSession, FreshEntriesAreLive,
       HandlesCurrent, TypeOK
  <2>4. (DownIsEmpty /\ ToSaveOnlyWhileSaving /\ BusyHasTorrent)'
    BY <1>21, AddedType DEF WebAddSession, AddToSession, GuiIdle, DownIsEmpty,
       ToSaveOnlyWhileSaving, BusyHasTorrent, TypeOK
  <2> QED BY <2>1, <2>2, <2>3, <2>4
<1>22. ASSUME NEW w \in WebThreads, WebAddStore(w) PROVE IInv'
  <2>1. web[w].t \in Torrents /\ web[w].g \in Groups
    BY <1>22 DEF WebAddStore, BusyHasTorrent, TypeOK
  <2>2. group' \in [Torrents -> Groups]
    BY <1>22, <2>1 DEF WebAddStore, TypeOK
  <2>3. stored' \subseteq Torrents /\ stale' \subseteq stored'
    BY <1>22, <2>1 DEF WebAddStore, TypeOK
  <2>4. web' = [web EXCEPT ![w] = [web[w] EXCEPT !.op = "copy"]]
    BY <1>22 DEF WebAddStore
  <2>5. web' \in [WebThreads -> [op : {"idle", "remove", "store", "copy"},
                                 t : Torrents \cup {None}, cur : BOOLEAN, g : Groups]]
    BY <2>4, CopyType DEF TypeOK
  <2>6. TypeOK'
    BY <1>22, <2>1, <2>2, <2>3, <2>4, <2>5 DEF WebAddStore, TypeOK
  <2>7. HandlesCurrent'
    BY <1>22, <2>1, <2>2, <2>3, <2>4, <2>5 DEF WebAddStore, HandlesCurrent,
       FreshEntriesAreLive, TypeOK
  <2>8. FreshEntriesAreLive'
    BY <1>22, <2>1, <2>2, <2>3, <2>4, <2>5 DEF WebAddStore, FreshEntriesAreLive,
       HandlesCurrent, TypeOK
  <2>9. (DownIsEmpty /\ ToSaveOnlyWhileSaving /\ BusyHasTorrent)'
    BY <1>22, <2>1, <2>2, <2>3, <2>4, <2>5 DEF WebAddStore, GuiIdle, DownIsEmpty,
       ToSaveOnlyWhileSaving, BusyHasTorrent, TypeOK
  <2> QED BY <2>6, <2>7, <2>8, <2>9
<1>23. ASSUME NEW w \in WebThreads, WebAddCopy(w) PROVE IInv'
  <2>1. web[w].t \in Torrents
    BY <1>23 DEF WebAddCopy, BusyHasTorrent
  <2>2. TypeOK'
    BY <1>23, <2>1 DEF WebAddCopy, WebIdle, TypeOK
  <2>3. HandlesCurrent'
    BY <1>23, <2>1 DEF WebAddCopy, WebIdle, HandlesCurrent, FreshEntriesAreLive, TypeOK
  <2>4. FreshEntriesAreLive'
    BY <1>23, <2>1 DEF WebAddCopy, WebIdle, FreshEntriesAreLive, HandlesCurrent, TypeOK
  <2>5. (DownIsEmpty /\ ToSaveOnlyWhileSaving /\ BusyHasTorrent)'
    BY <1>23, <2>1 DEF WebAddCopy, WebIdle, GuiIdle, DownIsEmpty, ToSaveOnlyWhileSaving,
       BusyHasTorrent, TypeOK
  <2> QED BY <2>2, <2>3, <2>4, <2>5
<1>24. ASSUME Crash PROVE IInv'
  BY <1>24, GoneKeeps DEF Crash
<1>25. ASSUME CloseStart PROVE IInv'
  BY <1>25 DEF CloseStart, TypeOK, HandlesCurrent, FreshEntriesAreLive, DownIsEmpty,
     ToSaveOnlyWhileSaving, BusyHasTorrent, GuiIdle
<1>26. ASSUME NEW t \in Torrents, CloseAsk(t) PROVE IInv'
  <2>1. /\ jobs' \in Seq(Items) /\ alerts' \in Seq(Items) /\ dirty' \subseteq live
        /\ CurrentIn(jobs', live) /\ CurrentIn(alerts', live)
    BY <1>26, SaveResumeDataKeeps DEF CloseAsk, TypeOK, HandlesCurrent, FreshEntriesAreLive
  <2>2. TypeOK'
    BY <1>26, <2>1 DEF CloseAsk, TypeOK
  <2>3. HandlesCurrent'
    BY <1>26, <2>1 DEF CloseAsk, HandlesCurrent, FreshEntriesAreLive, TypeOK
  <2>4. FreshEntriesAreLive'
    BY <1>26, <2>1 DEF CloseAsk, FreshEntriesAreLive, HandlesCurrent, TypeOK
  <2>5. (DownIsEmpty /\ ToSaveOnlyWhileSaving /\ BusyHasTorrent)'
    BY <1>26, <2>1 DEF CloseAsk, GuiIdle, DownIsEmpty, ToSaveOnlyWhileSaving,
       BusyHasTorrent, TypeOK
  <2> QED BY <2>2, <2>3, <2>4, <2>5
<1>27. ASSUME CloseWait PROVE IInv'
  BY <1>27 DEF CloseWait, TypeOK, HandlesCurrent, FreshEntriesAreLive, DownIsEmpty,
     ToSaveOnlyWhileSaving, BusyHasTorrent, GuiIdle
<1>28. ASSUME ClosePop PROVE IInv'
  BY <1>28 DEF ClosePop, TypeOK, HandlesCurrent, FreshEntriesAreLive, DownIsEmpty,
     ToSaveOnlyWhileSaving, BusyHasTorrent, GuiIdle, CurrentIn
<1>29. ASSUME CloseHandle PROVE IInv'
  <2> DEFINE a == Head(batch)
  <2>1. /\ phase = "draining" /\ batch # <<>> /\ batch' = Tail(batch)
        /\ UNCHANGED <<phase, leaked, toSave, clean, torrentVars, jobs, alerts, storeVars,
                       dialog, webVars, torrentFile, legacy, snap>>
    BY <1>29 DEF CloseHandle
  <2>2. /\ Tail(batch) \in Seq(Items) /\ CurrentIn(Tail(batch), live) /\ a \in Items
    BY <2>1, TailItem DEF TypeOK, HandlesCurrent
  <2> HIDE DEF a
  <2>3. outstanding' \in Int
    BY <1>29 DEF CloseHandle, TypeOK
  <2>4. resume' \in [Torrents -> ResumeData \cup {None}]
    BY <1>29, <2>2, ResumeAfterType DEF CloseHandle, TypeOK, a
  <2>5. TypeOK'
    BY <2>1, <2>2, <2>3, <2>4 DEF TypeOK
  <2>6. (HandlesCurrent /\ FreshEntriesAreLive)'
    BY <2>1, <2>2 DEF HandlesCurrent, FreshEntriesAreLive
  <2>7. (DownIsEmpty /\ ToSaveOnlyWhileSaving /\ BusyHasTorrent)'
    BY <2>1 DEF DownIsEmpty, ToSaveOnlyWhileSaving, BusyHasTorrent
  <2> QED BY <2>5, <2>6, <2>7
<1>30. ASSUME CloseDone PROVE IInv'
  <2>1. snap' \in Snapshots \cup {None}
    BY <1>30 DEF CloseDone, Snapshots, TypeOK
  <2> QED BY <1>30, <2>1, GoneKeeps DEF CloseDone
<1>31. CASE UNCHANGED vars
  BY <1>31 DEF vars, TypeOK, HandlesCurrent, FreshEntriesAreLive, DownIsEmpty,
     ToSaveOnlyWhileSaving, BusyHasTorrent
<1>32. CASE Libtorrent
  BY <1>32, <1>1, <1>2, <1>3, <1>4, <1>5 DEF Libtorrent
<1>33. CASE Gui
  BY <1>33, <1>6, <1>7, <1>8, <1>9, <1>10, <1>11, <1>12, <1>13, <1>14, <1>15, <1>16,
     <1>17, <1>18 DEF Gui
<1>34. CASE Web
  BY <1>34, <1>19, <1>20, <1>21, <1>22, <1>23 DEF Web
<1>35. CASE Closing
  BY <1>35, <1>25, <1>26, <1>27, <1>28, <1>29, <1>30 DEF Closing
<1> QED
  BY <1>32, <1>33, <1>34, <1>35, <1>24, <1>31 DEF Next

(* IInv holds throughout. *)
LEMMA Invariance == Spec => []IInv
<1>1. Init => IInv
  BY InitIInv
<1>2. IInv /\ [Next]_vars => IInv'
  BY StepKeepsIInv
<1> QED BY <1>1, <1>2, PTL DEF Spec

(* The variables have their types, for any torrents, paths and threads. *)
THEOREM TypeCorrect == Spec => []TypeOK
<1>1. IInv => TypeOK
  BY DEF IInv
<1> QED BY <1>1, Invariance, PTL

(* An entry of TorrentStorrage with a current handle is a torrent of the   *)
(* session, whatever the order of the GUI thread's, the magnet dialogs'    *)
(* and the web threads' removals.                                          *)
THEOREM EntriesAreLive == Spec => []FreshEntriesAreLive
<1>1. IInv => FreshEntriesAreLive
  BY DEF IInv
<1> QED BY <1>1, Invariance, PTL
=============================================================================
