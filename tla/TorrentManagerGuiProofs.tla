---------------------- MODULE TorrentManagerGuiProofs -----------------------
(***************************************************************************)
(* What holds of TorrentManager when nothing but the GUI thread calls it:  *)
(* no magnet links are opened and the web server is off.                   *)
(***************************************************************************)
EXTENDS TorrentManagerProofs

(* No alert in q announces metadata. *)
NoMetadataIn(q) == \A i \in DOMAIN q : q[i].kind # "metadata"

(* Without magnet links and web threads every torrent of the session has   *)
(* its metadata, nothing is removed behind the GUI's back, and no alert    *)
(* makes the program write a .torrent file.                                *)
GuiInv ==
    /\ SessionStorageDiskAgree
    /\ meta = live /\ stale = {} /\ posted = <<>>
    /\ \A t \in Torrents : dialog[t] = "closed"
    /\ NoMetadataIn(alerts) /\ NoMetadataIn(batch)

(* Posting another kind of alert announces no metadata. *)
LEMMA AppendNoMetadata ==
    ASSUME NEW q \in Seq(Items), NEW x \in Items, NoMetadataIn(q), x.kind # "metadata"
    PROVE  NoMetadataIn(Append(q, x))
BY DEF NoMetadataIn

(* Nor does taking one out. *)
LEMMA TailNoMetadata ==
    ASSUME NEW q \in Seq(Items), q # <<>>, NoMetadataIn(q)
    PROVE  NoMetadataIn(Tail(q)) /\ Head(q).kind # "metadata"
BY DEF NoMetadataIn

(* Nor does removing a torrent. *)
LEMMA OrphanNoMetadata ==
    ASSUME NEW q \in Seq(Items), NEW t \in Torrents, NoMetadataIn(q)
    PROVE  NoMetadataIn(Orphan(q, t))
<1>1. ASSUME NEW i \in DOMAIN q PROVE Orphan(q, t)[i].kind = q[i].kind
  <2>1. q[i] \in Items
    OBVIOUS
  <2> QED BY <2>1 DEF Orphan, Items
<1> QED BY <1>1 DEF NoMetadataIn, Orphan

(* save_resume_data answers with other alerts. *)
LEMMA SaveResumeDataNoMetadata ==
    ASSUME NEW t \in Torrents, NEW c \in BOOLEAN, TypeOK, NoMetadataIn(alerts),
           SaveResumeData(t, c)
    PROVE  NoMetadataIn(alerts')
<1>1. /\ Item("failed", t, c, NoPath) \in Items
      /\ Item("failed", t, c, NoPath).kind # "metadata"
  BY ItemType, ConstantsAssumption DEF Item, Kinds
<1>2. /\ Item("saved", t, TRUE, path[t]) \in Items
      /\ Item("saved", t, TRUE, path[t]).kind # "metadata"
  BY ItemType DEF Item, Kinds, TypeOK
<1> QED BY <1>1, <1>2, AppendNoMetadata DEF SaveResumeData, TypeOK
-----------------------------------------------------------------------------
(* At the start there is nothing but CT_DATA. *)
LEMMA InitGuiInv ==
    ASSUME Init PROVE GuiInv
BY DEF Init, GuiInv, SessionStorageDiskAgree, NoMetadataIn

(* The steps libtorrent takes. *)
LEMMA LibtorrentKeepsGuiInv ==
    ASSUME IInv, GuiInv, Libtorrent
    PROVE  GuiInv'
<1> USE ConstantsAssumption DEF closeVars, torrentVars, queueVars, storeVars, webVars, fileVars
<1>1. CASE RunJob
  <2> DEFINE j == Head(jobs)
  <2>1. j \in Items /\ j.t \in Torrents /\ j.cur \in BOOLEAN /\ j.p \in Paths
    <3>1. j \in Items
      BY <1>1, TailItem DEF RunJob, IInv, TypeOK, HandlesCurrent
    <3> QED BY <3>1 DEF Items
  <2> HIDE DEF j
  <2>2. ASSUME NEW k \in Kinds, k # "metadata", NEW c \in BOOLEAN, NEW p \in Paths,
               alerts' = Append(alerts, Item(k, j.t, c, p))
        PROVE  NoMetadataIn(alerts')
    <3>1. Item(k, j.t, c, p) \in Items /\ Item(k, j.t, c, p).kind # "metadata"
      BY <2>1, <2>2, ItemType DEF Item
    <3> QED BY <2>2, <3>1, AppendNoMetadata DEF GuiInv, IInv, TypeOK
  <2>3. NoMetadataIn(alerts')
    <3>1. CASE alerts' = Append(alerts, Item("saved", j.t, j.cur,
                                             IF j.cur THEN path[j.t] ELSE j.p))
      <4>1. (IF j.cur THEN path[j.t] ELSE j.p) \in Paths
        BY <2>1 DEF IInv, TypeOK
      <4> QED BY <3>1, <4>1, <2>1, <2>2 DEF Kinds
    <3>2. CASE alerts' = Append(alerts, Item("failed", j.t, FALSE, NoPath))
      BY <3>2, <2>2 DEF Kinds
    <3>3. CASE alerts' = Append(alerts, Item("moved", j.t, j.cur, j.p))
      BY <3>3, <2>1, <2>2 DEF Kinds
    <3>4. CASE UNCHANGED alerts
      BY <3>4 DEF GuiInv
    <3> QED BY <1>1, <3>1, <3>2, <3>3, <3>4 DEF RunJob, SaveDone, MoveDone, j
  <2> QED BY <1>1, <2>3 DEF RunJob, GuiInv, SessionStorageDiskAgree
<1>2. ASSUME NEW t \in Torrents, Finish(t) PROVE GuiInv'
  <2>1. /\ Item("finished", t, TRUE, NoPath) \in Items
        /\ Item("finished", t, TRUE, NoPath).kind # "metadata"
    BY ItemType DEF Item, Kinds
  <2>2. NoMetadataIn(alerts')
    BY <1>2, <2>1, AppendNoMetadata DEF Finish, GuiInv, IInv, TypeOK
  <2> QED BY <1>2, <2>2 DEF Finish, GuiInv, SessionStorageDiskAgree
<1>3. ASSUME NEW t \in Torrents, Progress(t) \/ Expire(t) PROVE GuiInv'
  BY <1>3 DEF Progress, Expire, GuiInv, SessionStorageDiskAgree
<1>4. ASSUME NEW t \in Torrents, MetadataReceived(t) PROVE GuiInv'
  BY <1>4 DEF MetadataReceived, GuiInv
<1> QED BY <1>1, <1>2, <1>3, <1>4 DEF Libtorrent

(* remove_torrent takes the torrent out and leaves the queues without metadata. *)
LEMMA RemoveFromSessionNoMetadata ==
    ASSUME NEW t \in Torrents, IInv, GuiInv, RemoveFromSession(t)
    PROVE  /\ live' = live \ {t} /\ meta' = meta \ {t}
           /\ NoMetadataIn(alerts') /\ NoMetadataIn(batch')
BY OrphanNoMetadata DEF RemoveFromSession, GuiInv, IInv, TypeOK

(* The steps of the GUI thread. *)
LEMMA GuiKeepsGuiInv ==
    ASSUME IInv, GuiInv, Gui, Magnets = {}
    PROVE  GuiInv'
<1> USE ConstantsAssumption DEF closeVars, torrentVars, queueVars, storeVars, webVars, fileVars
<1>1. CASE InitSession
  BY <1>1 DEF InitSession, GuiInv, SessionStorageDiskAgree, IInv
<1>2. CASE PopAlerts
  BY <1>2 DEF PopAlerts, GuiInv, SessionStorageDiskAgree, NoMetadataIn
<1>3. CASE HandleAlert
  <2> DEFINE a == Head(batch)
  <2>1. /\ a \in Items /\ a.t \in Torrents /\ a.cur \in BOOLEAN
        /\ a.kind # "metadata" /\ NoMetadataIn(Tail(batch))
    <3>1. a \in Items
      BY <1>3, TailItem DEF HandleAlert, IInv, TypeOK, HandlesCurrent
    <3>2. a.kind # "metadata" /\ NoMetadataIn(Tail(batch))
      BY <1>3, TailNoMetadata DEF HandleAlert, IInv, TypeOK, GuiInv
    <3> QED BY <3>1, <3>2 DEF Items
  <2> HIDE DEF a
  <2>2. SaveResumeData(a.t, a.cur) \/ UNCHANGED <<dirty, jobs, alerts>>
    BY <1>3 DEF HandleAlert, a
  <2>3. NoMetadataIn(alerts')
    BY <2>1, <2>2, SaveResumeDataNoMetadata DEF IInv, GuiInv
  <2>4. torrentFile' = torrentFile
    BY <1>3, <2>1 DEF HandleAlert, a
  <2>5. batch' = Tail(batch)
    BY <1>3 DEF HandleAlert
  <2> QED BY <1>3, <2>1, <2>3, <2>4, <2>5 DEF HandleAlert, GuiInv, SessionStorageDiskAgree
<1>4. CASE DeliverRemove
  BY <1>4 DEF DeliverRemove, GuiInv
<1>5. ASSUME NEW t \in Torrents, NEW p \in Paths, NEW g \in Groups, AddTorrent(t, p, g)
      PROVE  GuiInv'
  <2>1. /\ live' = live \cup {t} /\ meta' = meta \cup {t}
        /\ torrentFile' = torrentFile \cup {t}
        /\ phase = "up" /\ UNCHANGED <<phase, posted, dialog, queueVars>>
    BY <1>5 DEF AddTorrent, AddToSession, GuiIdle
  <2>2. stored' = stored \cup {t} /\ stale' = stale
    BY <1>5 DEF AddTorrent, StorageAppend
  <2> QED BY <2>1, <2>2 DEF GuiInv, SessionStorageDiskAgree
<1>6. ASSUME NEW t \in Torrents, RemoveTorrent(t) PROVE GuiInv'
  <2>1. /\ phase = "up" /\ phase' = phase /\ posted' = posted
        /\ stored' = stored \ {t} /\ stale' = stale \ {t}
        /\ torrentFile' = torrentFile \ {t}
        /\ RemoveFromSession(t) /\ dialog' = DialogLoses(t)
    BY <1>6 DEF RemoveTorrent, StorageRemove, RemoveFiles, GuiIdle
  <2>2. dialog' = dialog
    BY <2>1 DEF DialogLoses, GuiInv
  <2> QED BY <2>1, <2>2, RemoveFromSessionNoMetadata DEF GuiInv, SessionStorageDiskAgree
<1>7. ASSUME NEW t \in Torrents, NEW g \in Groups, SetGroup(t, g) PROVE GuiInv'
  <2>1. SaveResumeData(t, t \notin stale) \/ UNCHANGED <<dirty, jobs, alerts>>
    BY <1>7 DEF SetGroup
  <2>2. NoMetadataIn(alerts')
    BY <2>1, SaveResumeDataNoMetadata DEF IInv, GuiInv
  <2> QED BY <1>7, <2>2 DEF SetGroup, GuiInv, SessionStorageDiskAgree
<1>8. ASSUME NEW t \in Torrents, NEW p \in Paths, MoveStorrage(t, p) PROVE GuiInv'
  BY <1>8 DEF MoveStorrage, GuiInv, SessionStorageDiskAgree
<1>9. ASSUME NEW t \in Torrents, NEW p \in Paths, NEW g \in Groups,
             \/ AddMagnet(t, p, g) \/ ProcessMagnetLink(t) \/ DownloadMetadataCompleted(t)
             \/ MagnetError(t) \/ CancelMagnetLink(t)
      PROVE  FALSE
  BY <1>9 DEF AddMagnet, ProcessMagnetLink, DownloadMetadataCompleted, MagnetError,
     CancelMagnetLink, GuiInv
<1> QED BY <1>1, <1>2, <1>3, <1>4, <1>5, <1>6, <1>7, <1>8, <1>9 DEF Gui

(* The end of the process, onClose's steps before it, and stuttering. *)
LEMMA ClosingKeepsGuiInv ==
    ASSUME IInv, GuiInv, Closing \/ Crash \/ UNCHANGED vars
    PROVE  GuiInv'
<1> USE ConstantsAssumption DEF closeVars, torrentVars, queueVars, storeVars, webVars, fileVars
<1>1. ASSUME Gone PROVE GuiInv'
  BY <1>1 DEF Gone, GuiInv, SessionStorageDiskAgree, NoMetadataIn
<1>2. CASE Crash \/ CloseDone
  BY <1>1, <1>2 DEF Crash, CloseDone
<1>3. CASE CloseStart \/ CloseWait \/ UNCHANGED vars
  BY <1>3 DEF CloseStart, CloseWait, vars, GuiInv, SessionStorageDiskAgree
<1>4. CASE ClosePop
  BY <1>4 DEF ClosePop, GuiInv, SessionStorageDiskAgree, NoMetadataIn
<1>5. CASE CloseHandle
  <2>1. NoMetadataIn(batch')
    BY <1>5, TailNoMetadata DEF CloseHandle, GuiInv, IInv, TypeOK
  <2> QED BY <1>5, <2>1 DEF CloseHandle, GuiInv, SessionStorageDiskAgree
<1>6. ASSUME NEW t \in Torrents, CloseAsk(t) PROVE GuiInv'
  <2>1. NoMetadataIn(alerts')
    BY <1>6, SaveResumeDataNoMetadata DEF CloseAsk, IInv, GuiInv
  <2> QED BY <1>6, <2>1 DEF CloseAsk, GuiInv, SessionStorageDiskAgree
<1> QED BY <1>2, <1>3, <1>4, <1>5, <1>6 DEF Closing

(* With the GUI thread alone, the session, TorrentStorrage and the .torrent *)
(* files of CT_DATA agree between any two steps.                           *)
THEOREM GuiAgreement ==
    ASSUME Magnets = {}, WebThreads = {}
    PROVE  Spec => []SessionStorageDiskAgree
<1>1. Init => GuiInv
  BY InitGuiInv
<1>2. IInv /\ GuiInv /\ [Next]_vars => GuiInv'
  <2> SUFFICES ASSUME IInv, GuiInv, [Next]_vars PROVE GuiInv'
    OBVIOUS
  <2>1. ~Web
    BY DEF Web
  <2> QED
    BY <2>1, LibtorrentKeepsGuiInv, GuiKeepsGuiInv, ClosingKeepsGuiInv DEF Next
<1>3. GuiInv => SessionStorageDiskAgree
  BY DEF GuiInv
<1> QED BY <1>1, <1>2, <1>3, Invariance, PTL DEF Spec
-----------------------------------------------------------------------------
(* The group on disk *)

(* GroupSaved at any time, onClose included. *)
GroupsKept ==
    \A t \in (stored \cap meta) \ dirty :
        SaveInFlight(t) \/ (resume[t] # None /\ resume[t].group = group[t])

(* A save that save_resume_data accepts is in flight; one it refuses leaves *)
(* the torrent as dirty as it was; and no save of another torrent is lost. *)
LEMMA SaveResumeDataInFlight ==
    ASSUME NEW t \in Torrents, NEW c \in BOOLEAN, TypeOK, SaveResumeData(t, c)
    PROVE  /\ \A u \in Torrents : Queued(jobs, {"save"}, u) => Queued(jobs', {"save"}, u)
           /\ \A u \in Torrents : Queued(alerts, {"saved"}, u) => Queued(alerts', {"saved"}, u)
           /\ c /\ t \in meta => SaveInFlight(t)'
           /\ \A u \in Torrents : u \notin dirty' => u \notin dirty \/ SaveInFlight(u)'
<1> USE ConstantsAssumption
<1>1. /\ Item("save", t, TRUE, NoPath) \in Items
      /\ Item("save", t, TRUE, NoPath).kind = "save"
      /\ Item("save", t, TRUE, NoPath).t = t /\ Item("save", t, TRUE, NoPath).cur
  BY ItemType DEF Item, Kinds
<1>2. Item("failed", t, c, NoPath) \in Items
  BY ItemType DEF Kinds
<1>3. /\ Item("saved", t, TRUE, path[t]) \in Items
      /\ Item("saved", t, TRUE, path[t]).kind = "saved"
      /\ Item("saved", t, TRUE, path[t]).t = t /\ Item("saved", t, TRUE, path[t]).cur
  BY ItemType DEF Item, Kinds, TypeOK
<1>4. jobs \in Seq(Items) /\ alerts \in Seq(Items)
  BY DEF TypeOK
<1>5. CASE /\ c /\ t \in meta /\ dirty' = dirty \ {t} /\ UNCHANGED alerts
           /\ jobs' = Append(jobs, Item("save", t, TRUE, NoPath))
  <2>1. Queued(jobs', {"save"}, t)
    BY <1>1, <1>4, <1>5, AppendQueued
  <2>2. SaveInFlight(t)'
    BY <2>1 DEF SaveInFlight
  <2>3. \A u \in Torrents : Queued(jobs, {"save"}, u) => Queued(jobs', {"save"}, u)
    BY <1>1, <1>4, <1>5, AppendQueued
  <2> QED BY <1>5, <2>2, <2>3
<1>6. CASE /\ c /\ t \in meta /\ dirty' = dirty \ {t} /\ UNCHANGED jobs
           /\ alerts' = Append(alerts, Item("saved", t, TRUE, path[t]))
  <2>1. Queued(alerts', {"saved"}, t)
    BY <1>3, <1>4, <1>6, AppendQueued
  <2>2. SaveInFlight(t)'
    BY <2>1 DEF SaveInFlight
  <2>3. \A u \in Torrents : Queued(alerts, {"saved"}, u) => Queued(alerts', {"saved"}, u)
    BY <1>3, <1>4, <1>6, AppendQueued
  <2> QED BY <1>6, <2>2, <2>3
<1>7. CASE /\ ~(c /\ t \in meta) /\ UNCHANGED <<dirty, jobs>>
           /\ alerts' = Append(alerts, Item("failed", t, c, NoPath))
  BY <1>2, <1>4, <1>7, AppendQueued
<1> QED BY <1>5, <1>6, <1>7 DEF SaveResumeData

(* Whatever libtorrent does, a torrent's save is not lost and a torrent that *)
(* turns clean has its save in flight.                                     *)
LEMMA LibtorrentKeepsGroups ==
    ASSUME IInv, GuiInv, GroupsKept, Libtorrent
    PROVE  GroupsKept'
<1> USE ConstantsAssumption DEF closeVars, torrentVars, queueVars, storeVars, webVars, fileVars
<1>1. CASE RunJob
  <2> DEFINE j == Head(jobs)
  <2>1. j \in Items
    BY <1>1, TailItem DEF RunJob, IInv, TypeOK, HandlesCurrent
  <2>2. j.t \in Torrents /\ j.cur \in BOOLEAN /\ j.p \in Paths /\ j.kind \in Kinds
    BY <2>1 DEF Items
  <2>3. SaveDone(j) \/ MoveDone(j)
    BY <1>1 DEF RunJob
  <2>4. /\ jobs \in Seq(Items) /\ jobs # <<>> /\ jobs' = Tail(jobs)
        /\ alerts \in Seq(Items)
        /\ UNCHANGED <<phase, batch, meta, stored, group, resume>>
    BY <1>1 DEF RunJob, IInv, TypeOK
  <2>5. \A t : Queued(jobs, {"save"}, t) =>
                  Queued(jobs', {"save"}, t) \/ (j.kind = "save" /\ j.t = t /\ j.cur)
    BY <2>4, TailQueued
  <2> HIDE DEF j
  <2>6. ASSUME NEW k \in Kinds, NEW c \in BOOLEAN, NEW p \in Paths,
               alerts' = Append(alerts, Item(k, j.t, c, p))
        PROVE  /\ \A t : Queued(alerts, {"saved"}, t) => Queued(alerts', {"saved"}, t)
               /\ k = "saved" /\ c => Queued(alerts', {"saved"}, j.t)
    <3>1. /\ Item(k, j.t, c, p) \in Items /\ Item(k, j.t, c, p).kind = k
          /\ Item(k, j.t, c, p).t = j.t /\ Item(k, j.t, c, p).cur = c
      BY <2>2, ItemType DEF Item
    <3> QED BY <2>4, <2>6, <3>1, AppendQueued
  <2>7. /\ \A t : Queued(alerts, {"saved"}, t) => Queued(alerts', {"saved"}, t)
        /\ j.kind = "save" /\ j.cur => Queued(alerts', {"saved"}, j.t)
        /\ \A t : t \in dirty /\ t \notin dirty' => Queued(alerts', {"saved"}, t)
    <3>1. CASE /\ j.kind = "save"
               /\ alerts' = Append(alerts, Item("saved", j.t, j.cur,
                                               IF j.cur THEN path[j.t] ELSE j.p))
               /\ dirty' = IF j.cur THEN dirty \ {j.t} ELSE dirty
      <4>1. (IF j.cur THEN path[j.t] ELSE j.p) \in Paths
        BY <2>2 DEF IInv, TypeOK
      <4> QED BY <3>1, <4>1, <2>2, <2>6 DEF Kinds
    <3>2. CASE /\ ~j.cur /\ UNCHANGED dirty
               /\ alerts' = Append(alerts, Item("failed", j.t, FALSE, NoPath))
      BY <3>2, <2>6 DEF Kinds
    <3>3. CASE /\ j.kind = "move"
               /\ alerts' = Append(alerts, Item("moved", j.t, j.cur, j.p))
               /\ dirty \subseteq dirty'
      BY <3>3, <2>2, <2>6 DEF Kinds
    <3>4. CASE j.kind = "move" /\ UNCHANGED <<alerts, dirty, path>>
      BY <3>4
    <3> QED BY <2>3, <3>1, <3>2, <3>3, <3>4 DEF SaveDone, MoveDone
  <2> QED BY <2>4, <2>5, <2>7 DEF GroupsKept, SaveInFlight
<1>2. ASSUME NEW t \in Torrents, Finish(t) PROVE GroupsKept'
  <2>1. Item("finished", t, TRUE, NoPath) \in Items
    BY ItemType DEF Kinds
  <2>2. \A u : Queued(alerts, {"saved"}, u) => Queued(alerts', {"saved"}, u)
    BY <1>2, <2>1, AppendQueued DEF Finish, IInv, TypeOK
  <2> QED BY <1>2, <2>2 DEF Finish, GroupsKept, SaveInFlight
<1>3. ASSUME NEW t \in Torrents, Progress(t) \/ Expire(t) PROVE GroupsKept'
  BY <1>3 DEF Progress, Expire, GroupsKept, SaveInFlight
<1>4. ASSUME NEW t \in Torrents, MetadataReceived(t) PROVE GroupsKept'
  BY <1>4 DEF MetadataReceived, GuiInv
<1> QED BY <1>1, <1>2, <1>3, <1>4 DEF Libtorrent

(* Nor does the GUI thread lose one: setGroup queues its save, and writing  *)
(* resume data puts the group the torrent has at that moment into the file. *)
LEMMA GuiKeepsGroups ==
    ASSUME IInv, GuiInv, GroupsKept, Gui, Magnets = {}
    PROVE  GroupsKept'
<1> USE ConstantsAssumption DEF closeVars, torrentVars, queueVars, storeVars, webVars, fileVars
<1>1. CASE InitSession
  BY <1>1 DEF InitSession, GroupsKept
<1>2. CASE PopAlerts
  <2>1. \A t : ~Queued(<<>>, {"saved"}, t)
    BY DEF Queued
  <2> QED BY <1>2, <2>1 DEF PopAlerts, GuiIdle, GroupsKept, SaveInFlight
<1>3. CASE HandleAlert
  <2> DEFINE a == Head(batch)
  <2>1. a \in Items
    BY <1>3, TailItem DEF HandleAlert, IInv, TypeOK, HandlesCurrent
  <2>2. a.t \in Torrents /\ a.cur \in BOOLEAN /\ a.p \in Paths
    BY <2>1 DEF Items
  <2>3. /\ batch \in Seq(Items) /\ batch # <<>> /\ batch' = Tail(batch)
        /\ UNCHANGED <<phase, meta, stored, group>>
        /\ resume' = IF a.kind = "saved" THEN ResumeAfter(a) ELSE resume
    BY <1>3 DEF HandleAlert, IInv, TypeOK
  <2>4. SaveResumeData(a.t, a.cur) \/ UNCHANGED <<dirty, jobs, alerts>>
    BY <1>3 DEF HandleAlert
  <2>5. \A t : Queued(batch, {"saved"}, t) =>
                  Queued(batch', {"saved"}, t) \/ (a.kind = "saved" /\ a.t = t /\ a.cur)
    BY <2>3, TailQueued
  <2> HIDE DEF a
  <2>6. /\ \A u \in Torrents : Queued(jobs, {"save"}, u) => Queued(jobs', {"save"}, u)
        /\ \A u \in Torrents : Queued(alerts, {"saved"}, u) => Queued(alerts', {"saved"}, u)
        /\ \A u \in Torrents : u \notin dirty' => u \notin dirty \/ SaveInFlight(u)'
    BY <2>2, <2>4, SaveResumeDataInFlight DEF IInv
  <2>7. ASSUME NEW t \in stored, a.kind = "saved" /\ a.t = t /\ a.cur
        PROVE  resume'[t] # None /\ resume'[t].group = group[t]
    BY <2>2, <2>3, <2>7 DEF ResumeAfter, Valid, IInv, TypeOK, ResumeData
  <2>8. ASSUME NEW t \in stored, resume[t] # None /\ resume[t].group = group[t]
        PROVE  resume'[t] # None /\ resume'[t].group = group[t]
    BY <2>2, <2>3, <2>8 DEF ResumeAfter, IInv, TypeOK, ResumeData
  <2>9. stored \subseteq Torrents
    BY DEF IInv, TypeOK
  <2> QED BY <2>3, <2>5, <2>6, <2>7, <2>8, <2>9 DEF GroupsKept, SaveInFlight
<1>4. CASE DeliverRemove
  BY <1>4 DEF DeliverRemove, GuiInv
<1>5. ASSUME NEW t \in Torrents, NEW p \in Paths, NEW g \in Groups, AddTorrent(t, p, g)
      PROVE  GroupsKept'
  <2>1. /\ meta' = meta \cup {t} /\ dirty' = dirty \cup {t} /\ stored' = stored \cup {t}
        /\ \A u \in Torrents \ {t} : group'[u] = group[u]
        /\ UNCHANGED <<phase, jobs, alerts, batch, resume>>
    BY <1>5 DEF AddTorrent, AddToSession, StorageAppend, IInv, TypeOK
  <2>2. stored \subseteq Torrents
    BY DEF IInv, TypeOK
  <2> QED BY <2>1, <2>2 DEF GroupsKept, SaveInFlight
<1>6. ASSUME NEW t \in Torrents, RemoveTorrent(t) PROVE GroupsKept'
  <2>1. /\ meta' = meta \ {t} /\ dirty' = dirty \ {t} /\ stored' = stored \ {t}
        /\ jobs' = Orphan(jobs, t) /\ alerts' = Orphan(alerts, t) /\ batch' = Orphan(batch, t)
        /\ \A u \in Torrents \ {t} : resume'[u] = resume[u]
        /\ UNCHANGED <<phase, group>>
    BY <1>6 DEF RemoveTorrent, RemoveFromSession, StorageRemove, RemoveFiles, IInv, TypeOK
  <2>2. \A u \in Torrents \ {t} : SaveInFlight(u) => SaveInFlight(u)'
    BY <2>1, OrphanQueued DEF SaveInFlight, IInv, TypeOK
  <2>3. stored \subseteq Torrents
    BY DEF IInv, TypeOK
  <2> QED BY <2>1, <2>2, <2>3 DEF GroupsKept
<1>7. ASSUME NEW t \in Torrents, NEW g \in Groups, SetGroup(t, g) PROVE GroupsKept'
  <2>1. /\ phase = "up" /\ t \in stored /\ t \in meta
        /\ \A u \in Torrents \ {t} : group'[u] = group[u]
        /\ UNCHANGED <<phase, meta, stored, resume, batch>>
    BY <1>7 DEF SetGroup, GuiIdle, GuiInv, SessionStorageDiskAgree, IInv, TypeOK
  <2>2. SaveResumeData(t, TRUE)
    BY <1>7 DEF SetGroup, EntryValid, GuiInv
  <2>3. SaveInFlight(t)'
    BY <2>1, <2>2, SaveResumeDataInFlight DEF IInv
  <2>4. /\ \A u \in Torrents : Queued(jobs, {"save"}, u) => Queued(jobs', {"save"}, u)
        /\ \A u \in Torrents : Queued(alerts, {"saved"}, u) => Queued(alerts', {"saved"}, u)
        /\ \A u \in Torrents : u \notin dirty' => u \notin dirty \/ SaveInFlight(u)'
    BY <2>2, SaveResumeDataInFlight DEF IInv
  <2>5. stored \subseteq Torrents
    BY DEF IInv, TypeOK
  <2> QED BY <2>1, <2>3, <2>4, <2>5 DEF GroupsKept, SaveInFlight
<1>8. ASSUME NEW t \in Torrents, NEW p \in Paths, MoveStorrage(t, p) PROVE GroupsKept'
  <2>1. Item("move", t, TRUE, p) \in Items
    BY ItemType DEF Kinds
  <2>2. \A u : Queued(jobs, {"save"}, u) => Queued(jobs', {"save"}, u)
    BY <1>8, <2>1, AppendQueued DEF MoveStorrage, IInv, TypeOK
  <2> QED BY <1>8, <2>2 DEF MoveStorrage, GroupsKept, SaveInFlight
<1>9. ASSUME NEW t \in Torrents, NEW p \in Paths, NEW g \in Groups,
             \/ AddMagnet(t, p, g) \/ ProcessMagnetLink(t) \/ DownloadMetadataCompleted(t)
             \/ MagnetError(t) \/ CancelMagnetLink(t)
      PROVE  FALSE
  BY <1>9 DEF AddMagnet, ProcessMagnetLink, DownloadMetadataCompleted, MagnetError,
     CancelMagnetLink, GuiInv
<1> QED BY <1>1, <1>2, <1>3, <1>4, <1>5, <1>6, <1>7, <1>8, <1>9 DEF Gui

(* Nor does onClose, which writes the alerts it waits for like the others. *)
LEMMA ClosingKeepsGroups ==
    ASSUME IInv, GroupsKept, Closing \/ Crash \/ UNCHANGED vars
    PROVE  GroupsKept'
<1> USE ConstantsAssumption DEF closeVars, torrentVars, queueVars, storeVars, webVars, fileVars
<1>0. stored \subseteq Torrents
  BY DEF IInv, TypeOK
<1>1. CASE CloseStart \/ CloseWait \/ UNCHANGED vars
  BY <1>1 DEF CloseStart, CloseWait, vars, GroupsKept, SaveInFlight
<1>2. CASE ClosePop
  <2>1. \A t : ~Queued(<<>>, {"saved"}, t)
    BY DEF Queued
  <2> QED BY <1>2, <2>1 DEF ClosePop, GroupsKept, SaveInFlight
<1>3. CASE CloseHandle
  <2> DEFINE a == Head(batch)
  <2>1. a \in Items
    BY <1>3, TailItem DEF CloseHandle, IInv, TypeOK, HandlesCurrent
  <2>2. a.t \in Torrents /\ a.cur \in BOOLEAN /\ a.p \in Paths
    BY <2>1 DEF Items
  <2>3. /\ batch \in Seq(Items) /\ batch # <<>> /\ batch' = Tail(batch)
        /\ UNCHANGED <<meta, dirty, stored, group, jobs, alerts>>
        /\ resume' = IF a.kind = "saved" THEN ResumeAfter(a) ELSE resume
    BY <1>3 DEF CloseHandle, IInv, TypeOK
  <2>4. \A t : Queued(batch, {"saved"}, t) =>
                  Queued(batch', {"saved"}, t) \/ (a.kind = "saved" /\ a.t = t /\ a.cur)
    BY <2>3, TailQueued
  <2> HIDE DEF a
  <2>5. ASSUME NEW t \in stored, a.kind = "saved" /\ a.t = t /\ a.cur
        PROVE  resume'[t] # None /\ resume'[t].group = group[t]
    BY <2>2, <2>3, <2>5 DEF ResumeAfter, Valid, IInv, TypeOK, ResumeData
  <2>6. ASSUME NEW t \in stored, resume[t] # None /\ resume[t].group = group[t]
        PROVE  resume'[t] # None /\ resume'[t].group = group[t]
    BY <2>2, <2>3, <2>6 DEF ResumeAfter, IInv, TypeOK, ResumeData
  <2> QED BY <2>3, <2>4, <2>5, <2>6 DEF GroupsKept, SaveInFlight
<1>4. CASE CloseDone \/ Crash
  BY <1>4 DEF CloseDone, Crash, Gone, GroupsKept
<1>5. ASSUME NEW t \in Torrents, CloseAsk(t) PROVE GroupsKept'
  <2>1. SaveResumeData(t, TRUE) /\ UNCHANGED <<meta, stored, group, resume, batch>>
    BY <1>5 DEF CloseAsk
  <2>2. /\ \A u \in Torrents : Queued(jobs, {"save"}, u) => Queued(jobs', {"save"}, u)
        /\ \A u \in Torrents : Queued(alerts, {"saved"}, u) => Queued(alerts', {"saved"}, u)
        /\ \A u \in Torrents : u \notin dirty' => u \notin dirty \/ SaveInFlight(u)'
    BY <2>1, SaveResumeDataInFlight DEF IInv
  <2> QED BY <1>0, <2>1, <2>2 DEF GroupsKept, SaveInFlight
<1> QED BY <1>1, <1>2, <1>3, <1>4, <1>5 DEF Closing

(* GroupsKept is inductive next to GuiInv. *)
LEMMA GroupInvariance ==
    ASSUME Magnets = {}, WebThreads = {}
    PROVE  Spec => [](GuiInv /\ GroupsKept)
<1>1. Init => GuiInv /\ GroupsKept
  BY InitGuiInv DEF Init, GroupsKept
<1>2. IInv /\ GuiInv /\ GroupsKept /\ [Next]_vars => (GuiInv /\ GroupsKept)'
  <2> SUFFICES ASSUME IInv, GuiInv, GroupsKept, [Next]_vars PROVE (GuiInv /\ GroupsKept)'
    OBVIOUS
  <2>1. ~Web
    BY DEF Web
  <2>2. GuiInv'
    BY <2>1, LibtorrentKeepsGuiInv, GuiKeepsGuiInv, ClosingKeepsGuiInv DEF Next
  <2>3. GroupsKept'
    BY <2>1, LibtorrentKeepsGroups, GuiKeepsGroups, ClosingKeepsGroups DEF Next
  <2> QED BY <2>2, <2>3
<1> QED BY <1>1, <1>2, Invariance, PTL DEF Spec

(* With the GUI thread alone, the group on disk is the torrent's group as  *)
(* soon as no save of it is under way: the save Torrent::setGroup asks for *)
(* is neither lost nor overtaken by one with the old group.                *)
THEOREM GroupIsSaved ==
    ASSUME Magnets = {}, WebThreads = {}
    PROVE  Spec => []GroupSaved
<1>1. GroupsKept => GroupSaved
  BY DEF GroupsKept, GroupSaved
<1> QED BY <1>1, GroupInvariance, PTL
=============================================================================
