---------------------- MODULE TorrentManagerDiskProofs ----------------------
(***************************************************************************)
(* The .torrent files of CT_DATA: a listed torrent has one, whatever the   *)
(* web threads do, or whatever is done with magnet links.                  *)
(***************************************************************************)
EXTENDS TorrentManagerProofs

(* The alert that makes the GUI thread write the file of t is on its way,  *)
(* or t is a link whose metadata came from .resume and no alert will come. *)
NoFileYet(t) ==
    \/ Queued(alerts, {"metadata"}, t)
    \/ Queued(batch, {"metadata"}, t)
    \/ t \in reloaded

(* A web thread has yet to copy the file of t, or has removed it and not   *)
(* the torrent yet.                                                        *)
HalfDone(t) ==
    \E w \in WebThreads :
        /\ web[w].t = t
        /\ web[w].op = "copy" \/ (web[w].op = "remove" /\ web[w].cur)

(* The strengthening of StoredOnDisk: a thread that holds a dead handle is *)
(* no excuse for a missing file.                                           *)
EntriesOnDisk ==
    phase = "up" =>
        \A t \in stored \ stale : t \in torrentFile \/ NoFileYet(t) \/ HalfDone(t)

(* The torrent a dialog will list has its file, or will have it.           *)
DialogsOnDisk ==
    phase = "up" =>
        \A t \in Torrents :
            dialog[t] \in {"waiting", "offered"} /\ t \in meta =>
                t \in torrentFile \/ NoFileYet(t)

(* A torrent is offered once its metadata is known. *)
OfferedHasMeta == \A t \in Torrents : dialog[t] = "offered" => t \in meta

(* Dialogs are those of magnet links. *)
DialogsOfMagnets == \A t \in Torrents \ Magnets : dialog[t] = "closed"

DiskInv == EntriesOnDisk /\ DialogsOnDisk /\ OfferedHasMeta /\ DialogsOfMagnets
-----------------------------------------------------------------------------
(* At the start there is nothing but CT_DATA. *)
LEMMA InitDiskInv ==
    ASSUME Init PROVE DiskInv
BY DEF Init, DiskInv, EntriesOnDisk, DialogsOnDisk, OfferedHasMeta, DialogsOfMagnets

(* A step that neither loses an alert nor a file, nor the work of a web    *)
(* thread, nor lists a torrent keeps the invariant.                        *)
LEMMA NothingLost ==
    ASSUME IInv, DiskInv, stored' \ stale' \subseteq stored \ stale,
           phase' = "up" => phase = "up",
           dialog' = dialog, meta' = meta, torrentFile \subseteq torrentFile',
           \A t \in Torrents : NoFileYet(t) => NoFileYet(t)' \/ t \in torrentFile',
           \A t \in Torrents : HalfDone(t) => HalfDone(t)' \/ t \in torrentFile'
    PROVE  DiskInv'
<1>0. stored \subseteq Torrents
  BY DEF IInv, TypeOK
<1>1. EntriesOnDisk'
  BY <1>0 DEF DiskInv, EntriesOnDisk
<1>2. DialogsOnDisk'
  BY DEF DiskInv, DialogsOnDisk
<1>3. (OfferedHasMeta /\ DialogsOfMagnets)'
  BY DEF DiskInv, OfferedHasMeta, DialogsOfMagnets
<1> QED BY <1>1, <1>2, <1>3 DEF DiskInv

(* The steps libtorrent takes. *)
LEMMA LibtorrentKeepsDiskInv ==
    ASSUME IInv, DiskInv, Libtorrent
    PROVE  DiskInv'
<1> USE ConstantsAssumption DEF closeVars, torrentVars, queueVars, storeVars, webVars, fileVars
<1>1. CASE RunJob
  <2> DEFINE j == Head(jobs)
  <2>1. j \in Items
    BY <1>1, TailItem DEF RunJob, IInv, TypeOK, HandlesCurrent
  <2>2. j.t \in Torrents /\ j.cur \in BOOLEAN /\ j.p \in Paths
    BY <2>1 DEF Items
  <2>3. SaveDone(j) \/ MoveDone(j)
    BY <1>1 DEF RunJob
  <2>4. /\ alerts \in Seq(Items)
        /\ UNCHANGED <<phase, reloaded, batch, meta, stored, stale, dialog, web, torrentFile>>
    BY <1>1 DEF RunJob, IInv, TypeOK
  <2> HIDE DEF j
  <2>5. ASSUME NEW k \in Kinds, NEW c \in BOOLEAN, NEW p \in Paths,
               alerts' = Append(alerts, Item(k, j.t, c, p))
        PROVE  \A t : Queued(alerts, {"metadata"}, t) => Queued(alerts', {"metadata"}, t)
    BY <2>2, <2>4, <2>5, ItemType, AppendQueued
  <2>6. \A t : Queued(alerts, {"metadata"}, t) => Queued(alerts', {"metadata"}, t)
    <3>1. CASE alerts' = Append(alerts, Item("saved", j.t, j.cur,
                                             IF j.cur THEN path[j.t] ELSE j.p))
      <4>1. (IF j.cur THEN path[j.t] ELSE j.p) \in Paths
        BY <2>2 DEF IInv, TypeOK
      <4> QED BY <3>1, <4>1, <2>2, <2>5 DEF Kinds
    <3>2. CASE alerts' = Append(alerts, Item("failed", j.t, FALSE, NoPath))
      BY <3>2, <2>5 DEF Kinds
    <3>3. CASE alerts' = Append(alerts, Item("moved", j.t, j.cur, j.p))
      BY <3>3, <2>2, <2>5 DEF Kinds
    <3>4. CASE UNCHANGED alerts
      BY <3>4
    <3> QED BY <2>3, <3>1, <3>2, <3>3, <3>4 DEF SaveDone, MoveDone
  <2> QED BY <2>4, <2>6, NothingLost DEF NoFileYet, HalfDone
<1>2. ASSUME NEW t \in Torrents, Finish(t) PROVE DiskInv'
  <2>1. Item("finished", t, TRUE, NoPath) \in Items
    BY ItemType DEF Kinds
  <2>2. \A u : Queued(alerts, {"metadata"}, u) => Queued(alerts', {"metadata"}, u)
    BY <1>2, <2>1, AppendQueued DEF Finish, IInv, TypeOK
  <2>3. UNCHANGED <<phase, reloaded, batch, meta, stored, stale, dialog, web, torrentFile>>
    BY <1>2 DEF Finish
  <2> QED BY <2>2, <2>3, NothingLost DEF NoFileYet, HalfDone
<1>3. ASSUME NEW t \in Torrents, Progress(t) \/ Expire(t) PROVE DiskInv'
  <2>1. UNCHANGED <<phase, reloaded, alerts, batch, meta, stored, stale, dialog, web, torrentFile>>
    BY <1>3 DEF Progress, Expire
  <2> QED BY <2>1, NothingLost DEF NoFileYet, HalfDone
<1>4. ASSUME NEW t \in Torrents, MetadataReceived(t) PROVE DiskInv'
  <2>1. /\ Item("metadata", t, TRUE, NoPath) \in Items
        /\ Item("metadata", t, TRUE, NoPath).kind = "metadata"
        /\ Item("metadata", t, TRUE, NoPath).t = t /\ Item("metadata", t, TRUE, NoPath).cur
    BY ItemType DEF Item, Kinds
  <2>2. /\ \A u : Queued(alerts, {"metadata"}, u) => Queued(alerts', {"metadata"}, u)
        /\ Queued(alerts', {"metadata"}, t)
    BY <1>4, <2>1, AppendQueued DEF MetadataReceived, IInv, TypeOK
  <2>3. /\ UNCHANGED <<phase, reloaded, batch, stored, stale, dialog, web, torrentFile>>
        /\ meta' = meta \cup {t}
    BY <1>4 DEF MetadataReceived
  <2> QED BY <2>2, <2>3 DEF DiskInv, EntriesOnDisk, DialogsOnDisk, OfferedHasMeta,
         DialogsOfMagnets, NoFileYet, HalfDone
<1> QED BY <1>1, <1>2, <1>3, <1>4 DEF Libtorrent

(* Neither does one that removes a torrent and what refers to it. *)
LEMMA RemovalKeepsDiskInv ==
    ASSUME IInv, DiskInv, NEW t \in Torrents, RemoveFromSession(t),
           phase' = phase,
           stored' \ stale' \subseteq (stored \ stale) \ {t},
           torrentFile \ {t} \subseteq torrentFile',
           dialog'[t] \notin {"waiting", "offered"},
           dialog[t] = "closed" => dialog'[t] = "closed",
           \A u \in Torrents \ {t} : dialog'[u] = dialog[u],
           \A u \in Torrents \ {t} : HalfDone(u) => HalfDone(u)'
    PROVE  DiskInv'
<1>1. \A u \in Torrents \ {t} : NoFileYet(u) => NoFileYet(u)'
  BY OrphanQueued DEF RemoveFromSession, NoFileYet, IInv, TypeOK
<1>2. stored \subseteq Torrents
  BY DEF IInv, TypeOK
<1>3. meta' = meta \ {t}
  BY DEF RemoveFromSession
<1>4. EntriesOnDisk'
  BY <1>1, <1>2 DEF DiskInv, EntriesOnDisk
<1>5. DialogsOnDisk'
  BY <1>1, <1>3 DEF DiskInv, DialogsOnDisk
<1>6. (OfferedHasMeta /\ DialogsOfMagnets)'
  BY <1>3 DEF DiskInv, OfferedHasMeta, DialogsOfMagnets
<1> QED BY <1>4, <1>5, <1>6 DEF DiskInv

(* The steps of the GUI thread. *)
LEMMA GuiKeepsDiskInv ==
    ASSUME IInv, DiskInv, Gui
    PROVE  DiskInv'
<1> USE ConstantsAssumption DEF closeVars, torrentVars, queueVars, storeVars, webVars, fileVars
<1>0. stored \subseteq Torrents /\ meta \subseteq live
  BY DEF IInv, TypeOK
<1>1. CASE InitSession
  <2>1. /\ stored' = torrentFile /\ stale' = {} /\ torrentFile' = torrentFile
        /\ \A t \in Torrents : dialog'[t] = "closed"
    BY <1>1 DEF InitSession, IInv, DownIsEmpty
  <2> QED BY <2>1 DEF DiskInv, EntriesOnDisk, DialogsOnDisk, OfferedHasMeta, DialogsOfMagnets
<1>2. CASE PopAlerts
  <2>1. \A t : ~Queued(<<>>, {"metadata"}, t)
    BY DEF Queued
  <2>2. /\ batch = <<>> /\ batch' = alerts
        /\ UNCHANGED <<phase, reloaded, meta, stored, stale, dialog, web, torrentFile>>
    BY <1>2 DEF PopAlerts, GuiIdle
  <2> QED BY <2>1, <2>2, NothingLost DEF NoFileYet, HalfDone
<1>3. CASE HandleAlert
  <2> DEFINE a == Head(batch)
  <2>1. a \in Items
    BY <1>3, TailItem DEF HandleAlert, IInv, TypeOK, HandlesCurrent
  <2>2. a.t \in Torrents /\ a.cur \in BOOLEAN
    BY <2>1 DEF Items
  <2>3. /\ batch \in Seq(Items) /\ batch # <<>> /\ batch' = Tail(batch)
        /\ UNCHANGED <<phase, reloaded, meta, stored, stale, dialog, web>>
        /\ torrentFile' = IF a.kind = "metadata" /\ Valid(a)
                          THEN torrentFile \cup {a.t} ELSE torrentFile
    BY <1>3 DEF HandleAlert, IInv, TypeOK
  <2>4. SaveResumeData(a.t, a.cur) \/ UNCHANGED <<dirty, jobs, alerts>>
    BY <1>3 DEF HandleAlert
  <2>5. \A t : Queued(batch, {"metadata"}, t) =>
                  Queued(batch', {"metadata"}, t) \/ (a.kind = "metadata" /\ a.t = t /\ a.cur)
    BY <2>3, TailQueued
  <2> HIDE DEF a
  <2>6. \A t : Queued(alerts, {"metadata"}, t) => Queued(alerts', {"metadata"}, t)
    BY <2>2, <2>4, SaveResumeDataQueues DEF IInv
  <2>7. \A t \in Torrents : NoFileYet(t) => NoFileYet(t)' \/ t \in torrentFile'
    BY <2>3, <2>5, <2>6 DEF NoFileYet, Valid
  <2> QED BY <2>3, <2>7, NothingLost DEF HalfDone
<1>4. CASE DeliverRemove
  <2>1. /\ stored' \ stale' \subseteq stored \ stale
        /\ UNCHANGED <<phase, reloaded, alerts, batch, meta, dialog, web, torrentFile>>
    BY <1>4 DEF DeliverRemove, StorageRemove
  <2> QED BY <2>1, NothingLost DEF NoFileYet, HalfDone
<1>5. ASSUME NEW t \in Torrents, NEW p \in Paths, NEW g \in Groups, AddTorrent(t, p, g)
      PROVE  DiskInv'
  <2>1. /\ t \notin live /\ meta' = meta \cup {t} /\ torrentFile' = torrentFile \cup {t}
        /\ stored' = stored \cup {t} /\ stale' = stale
        /\ UNCHANGED <<phase, reloaded, alerts, batch, dialog, web>>
    BY <1>5 DEF AddTorrent, AddToSession, StorageAppend
  <2> QED BY <2>1 DEF DiskInv, EntriesOnDisk, DialogsOnDisk, OfferedHasMeta,
         DialogsOfMagnets, NoFileYet, HalfDone
<1>6. ASSUME NEW t \in Torrents, RemoveTorrent(t) PROVE DiskInv'
  <2>1. /\ RemoveFromSession(t) /\ phase' = phase
        /\ stored' \ stale' \subseteq (stored \ stale) \ {t}
        /\ torrentFile' = torrentFile \ {t}
        /\ dialog' = DialogLoses(t) /\ web' = WebLoses(t)
    BY <1>6 DEF RemoveTorrent, StorageRemove, RemoveFiles
  <2>2. /\ dialog'[t] \notin {"waiting", "offered"}
        /\ dialog[t] = "closed" => dialog'[t] = "closed"
        /\ \A u \in Torrents \ {t} : dialog'[u] = dialog[u]
    BY <2>1 DEF DialogLoses, IInv, TypeOK
  <2>3. \A u \in Torrents \ {t} : HalfDone(u) => HalfDone(u)'
    BY <2>1 DEF HalfDone, WebLoses
  <2> QED BY <2>1, <2>2, <2>3, RemovalKeepsDiskInv
<1>7. ASSUME NEW t \in Torrents, NEW g \in Groups, SetGroup(t, g) PROVE DiskInv'
  <2>1. /\ UNCHANGED <<phase, reloaded, batch, meta, stored, stale, dialog, web, torrentFile>>
        /\ SaveResumeData(t, t \notin stale) \/ UNCHANGED <<dirty, jobs, alerts>>
    BY <1>7 DEF SetGroup
  <2>2. \A u : Queued(alerts, {"metadata"}, u) => Queued(alerts', {"metadata"}, u)
    BY <2>1, SaveResumeDataQueues DEF IInv
  <2> QED BY <2>1, <2>2, NothingLost DEF NoFileYet, HalfDone
<1>8. ASSUME NEW t \in Torrents, NEW p \in Paths, MoveStorrage(t, p) PROVE DiskInv'
  <2>1. UNCHANGED <<phase, reloaded, alerts, batch, meta, stored, stale, dialog, web, torrentFile>>
    BY <1>8 DEF MoveStorrage
  <2> QED BY <2>1, NothingLost DEF NoFileYet, HalfDone
<1>9. ASSUME NEW t \in Torrents, NEW p \in Paths, NEW g \in Groups, AddMagnet(t, p, g)
      PROVE  DiskInv'
  <2>1. /\ dialog[t] = "offered" /\ phase = "up"
        /\ dialog' = [dialog EXCEPT ![t] = "closed"]
        /\ stored' \subseteq stored \cup {t} /\ stale' = stale
        /\ UNCHANGED <<phase, reloaded, alerts, batch, meta, web, torrentFile>>
    BY <1>9 DEF AddMagnet, StorageAppend, GuiIdle
  <2>2. t \in torrentFile \/ NoFileYet(t)
    BY <2>1 DEF DiskInv, OfferedHasMeta, DialogsOnDisk
  <2>3. dialog'[t] = "closed" /\ \A u \in Torrents \ {t} : dialog'[u] = dialog[u]
    BY <2>1 DEF IInv, TypeOK
  <2>4. EntriesOnDisk'
    BY <2>1, <2>2 DEF DiskInv, EntriesOnDisk, NoFileYet, HalfDone
  <2> QED BY <2>1, <2>3, <2>4 DEF DiskInv, DialogsOnDisk, OfferedHasMeta, DialogsOfMagnets,
         NoFileYet
<1>10. ASSUME NEW t \in Torrents, ProcessMagnetLink(t) PROVE DiskInv'
  <2>1. /\ t \in Magnets /\ phase = "up"
        /\ UNCHANGED <<phase, alerts, batch, stored, stale, web, torrentFile>>
    BY <1>10 DEF ProcessMagnetLink
  <2>2. /\ dialog'[t] \in {"error", "waiting"}
        /\ \A u \in Torrents \ {t} : dialog'[u] = dialog[u]
    BY <1>0, <1>10 DEF ProcessMagnetLink, IInv, TypeOK
  <2>3. /\ meta' \ {t} = meta \ {t} /\ reloaded \subseteq reloaded'
        /\ dialog'[t] = "waiting" /\ t \in meta' => t \in reloaded'
    BY <1>0, <1>10 DEF ProcessMagnetLink, IInv, TypeOK
  <2> QED BY <2>1, <2>2, <2>3 DEF DiskInv, EntriesOnDisk, DialogsOnDisk, OfferedHasMeta,
         DialogsOfMagnets, NoFileYet, HalfDone
<1>11. ASSUME NEW t \in Torrents, DownloadMetadataCompleted(t) \/ MagnetError(t) PROVE DiskInv'
  <2>1. UNCHANGED <<phase, reloaded, alerts, batch, meta, stored, stale, web, torrentFile>>
    BY <1>11 DEF DownloadMetadataCompleted, MagnetError
  <2>2. /\ \/ dialog'[t] = "closed"
           \/ dialog[t] = "waiting" /\ t \in meta /\ dialog'[t] = "offered"
        /\ \A u \in Torrents \ {t} : dialog'[u] = dialog[u]
    BY <1>11 DEF DownloadMetadataCompleted, MagnetError, IInv, TypeOK
  <2> QED BY <2>1, <2>2 DEF DiskInv, EntriesOnDisk, DialogsOnDisk, OfferedHasMeta,
         DialogsOfMagnets, NoFileYet, HalfDone
<1>12. ASSUME NEW t \in Torrents, CancelMagnetLink(t) PROVE DiskInv'
  <2>1. phase' = phase /\ stored' = stored /\ dialog' = [dialog EXCEPT ![t] = "closed"]
    BY <1>12 DEF CancelMagnetLink
  <2>2. dialog'[t] = "closed" /\ \A u \in Torrents \ {t} : dialog'[u] = dialog[u]
    BY <2>1 DEF IInv, TypeOK
  <2>3. CASE t \in live
    <3>1. /\ RemoveFromSession(t) /\ torrentFile' = torrentFile \ {t}
          /\ stale' = EntryLoses(t) /\ web' = WebLoses(t)
      BY <1>12, <2>3 DEF CancelMagnetLink
    <3>2. stored' \ stale' \subseteq (stored \ stale) \ {t}
      BY <2>1, <3>1 DEF EntryLoses
    <3>3. \A u \in Torrents \ {t} : HalfDone(u) => HalfDone(u)'
      BY <3>1 DEF HalfDone, WebLoses
    <3> QED BY <2>1, <2>2, <3>1, <3>2, <3>3, RemovalKeepsDiskInv
  <2>4. CASE t \notin live
    <3>1. UNCHANGED <<reloaded, alerts, batch, meta, stale, web, torrentFile>>
      BY <1>12, <2>4 DEF CancelMagnetLink
    <3> QED BY <2>1, <2>2, <3>1 DEF DiskInv, EntriesOnDisk, DialogsOnDisk, OfferedHasMeta,
           DialogsOfMagnets, NoFileYet, HalfDone
  <2> QED BY <2>3, <2>4
<1> QED BY <1>1, <1>2, <1>3, <1>4, <1>5, <1>6, <1>7, <1>8, <1>9, <1>10, <1>11, <1>12 DEF Gui

(* The steps of the web threads: RemoveTorrent deletes the file of a torrent *)
(* before the torrent, AddTorrent writes it after.  Only here is it needed *)
(* that no dialog is open: the file may be that of a torrent it offers.    *)
LEMMA WebKeepsDiskInv ==
    ASSUME IInv, DiskInv, Web, Magnets = {}
    PROVE  DiskInv'
<1> USE ConstantsAssumption DEF closeVars, torrentVars, queueVars, storeVars, webVars, fileVars
<1>0. /\ stored \subseteq Torrents
      /\ \A t \in Torrents : dialog[t] = "closed"
  BY DEF IInv, TypeOK, DiskInv, DialogsOfMagnets
<1>1. PICK w \in WebThreads :
        \/ WebRemoveSession(w) \/ WebAddStore(w) \/ WebAddCopy(w)
        \/ \E t \in Torrents : WebRemoveFiles(w, t)
        \/ \E t \in Torrents, p \in Paths \ {NoPath} : WebAddSession(w, t, p)
  BY DEF Web
<1>2. ASSUME dialog' = dialog PROVE (DialogsOnDisk /\ OfferedHasMeta /\ DialogsOfMagnets)'
  BY <1>0, <1>2 DEF DialogsOnDisk, OfferedHasMeta, DialogsOfMagnets
<1>3. web \in [WebThreads -> [op : {"idle", "remove", "store", "copy"},
                              t : Torrents \cup {None}, cur : BOOLEAN, g : Groups]]
  BY DEF IInv, TypeOK
<1>4. CASE WebRemoveSession(w)
  <2>1. PICK t \in Torrents : web[w].t = t
    BY <1>4 DEF WebRemoveSession, IInv, BusyHasTorrent
  <2>2. phase' = phase /\ UNCHANGED <<stored, torrentFile>> /\ web[w].op = "remove"
    BY <1>4 DEF WebRemoveSession
  <2>3. CASE web[w].cur \/ t \in zombie
    <3>1. /\ RemoveFromSession(t) /\ stale' = EntryLoses(t) /\ dialog' = DialogLoses(t)
          /\ web' = [WebLoses(t) EXCEPT ![w] = WebIdle]
      BY <1>4, <2>1, <2>3 DEF WebRemoveSession
    <3>2. dialog' = dialog
      BY <1>0, <3>1 DEF DialogLoses
    <3>3. stored' \ stale' \subseteq (stored \ stale) \ {t}
      BY <2>2, <3>1 DEF EntryLoses
    <3>4. \A u \in Torrents \ {t} : HalfDone(u) => HalfDone(u)'
      BY <2>1, <3>1 DEF HalfDone, WebLoses
    <3> QED BY <1>0, <2>2, <3>1, <3>2, <3>3, <3>4, RemovalKeepsDiskInv
  <2>4. CASE ~(web[w].cur \/ t \in zombie)
    <3>1. /\ web' = [web EXCEPT ![w] = WebIdle]
          /\ UNCHANGED <<reloaded, alerts, batch, meta, stale, dialog>>
      BY <1>4, <2>1, <2>4 DEF WebRemoveSession
    <3>2. \A u : HalfDone(u) => HalfDone(u)'
      BY <2>2, <2>4, <3>1 DEF HalfDone
    <3> QED BY <2>2, <3>1, <3>2, NothingLost DEF NoFileYet
  <2> QED BY <2>3, <2>4
<1>5. CASE WebAddStore(w)
  <2>1. PICK t \in Torrents : web[w].t = t
    BY <1>5 DEF WebAddStore, IInv, BusyHasTorrent
  <2>2. /\ web' = [web EXCEPT ![w].op = "copy"]
        /\ UNCHANGED <<phase, reloaded, alerts, batch, dialog, torrentFile>>
        /\ stored' \ stale' \subseteq (stored \ stale) \cup {t}
    BY <1>5, <2>1 DEF WebAddStore
  <2>3. HalfDone(t)' /\ \A u : HalfDone(u) => HalfDone(u)'
    BY <1>3, <2>1, <2>2 DEF HalfDone
  <2>4. EntriesOnDisk'
    BY <2>2, <2>3 DEF DiskInv, EntriesOnDisk, NoFileYet
  <2> QED BY <1>2, <2>2, <2>4 DEF DiskInv
<1>6. CASE WebAddCopy(w)
  <2>1. PICK t \in Torrents : web[w].t = t
    BY <1>6 DEF WebAddCopy, IInv, BusyHasTorrent
  <2>2. /\ web' = [web EXCEPT ![w] = WebIdle] /\ torrentFile' = torrentFile \cup {t}
        /\ UNCHANGED <<phase, reloaded, alerts, batch, meta, dialog, stored, stale>>
    BY <1>6, <2>1 DEF WebAddCopy
  <2>3. \A u : HalfDone(u) => HalfDone(u)' \/ u \in torrentFile'
    BY <2>1, <2>2 DEF HalfDone
  <2> QED BY <2>2, <2>3, NothingLost DEF NoFileYet
<1>7. ASSUME NEW t \in Torrents, WebRemoveFiles(w, t) PROVE DiskInv'
  <2>1. /\ torrentFile' = torrentFile \ {t} /\ web[w].op = "idle"
        /\ web' = [web EXCEPT ![w] =
                      [op |-> "remove", t |-> t, cur |-> t \notin stale, g |-> NoGroup]]
        /\ UNCHANGED <<phase, reloaded, alerts, batch, dialog, stored, stale>>
    BY <1>7 DEF WebRemoveFiles, RemoveFiles
  <2>2. \A u : HalfDone(u) => HalfDone(u)'
    BY <2>1 DEF HalfDone
  <2>3. t \notin stale => HalfDone(t)'
    BY <1>3, <2>1 DEF HalfDone
  <2>4. EntriesOnDisk'
    BY <2>1, <2>2, <2>3 DEF DiskInv, EntriesOnDisk, NoFileYet
  <2> QED BY <1>2, <2>1, <2>4 DEF DiskInv
<1>8. ASSUME NEW t \in Torrents, NEW p \in Paths, WebAddSession(w, t, p) PROVE DiskInv'
  <2>1. /\ web[w].op = "idle"
        /\ web' = [web EXCEPT ![w] = [op |-> "store", t |-> t, cur |-> TRUE,
                                      g |-> AddedGroup(t, NoGroup)]]
        /\ UNCHANGED <<phase, reloaded, alerts, batch, dialog, stored, stale, torrentFile>>
    BY <1>8 DEF WebAddSession, AddToSession
  <2>2. \A u : HalfDone(u) => HalfDone(u)'
    BY <2>1 DEF HalfDone
  <2>3. EntriesOnDisk'
    BY <2>1, <2>2 DEF DiskInv, EntriesOnDisk, NoFileYet
  <2> QED BY <1>2, <2>1, <2>3 DEF DiskInv
<1> QED BY <1>1, <1>4, <1>5, <1>6, <1>7, <1>8

(* onClose, the end of the process and stuttering. *)
LEMMA ClosingKeepsDiskInv ==
    ASSUME IInv, DiskInv, Closing \/ Crash \/ UNCHANGED vars
    PROVE  DiskInv'
<1> USE ConstantsAssumption DEF closeVars, torrentVars, queueVars, storeVars, webVars, fileVars
<1>1. CASE Crash \/ CloseDone
  <2>1. phase' = "down" /\ \A t \in Torrents : dialog'[t] = "closed"
    BY <1>1 DEF Crash, CloseDone, Gone
  <2> QED BY <2>1 DEF DiskInv, EntriesOnDisk, DialogsOnDisk, OfferedHasMeta, DialogsOfMagnets
<1>2. CASE CloseStart \/ CloseWait \/ ClosePop \/ CloseHandle \/ \E t \in Torrents : CloseAsk(t)
  <2>1. phase' # "up" /\ UNCHANGED <<dialog, meta>>
    BY <1>2 DEF CloseStart, CloseWait, ClosePop, CloseHandle, CloseAsk
  <2> QED BY <2>1 DEF DiskInv, EntriesOnDisk, DialogsOnDisk, OfferedHasMeta, DialogsOfMagnets
<1>3. CASE UNCHANGED vars
  <2>1. UNCHANGED <<phase, reloaded, alerts, batch, meta, stored, stale, dialog, web, torrentFile>>
    BY <1>3 DEF vars
  <2> QED BY <2>1, NothingLost DEF NoFileYet, HalfDone
<1> QED BY <1>1, <1>2, <1>3 DEF Closing

(* DiskInv is inductive next to IInv. *)
LEMMA DiskInvariance ==
    ASSUME Magnets = {} \/ WebThreads = {}
    PROVE  Spec => []DiskInv
<1>1. Init => DiskInv
  BY InitDiskInv
<1>2. IInv /\ DiskInv /\ [Next]_vars => DiskInv'
  <2> SUFFICES ASSUME IInv, DiskInv, [Next]_vars PROVE DiskInv'
    OBVIOUS
  <2>1. Web => Magnets = {}
    BY DEF Web
  <2> QED
    BY <2>1, LibtorrentKeepsDiskInv, GuiKeepsDiskInv, WebKeepsDiskInv, ClosingKeepsDiskInv
       DEF Next
<1> QED BY <1>1, <1>2, Invariance, PTL DEF Spec

(* With any number of web threads, or with magnet links, a listed torrent  *)
(* has its .torrent in CT_DATA while the program runs, or a step that is   *)
(* under way will write it or take the torrent off: a crash leaves it      *)
(* listed.  With both, a web thread's RemoveTorrent on the entry of an     *)
(* earlier torrent may delete the file of one a dialog offers.             *)
THEOREM ListedIsOnDisk ==
    ASSUME Magnets = {} \/ WebThreads = {}
    PROVE  Spec => []StoredOnDisk
<1>1. DiskInv => StoredOnDisk
  BY DEF DiskInv, EntriesOnDisk, StoredOnDisk, NoFileYet, HalfDone
<1> QED BY <1>1, DiskInvariance, PTL
=============================================================================
