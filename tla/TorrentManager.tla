--------------------------- MODULE TorrentManager ---------------------------
(***************************************************************************)
(* The life of a torrent in CuteTorrent, from AddTorrent to the files that *)
(* bring it back after a restart.  Three parties share it:                 *)
(*                                                                         *)
(*   - the libtorrent session (network and disk threads): torrents, disk   *)
(*     jobs, and the alert queue the program polls;                        *)
(*   - the GUI thread: TorrentManager and TorrentStorrage, the alert       *)
(*     handlers, and onClose at exit;                                      *)
(*   - the handler threads of the web server, which call the same          *)
(*     TorrentManager with no lock.                                        *)
(*                                                                         *)
(* What survives a crash is the directory CT_DATA: <hash>.torrent,         *)
(* <hash>.resume and the path.resume file older versions left.             *)
(***************************************************************************)
EXTENDS Integers, Sequences, FiniteSets

CONSTANTS
    Torrents,    (* info hashes                                            *)
    Magnets,     (* those that may be opened as a magnet link              *)
    Paths,       (* save paths                                             *)
    NoPath,      (* the empty save path                                    *)
    Groups,      (* group names                                            *)
    NoGroup,     (* the empty group name                                   *)
    None,        (* no file, or no such key in the file                    *)
    WebThreads,  (* handler threads of the web server                      *)
    MaxQueue     (* bound on jobs and alerts in flight, for model checking *)

ASSUME ConstantsAssumption ==
    /\ Magnets \subseteq Torrents
    /\ NoPath \in Paths
    /\ NoGroup \in Groups
    /\ None \notin Groups
    /\ None \notin [path : Paths, group : Groups \cup {None}]
    /\ MaxQueue \in Nat

VARIABLES
    phase,       (* "down", "up", "saving" or "draining" (both in onClose) *)
    outstanding, (* num_outstanding_resume_data of onClose                 *)
    toSave,      (* torrents onClose has yet to ask resume data for        *)
    leaked,      (* a MetaDataDownloadWaiter keeps its manager reference   *)
    live,        (* torrents in the libtorrent session                     *)
    meta,        (* live torrents whose metadata is known                  *)
    dirty,       (* live torrents with need_save_resume                    *)
    path,        (* save path of each live torrent                         *)
    zombie,      (* removed torrents whose object still exists             *)
    hasty,       (* history: removed while resume data was being prepared  *)
    reloaded,    (* links whose metadata came from their .resume file      *)
    jobs,        (* libtorrent's disk queue: "save" and "move" jobs        *)
    alerts,      (* libtorrent's alert queue                               *)
    batch,       (* the deque pop_alerts filled, being handled             *)
    stored,      (* keys of TorrentStorrage                                *)
    stale,       (* those whose handle refers to a removed torrent         *)
    group,       (* group of each stored torrent                           *)
    dialog,      (* the dialog that opens each magnet link                 *)
    web,         (* what each web thread is in the middle of               *)
    posted,      (* TorrentRemove signals queued to the GUI thread         *)
    torrentFile, (* <hash>.torrent files in CT_DATA                        *)
    resume,      (* <hash>.resume files in CT_DATA                         *)
    legacy,      (* the lines of path.resume                               *)
    clean,       (* history: onClose began with nothing in flight          *)
    snap         (* history: what the last clean onClose left              *)

closeVars   == <<outstanding, toSave, clean>>
torrentVars == <<live, meta, dirty, path, zombie, hasty, reloaded>>
queueVars   == <<jobs, alerts, batch>>
storeVars   == <<stored, stale, group>>
webVars     == <<web, posted>>
fileVars    == <<torrentFile, resume, legacy>>

vars == <<phase, leaked, closeVars, torrentVars, queueVars, storeVars, dialog,
          webVars, fileVars, snap>>
-----------------------------------------------------------------------------
(* Data *)

ResumeData == [path : Paths, group : Groups \cup {None}]

(* A disk job or an alert.  cur: its handle refers to the torrent that is  *)
(* in the session, not to one removed since.  p: the path of a move, or    *)
(* the save path resume data was generated with.                           *)
Kinds == {"save", "move", "finished", "saved", "failed", "moved", "metadata"}
Items == [kind : Kinds, t : Torrents, cur : BOOLEAN, p : Paths]
Item(k, t, c, p) == [kind |-> k, t |-> t, cur |-> c, p |-> p]

WebIdle == [op |-> "idle", t |-> None, cur |-> FALSE, g |-> NoGroup]

Snapshots == [stored : SUBSET Torrents, path : [Torrents -> Paths],
              group : [Torrents -> Groups]]

(* Bounds what the environment may start; handlers are never blocked by it. *)
QueueRoom == Len(jobs) + Len(alerts) + Len(batch) + Len(posted) < MaxQueue

GuiIdle == phase = "up" /\ batch = <<>>

(* torrent_handle::is_valid for the handle an alert carries. *)
Valid(a) == a.cur \/ a.t \in zombie

(* The handle of the Torrent object TorrentStorrage holds for t. *)
EntryValid(t) == t \notin stale \/ t \in zombie

Queued(q, kinds, t) ==
    \E i \in DOMAIN q : q[i].kind \in kinds /\ q[i].t = t /\ q[i].cur

(* Resume data of t was asked for and its alert is not handled yet. *)
SaveInFlight(t) == \/ Queued(jobs, {"save"}, t)
                   \/ Queued(alerts, {"saved"}, t)
                   \/ Queued(batch, {"saved"}, t)

SaveKinds == {"save", "saved", "failed"}
NothingInFlight(q) == \A i \in DOMAIN q : q[i].kind \notin SaveKinds \cup {"move", "metadata"}
-----------------------------------------------------------------------------
(* libtorrent: what its calls and threads do *)

(* torrent::save_resume_data on a torrent still in the session (cur) or on *)
(* one that was aborted.  While the files are being checked the answer is  *)
(* posted at once, else a disk job prepares it.                            *)
SaveResumeData(t, cur) ==
    \/ /\ cur /\ t \in meta
       /\ dirty' = dirty \ {t}
       /\ \/ /\ jobs' = Append(jobs, Item("save", t, TRUE, NoPath))
             /\ UNCHANGED alerts
          \/ /\ alerts' = Append(alerts, Item("saved", t, TRUE, path[t]))
             /\ UNCHANGED jobs
    \/ /\ ~(cur /\ t \in meta)
       /\ alerts' = Append(alerts, Item("failed", t, cur, NoPath))
       /\ UNCHANGED <<dirty, jobs>>

(* The entries of q for t belong to a removed torrent from now on. *)
Orphan(q, t) ==
    [i \in DOMAIN q |->
        IF q[i].t = t /\ q[i].cur
        THEN [q[i] EXCEPT !.cur = FALSE,
                          !.p = IF q[i].kind = "save" THEN path[t] ELSE q[i].p]
        ELSE q[i]]

(* Mutant: a removed torrent stays among those to save. *)
RemoveFromSessionKeepsDirty(t) ==
    /\ live' = live \ {t}
    /\ meta' = meta \ {t}
    /\ zombie' = IF t \in live THEN zombie \cup {t} ELSE zombie
    /\ hasty' = IF Queued(jobs, {"save"}, t) THEN hasty \cup {t} ELSE hasty
    /\ reloaded' = reloaded \ {t}
    /\ jobs' = Orphan(jobs, t)
    /\ alerts' = Orphan(alerts, t)
    /\ batch' = Orphan(batch, t)
    /\ UNCHANGED <<dirty, path>>

(* session_impl::remove_torrent: the object outlives its removal while     *)
(* anything holds it.                                                      *)
RemoveFromSession(t) ==
    /\ live' = live \ {t}
    /\ meta' = meta \ {t}
    /\ dirty' = dirty \ {t}
    /\ zombie' = IF t \in live THEN zombie \cup {t} ELSE zombie
    /\ hasty' = IF Queued(jobs, {"save"}, t) THEN hasty \cup {t} ELSE hasty
    /\ reloaded' = reloaded \ {t}
    /\ jobs' = Orphan(jobs, t)
    /\ alerts' = Orphan(alerts, t)
    /\ batch' = Orphan(batch, t)
    /\ UNCHANGED path

(* Those who hold a handle of t hold one of a removed torrent now. *)
WebLoses(t) ==
    [w \in WebThreads |->
        IF web[w].t = t THEN [web[w] EXCEPT !.cur = FALSE] ELSE web[w]]
DialogLoses(t) ==
    IF dialog[t] \in {"waiting", "offered"} THEN [dialog EXCEPT ![t] = "lost"] ELSE dialog
EntryLosesNothing(t) == stale  (* mutant: the handle is taken for a good one *)
EntryLoses(t) == IF t \in stored THEN stale \cup {t} ELSE stale

(* torrent::on_save_resume_data.  An aborted torrent may fail to save. *)
SaveDone(j) ==
    /\ j.kind = "save"
    /\ \/ /\ alerts' = Append(alerts, Item("saved", j.t, j.cur,
                                          IF j.cur THEN path[j.t] ELSE j.p))
          /\ dirty' = IF j.cur THEN dirty \ {j.t} ELSE dirty
       \/ /\ ~j.cur
          /\ alerts' = Append(alerts, Item("failed", j.t, FALSE, NoPath))
          /\ UNCHANGED dirty
    /\ UNCHANGED path

(* torrent::on_storage_moved.  A move may fail. *)
MoveDone(j) ==
    /\ j.kind = "move"
    /\ \/ /\ alerts' = Append(alerts, Item("moved", j.t, j.cur, j.p))
          /\ path' = IF j.cur THEN [path EXCEPT ![j.t] = j.p] ELSE path
          /\ dirty' = IF j.cur THEN dirty \cup {j.t} ELSE dirty
       \/ UNCHANGED <<alerts, dirty, path>>

(* The network thread runs the callback of the oldest disk job. *)
RunJob ==
    /\ phase # "down"
    /\ jobs # <<>>
    /\ jobs' = Tail(jobs)
    /\ SaveDone(Head(jobs)) \/ MoveDone(Head(jobs))
    /\ UNCHANGED <<phase, leaked, closeVars, live, meta, zombie, hasty,
                   reloaded, batch, storeVars, dialog, webVars, fileVars, snap>>

(* A torrent completes. *)
Finish(t) ==
    /\ phase = "up" /\ QueueRoom
    /\ t \in live \cap meta
    /\ dirty' = dirty \cup {t}
    /\ alerts' = Append(alerts, Item("finished", t, TRUE, NoPath))
    /\ UNCHANGED <<phase, leaked, closeVars, live, meta, path, zombie, hasty,
                   reloaded, jobs, batch, storeVars, dialog, webVars, fileVars,
                   snap>>

(* A piece is downloaded, or the torrent is paused or resumed. *)
Progress(t) ==
    /\ phase = "up"
    /\ t \in live \cap meta
    /\ dirty' = dirty \cup {t}
    /\ UNCHANGED <<phase, leaked, closeVars, live, meta, path, zombie, hasty,
                   reloaded, queueVars, storeVars, dialog, webVars, fileVars,
                   snap>>

(* The metadata of a magnet link arrives from a peer. *)
MetadataReceived(t) ==
    /\ phase = "up" /\ QueueRoom
    /\ t \in live \ meta
    /\ meta' = meta \cup {t}
    /\ dirty' = dirty \cup {t}
    /\ alerts' = Append(alerts, Item("metadata", t, TRUE, NoPath))
    /\ UNCHANGED <<phase, leaked, closeVars, live, path, zombie, hasty,
                   reloaded, jobs, batch, storeVars, dialog, webVars, fileVars,
                   snap>>

(* The object of a removed torrent goes once no disk job needs it. *)
Expire(t) ==
    /\ t \in zombie
    /\ \A i \in DOMAIN jobs : jobs[i].t = t => jobs[i].cur
    /\ zombie' = zombie \ {t}
    /\ UNCHANGED <<phase, leaked, closeVars, live, meta, dirty, path, hasty,
                   reloaded, queueVars, storeVars, dialog, webVars, fileVars,
                   snap>>
-----------------------------------------------------------------------------
(* Pieces of the program the GUI and the web threads share *)

(* Mutants: what the file records is ignored. *)
AddedPathAsAsked(t, p)  == p
AddedGroupAsAsked(t, g) == g

(* AddTorrent lets what <hash>.resume records win over what the caller     *)
(* asked for, key by key.                                                  *)
AddedPath(t, p)  == IF resume[t] # None THEN resume[t].path ELSE p
AddedGroup(t, g) == IF resume[t] # None /\ resume[t].group # None
                    THEN resume[t].group ELSE g

(* session::add_torrent, then set_max_connections.  A duplicate is an error. *)
AddToSession(t, p) ==
    /\ t \notin live
    /\ live' = live \cup {t}
    /\ meta' = meta \cup {t}
    /\ dirty' = dirty \cup {t}
    /\ path' = [path EXCEPT ![t] = AddedPath(t, p)]
    /\ UNCHANGED <<zombie, hasty, reloaded>>

(* TorrentStorrage::append keeps an entry that is already there. *)
StorageAppend(t, g) ==
    IF t \in stored
    THEN UNCHANGED storeVars
    ELSE /\ stored' = stored \cup {t}
         /\ group' = [group EXCEPT ![t] = g]
         /\ UNCHANGED stale

(* onTorrentRemove, the slot of the TorrentRemove signal. *)
StorageRemove(t) ==
    /\ stored' = stored \ {t}
    /\ stale' = stale \ {t}
    /\ UNCHANGED group

(* Mutant: only the .resume file goes. *)
RemoveFilesKeepsTorrent(t) ==
    /\ resume' = [resume EXCEPT ![t] = None]
    /\ UNCHANGED <<torrentFile, legacy>>

RemoveFiles(t) ==
    /\ torrentFile' = torrentFile \ {t}
    /\ resume' = [resume EXCEPT ![t] = None]
    /\ UNCHANGED legacy

(* Mutants: an existing file is kept; a file is written without the group. *)
ResumeAfterKeepsOld(a) ==
    IF Valid(a) /\ resume[a.t] = None
    THEN [resume EXCEPT ![a.t] =
             [path |-> a.p, group |-> IF a.t \in stored THEN group[a.t] ELSE None]]
    ELSE resume
ResumeAfterWithoutGroup(a) ==
    IF Valid(a)
    THEN [resume EXCEPT ![a.t] = [path |-> a.p, group |-> None]]
    ELSE resume

(* The file a save_resume_data_alert is written to, with the group of the  *)
(* Torrent if the storage has one.  A dead handle has an all-zero hash and *)
(* names no torrent's file.                                                *)
ResumeAfter(a) ==
    IF Valid(a)
    THEN [resume EXCEPT ![a.t] =
             [path |-> a.p, group |-> IF a.t \in stored THEN group[a.t] ELSE None]]
    ELSE resume
-----------------------------------------------------------------------------
(* The GUI thread *)

(* initSession: path.resume is read and removed, then every .torrent of    *)
(* CT_DATA is added; alerts posted meanwhile are thrown away.              *)
InitSession ==
    /\ phase = "down"
    /\ phase' = "up"
    /\ live' = torrentFile /\ meta' = torrentFile /\ dirty' = torrentFile
    /\ stored' = torrentFile
    /\ path' = [t \in Torrents |->
                   IF t \notin torrentFile THEN NoPath
                   ELSE AddedPath(t, IF legacy[t] # None THEN legacy[t].path ELSE NoPath)]
    /\ group' = [t \in Torrents |->
                   IF t \notin torrentFile THEN NoGroup
                   ELSE AddedGroup(t, IF legacy[t] # None /\ legacy[t].group # None
                                      THEN legacy[t].group ELSE NoGroup)]
    /\ legacy' = [t \in Torrents |-> None]
    /\ UNCHANGED <<leaked, closeVars, zombie, hasty, reloaded, queueVars, stale,
                   dialog, webVars, torrentFile, resume, snap>>

(* AddTorrent from the open dialog, a watched directory or the command line. *)
AddTorrent(t, p, g) ==
    /\ GuiIdle
    /\ AddToSession(t, p)
    /\ StorageAppend(t, AddedGroup(t, g))
    /\ torrentFile' = torrentFile \cup {t}
    /\ UNCHANGED <<phase, leaked, closeVars, queueVars, dialog, webVars, resume,
                   legacy, snap>>

(* RemoveTorrent from the torrent list: the signal is delivered at once,   *)
(* the files go, then the torrent.                                         *)
RemoveTorrent(t) ==
    /\ GuiIdle
    /\ t \in stored /\ EntryValid(t)
    /\ StorageRemove(t)
    /\ RemoveFiles(t)
    /\ RemoveFromSession(t)
    /\ web' = WebLoses(t)
    /\ dialog' = DialogLoses(t)
    /\ UNCHANGED <<phase, leaked, closeVars, posted, snap>>

(* Torrent::setGroup saves resume data so that the group is written. *)
SetGroup(t, g) ==
    /\ GuiIdle /\ QueueRoom
    /\ t \in stored
    /\ group' = [group EXCEPT ![t] = g]
    /\ IF EntryValid(t) THEN SaveResumeData(t, t \notin stale)
                        ELSE UNCHANGED <<dirty, jobs, alerts>>
    /\ UNCHANGED <<phase, leaked, closeVars, live, meta, path, zombie, hasty,
                   reloaded, batch, stored, stale, dialog, webVars, fileVars,
                   snap>>

(* Torrent::MoveStorrage. *)
MoveStorrage(t, p) ==
    /\ GuiIdle /\ QueueRoom
    /\ t \in stored \ stale
    /\ jobs' = Append(jobs, Item("move", t, TRUE, p))
    /\ UNCHANGED <<phase, leaked, closeVars, torrentVars, alerts, batch,
                   storeVars, dialog, webVars, fileVars, snap>>

(* PostTorrentUpdate, once a second: pop_alerts, then handle_alert on each. *)
PopAlerts ==
    /\ GuiIdle
    /\ alerts # <<>>
    /\ batch' = alerts
    /\ alerts' = <<>>
    /\ UNCHANGED <<phase, leaked, closeVars, torrentVars, jobs, storeVars, dialog,
                   webVars, fileVars, snap>>

(* Mutant: the metadata of a magnet link is not written. *)
HandleAlertNoMetadata ==
    /\ phase = "up" /\ batch # <<>>
    /\ batch' = Tail(batch)
    /\ LET a == Head(batch) IN
       /\ IF a.kind \in {"finished", "moved"} /\ Valid(a)
          THEN SaveResumeData(a.t, a.cur)
          ELSE UNCHANGED <<dirty, jobs, alerts>>
       /\ resume' = IF a.kind = "saved" THEN ResumeAfter(a) ELSE resume
    /\ UNCHANGED <<phase, leaked, closeVars, live, meta, path, zombie, hasty,
                   reloaded, storeVars, dialog, webVars, torrentFile, legacy,
                   snap>>

HandleAlert ==
    /\ phase = "up" /\ batch # <<>>
    /\ batch' = Tail(batch)
    /\ LET a == Head(batch) IN
       /\ IF a.kind \in {"finished", "moved"} /\ Valid(a)
          THEN SaveResumeData(a.t, a.cur)
          ELSE UNCHANGED <<dirty, jobs, alerts>>
       /\ resume' = IF a.kind = "saved" THEN ResumeAfter(a) ELSE resume
       /\ torrentFile' = IF a.kind = "metadata" /\ Valid(a)
                         THEN torrentFile \cup {a.t} ELSE torrentFile
    /\ UNCHANGED <<phase, leaked, closeVars, live, meta, path, zombie, hasty,
                   reloaded, storeVars, dialog, webVars, legacy, snap>>

(* The GUI thread's event loop delivers a queued TorrentRemove signal. *)
DeliverRemove ==
    /\ GuiIdle
    /\ posted # <<>>
    /\ posted' = Tail(posted)
    /\ StorageRemove(Head(posted))
    /\ UNCHANGED <<phase, leaked, closeVars, torrentVars, queueVars, dialog, web,
                   fileVars, snap>>
-----------------------------------------------------------------------------
(* Magnet links: the open dialog and its MetaDataDownloadWaiter thread *)

(* The waiter thread runs ProcessMagnetLink.  It and its reference to the  *)
(* manager are never released.  <hash>.resume may hold the metadata (it    *)
(* does when a link wrote it): libtorrent then has it at once, posts no    *)
(* metadata alert, and reading the limits the file records makes the       *)
(* torrent one to save.                                                    *)
ProcessMagnetLink(t) ==
    /\ phase = "up"
    /\ t \in Magnets /\ dialog[t] = "closed"
    /\ leaked' = TRUE
    /\ IF t \in live
       THEN /\ dialog' = [dialog EXCEPT ![t] = "error"]
            /\ UNCHANGED torrentVars
       ELSE /\ dialog' = [dialog EXCEPT ![t] = "waiting"]
            /\ live' = live \cup {t}
            /\ path' = [path EXCEPT ![t] = NoPath]
            /\ \/ /\ resume[t] # None
                  /\ meta' = meta \cup {t}
                  /\ reloaded' = reloaded \cup {t}
                  /\ dirty' = dirty \cup {t}
               \/ /\ dirty' = IF resume[t] = None THEN dirty \cup {t} ELSE dirty
                  /\ UNCHANGED <<meta, reloaded>>
            /\ UNCHANGED <<zombie, hasty>>
    /\ UNCHANGED <<phase, closeVars, queueVars, storeVars, webVars, fileVars,
                   snap>>

(* The waiter finds the metadata and offers the torrent to the user. *)
DownloadMetadataCompleted(t) ==
    /\ phase = "up"
    /\ dialog[t] = "waiting" /\ t \in meta
    /\ dialog' = [dialog EXCEPT ![t] = "offered"]
    /\ UNCHANGED <<phase, leaked, closeVars, torrentVars, queueVars, storeVars,
                   webVars, fileVars, snap>>

(* OnError closes the dialog of a magnet link that is a duplicate. *)
MagnetError(t) ==
    /\ GuiIdle
    /\ dialog[t] = "error"
    /\ dialog' = [dialog EXCEPT ![t] = "closed"]
    /\ UNCHANGED <<phase, leaked, closeVars, torrentVars, queueVars, storeVars,
                   webVars, fileVars, snap>>

(* AddMagnet: the user accepts the torrent.  Once the torrent is removed   *)
(* ("lost"), its handle is dead and the call throws: see Crash.            *)
AddMagnet(t, p, g) ==
    /\ GuiIdle /\ QueueRoom
    /\ dialog[t] = "offered"
    /\ dialog' = [dialog EXCEPT ![t] = "closed"]
    /\ jobs' = IF p # path[t] THEN Append(jobs, Item("move", t, TRUE, p)) ELSE jobs
    /\ StorageAppend(t, g)
    /\ UNCHANGED <<phase, leaked, closeVars, torrentVars, alerts, batch, webVars,
                   fileVars, snap>>

(* CancelMagnetLink: the user closes the dialog.  It removes whatever      *)
(* torrent the session has under the hash of the link.                     *)
CancelMagnetLink(t) ==
    /\ GuiIdle
    /\ dialog[t] # "closed"
    /\ dialog' = [dialog EXCEPT ![t] = "closed"]
    /\ IF t \in live
       THEN /\ torrentFile' = torrentFile \ {t}
            /\ RemoveFromSession(t)
            /\ stale' = EntryLoses(t)
            /\ web' = WebLoses(t)
       ELSE UNCHANGED <<torrentFile, torrentVars, queueVars, web, stale>>
    /\ UNCHANGED <<phase, leaked, closeVars, stored, group, posted, resume,
                   legacy, snap>>
-----------------------------------------------------------------------------
(* The web server's handler threads: CommandsApiController, UploadController *)

(* RemoveTorrent in a web thread: the signal is queued to the GUI thread   *)
(* and the files are removed ...                                           *)
WebRemoveFiles(w, t) ==
    /\ phase = "up" /\ QueueRoom
    /\ web[w].op = "idle"
    /\ t \in stored /\ EntryValid(t)
    /\ posted' = Append(posted, t)
    /\ RemoveFiles(t)
    /\ web' = [web EXCEPT ![w] =
                  [op |-> "remove", t |-> t, cur |-> t \notin stale, g |-> NoGroup]]
    /\ UNCHANGED <<phase, leaked, closeVars, torrentVars, queueVars, storeVars,
                   dialog, snap>>

(* ... then the torrent.  A dead handle makes remove_torrent throw; one    *)
(* whose object lingers removes whatever has its hash.                     *)
WebRemoveSession(w) ==
    /\ phase = "up"
    /\ web[w].op = "remove"
    /\ LET t == web[w].t IN
       IF web[w].cur \/ t \in zombie
       THEN /\ RemoveFromSession(t)
            /\ stale' = EntryLoses(t)
            /\ dialog' = DialogLoses(t)
            /\ web' = [WebLoses(t) EXCEPT ![w] = WebIdle]
       ELSE /\ web' = [web EXCEPT ![w] = WebIdle]
            /\ UNCHANGED <<torrentVars, queueVars, stale, dialog>>
    /\ UNCHANGED <<phase, leaked, closeVars, stored, group, posted, fileVars,
                   snap>>

(* AddTorrent in a web thread, in the order of its calls. *)
WebAddSession(w, t, p) ==
    /\ phase = "up"
    /\ web[w].op = "idle"
    /\ AddToSession(t, p)
    /\ web' = [web EXCEPT ![w] = [op |-> "store", t |-> t, cur |-> TRUE,
                                  g |-> AddedGroup(t, NoGroup)]]
    /\ UNCHANGED <<phase, leaked, closeVars, queueVars, storeVars, dialog, posted,
                   fileVars, snap>>

WebAddStore(w) ==
    /\ phase = "up"
    /\ web[w].op = "store"
    /\ web[w].cur \/ web[w].t \in zombie
    /\ LET t == web[w].t IN
       IF t \in stored
       THEN UNCHANGED storeVars
       ELSE /\ stored' = stored \cup {t}
            /\ group' = [group EXCEPT ![t] = web[w].g]
            /\ stale' = IF web[w].cur THEN stale ELSE stale \cup {t}
    /\ web' = [web EXCEPT ![w].op = "copy"]
    /\ UNCHANGED <<phase, leaked, closeVars, torrentVars, queueVars, dialog,
                   posted, fileVars, snap>>

(* Mutant: the .torrent is not copied. *)
WebAddNoCopy(w) ==
    /\ phase = "up"
    /\ web[w].op = "copy"
    /\ web' = [web EXCEPT ![w] = WebIdle]
    /\ UNCHANGED <<phase, leaked, closeVars, torrentVars, queueVars, storeVars,
                   dialog, posted, fileVars, snap>>

WebAddCopy(w) ==
    /\ phase = "up"
    /\ web[w].op = "copy"
    /\ torrentFile' = torrentFile \cup {web[w].t}
    /\ web' = [web EXCEPT ![w] = WebIdle]
    /\ UNCHANGED <<phase, leaked, closeVars, torrentVars, queueVars, storeVars,
                   dialog, posted, resume, legacy, snap>>
-----------------------------------------------------------------------------
(* Exit and crash *)

(* The process ends: everything but CT_DATA is lost. *)
Gone ==
    /\ phase' = "down"
    /\ outstanding' = 0 /\ toSave' = {} /\ clean' = FALSE /\ leaked' = FALSE
    /\ live' = {} /\ meta' = {} /\ dirty' = {} /\ zombie' = {} /\ hasty' = {}
    /\ reloaded' = {}
    /\ path' = [t \in Torrents |-> NoPath]
    /\ jobs' = <<>> /\ alerts' = <<>> /\ batch' = <<>>
    /\ stored' = {} /\ stale' = {} /\ group' = [t \in Torrents |-> NoGroup]
    /\ dialog' = [t \in Torrents |-> "closed"]
    /\ web' = [w \in WebThreads |-> WebIdle] /\ posted' = <<>>
    /\ UNCHANGED fileVars

(* A crash or a kill; also the exit of a session whose manager still has a *)
(* reference, in which onClose never runs.                                 *)
Crash ==
    /\ phase # "down"
    /\ Gone
    /\ snap' = None

(* onClose: the session is paused and a list is taken of the torrents to   *)
(* save: those with need_save_resume, which libtorrent also reports when   *)
(* the last save is more than 15 minutes old.                              *)
CloseStart ==
    /\ GuiIdle
    /\ ~leaked
    /\ \A w \in WebThreads : web[w].op = "idle"
    /\ phase' = "saving"
    /\ \E old \in SUBSET (live \cap meta) : toSave' = (dirty \cap meta) \cup old
    /\ outstanding' = 0
    /\ clean' = (NothingInFlight(jobs) /\ NothingInFlight(alerts))
    /\ UNCHANGED <<leaked, torrentVars, queueVars, storeVars, dialog, webVars,
                   fileVars, snap>>

CloseAsk(t) ==
    /\ phase = "saving"
    /\ t \in toSave
    /\ toSave' = toSave \ {t}
    /\ SaveResumeData(t, TRUE)
    /\ outstanding' = outstanding + 1
    /\ UNCHANGED <<phase, leaked, clean, live, meta, path, zombie, hasty,
                   reloaded, batch, storeVars, dialog, webVars, fileVars, snap>>

CloseWait ==
    /\ phase = "saving" /\ toSave = {}
    /\ phase' = "draining"
    /\ UNCHANGED <<leaked, closeVars, torrentVars, queueVars, storeVars, dialog,
                   webVars, fileVars, snap>>

(* wait_for_alert and pop_alerts. *)
ClosePop ==
    /\ phase = "draining" /\ batch = <<>>
    /\ outstanding > 0
    /\ alerts # <<>>
    /\ batch' = alerts
    /\ alerts' = <<>>
    /\ UNCHANGED <<phase, leaked, closeVars, torrentVars, jobs, storeVars, dialog,
                   webVars, fileVars, snap>>

(* Mutant: answers are counted and not written. *)
CloseHandleNoWrite ==
    /\ phase = "draining" /\ batch # <<>>
    /\ batch' = Tail(batch)
    /\ outstanding' = IF Head(batch).kind \in {"saved", "failed"}
                      THEN outstanding - 1 ELSE outstanding
    /\ UNCHANGED <<phase, leaked, toSave, clean, torrentVars, jobs, alerts,
                   storeVars, dialog, webVars, fileVars, snap>>

(* Only the two answers to save_resume_data count; other alerts are dropped. *)
CloseHandle ==
    /\ phase = "draining" /\ batch # <<>>
    /\ batch' = Tail(batch)
    /\ LET a == Head(batch) IN
       /\ outstanding' = IF a.kind \in {"saved", "failed"}
                         THEN outstanding - 1 ELSE outstanding
       /\ resume' = IF a.kind = "saved" THEN ResumeAfter(a) ELSE resume
    /\ UNCHANGED <<phase, leaked, toSave, clean, torrentVars, jobs, alerts,
                   storeVars, dialog, webVars, torrentFile, legacy, snap>>

(* Mutant: the loop ends at zero only. *)
CloseDoneAtZero ==
    /\ phase = "draining" /\ batch = <<>>
    /\ outstanding = 0
    /\ Gone
    /\ snap' = None

(* actual.state is written and the session aborted. *)
CloseDone ==
    /\ phase = "draining" /\ batch = <<>>
    /\ outstanding <= 0
    /\ Gone
    /\ snap' = IF clean
               THEN [stored |-> stored \ (stale \cup hasty), path |-> path, group |-> group]
               ELSE None
-----------------------------------------------------------------------------
(* CT_DATA is as some earlier version left it: torrents that only the      *)
(* lines of path.resume say the place of.                                  *)
Init ==
    /\ phase = "down"
    /\ outstanding = 0 /\ toSave = {} /\ clean = FALSE /\ leaked = FALSE
    /\ live = {} /\ meta = {} /\ dirty = {} /\ zombie = {} /\ hasty = {}
    /\ reloaded = {}
    /\ path = [t \in Torrents |-> NoPath]
    /\ jobs = <<>> /\ alerts = <<>> /\ batch = <<>>
    /\ stored = {} /\ stale = {} /\ group = [t \in Torrents |-> NoGroup]
    /\ dialog = [t \in Torrents |-> "closed"]
    /\ web = [w \in WebThreads |-> WebIdle] /\ posted = <<>>
    /\ torrentFile \in SUBSET (Torrents \ Magnets)
    /\ resume = [t \in Torrents |-> None]
    /\ legacy \in [Torrents -> ResumeData \cup {None}]
    /\ \A t \in Torrents : legacy[t] # None => t \in torrentFile
    /\ snap = None

Libtorrent ==
    \/ RunJob
    \/ \E t \in Torrents :
          Finish(t) \/ Progress(t) \/ MetadataReceived(t) \/ Expire(t)

Gui ==
    \/ InitSession \/ PopAlerts \/ HandleAlert \/ DeliverRemove
    \/ \E t \in Torrents, p \in Paths \ {NoPath}, g \in Groups :
          AddTorrent(t, p, g) \/ AddMagnet(t, p, g)
    \/ \E t \in Torrents, g \in Groups : SetGroup(t, g)
    \/ \E t \in Torrents, p \in Paths \ {NoPath} : MoveStorrage(t, p)
    \/ \E t \in Torrents :
          \/ RemoveTorrent(t) \/ ProcessMagnetLink(t) \/ DownloadMetadataCompleted(t)
          \/ MagnetError(t) \/ CancelMagnetLink(t)

Web ==
    \E w \in WebThreads :
        \/ WebRemoveSession(w) \/ WebAddStore(w) \/ WebAddCopy(w)
        \/ \E t \in Torrents : WebRemoveFiles(w, t)
        \/ \E t \in Torrents, p \in Paths \ {NoPath} : WebAddSession(w, t, p)

Closing ==
    \/ CloseStart \/ CloseWait \/ ClosePop \/ CloseHandle \/ CloseDone
    \/ \E t \in Torrents : CloseAsk(t)

Next == Libtorrent \/ Gui \/ Web \/ Closing \/ Crash

Spec == Init /\ [][Next]_vars

(* The exits of onClose's loop: libtorrent's threads answer what they are  *)
(* asked, and the GUI thread does nothing but this loop.                   *)
Fairness ==
    /\ WF_vars(RunJob)
    /\ WF_vars(CloseWait) /\ WF_vars(ClosePop) /\ WF_vars(CloseHandle) /\ WF_vars(CloseDone)
    /\ \A t \in Torrents : WF_vars(CloseAsk(t))

FairSpec == Spec /\ Fairness
-----------------------------------------------------------------------------
(* Properties *)

(* The variables have their types. *)
TypeOK ==
    /\ phase \in {"down", "up", "saving", "draining"}
    /\ outstanding \in Int
    /\ leaked \in BOOLEAN /\ clean \in BOOLEAN
    /\ live \subseteq Torrents /\ meta \subseteq live /\ dirty \subseteq live
    /\ toSave \subseteq meta
    /\ path \in [Torrents -> Paths]
    /\ zombie \subseteq Torrents /\ hasty \subseteq Torrents /\ reloaded \subseteq Magnets
    /\ jobs \in Seq(Items) /\ alerts \in Seq(Items) /\ batch \in Seq(Items)
    /\ stored \subseteq Torrents /\ stale \subseteq stored
    /\ group \in [Torrents -> Groups]
    /\ dialog \in [Torrents -> {"closed", "waiting", "offered", "error", "lost"}]
    /\ web \in [WebThreads -> [op : {"idle", "remove", "store", "copy"},
                               t : Torrents \cup {None}, cur : BOOLEAN, g : Groups]]
    /\ posted \in Seq(Torrents)
    /\ torrentFile \subseteq Torrents
    /\ resume \in [Torrents -> ResumeData \cup {None}]
    /\ legacy \in [Torrents -> ResumeData \cup {None}]
    /\ snap \in Snapshots \cup {None}

(* Every entry of TorrentStorrage whose handle is current stands for a     *)
(* torrent of the session, whatever the web threads and dialogs did.       *)
FreshEntriesAreLive == stored \ stale \subseteq live

(* While the program runs, a listed torrent has its .torrent in CT_DATA,   *)
(* so that even a crash leaves it listed at the next start; unless a web   *)
(* thread is halfway through removing or adding it, the alert that will    *)
(* write a magnet's file is still to be handled, or it is a link whose     *)
(* metadata came from .resume, for which no alert comes and no file is     *)
(* ever written.                                                           *)
StoredOnDisk ==
    phase = "up" =>
        \A t \in stored \ stale :
            \/ t \in torrentFile
            \/ \E w \in WebThreads : web[w].t = t /\ web[w].op \in {"remove", "copy"}
            \/ Queued(alerts, {"metadata"}, t) \/ Queued(batch, {"metadata"}, t)
            \/ t \in reloaded

(* A listed torrent that reports nothing to save is saved: its .resume     *)
(* names the path it has now, or the save is on its way, whatever moves,   *)
(* removals and late alerts of an earlier torrent with its hash came in    *)
(* between; unless that one was removed while libtorrent was preparing its *)
(* resume data, whose alert may then come after the new torrent's own.     *)
CleanMeansSaved ==
    phase # "down" =>
        \A t \in ((stored \ (stale \cup hasty)) \cap meta) \ dirty :
            \/ SaveInFlight(t)
            \/ resume[t] # None /\ resume[t].path = path[t]
            \/ \E w \in WebThreads : web[w].t = t /\ web[w].op = "remove"

(* With the GUI thread alone, session, TorrentStorrage and the .torrent    *)
(* files of CT_DATA agree between any two steps.                           *)
SessionStorageDiskAgree ==
    phase = "up" => stored = live /\ torrentFile = live

(* With the GUI thread alone, the group on disk is the torrent's group as  *)
(* soon as no save is under way: setGroup's save is never lost or late.    *)
GroupSaved ==
    phase = "up" =>
        \A t \in (stored \cap meta) \ dirty :
            SaveInFlight(t) \/ (resume[t] # None /\ resume[t].group = group[t])

(* onClose at a moment when nothing was in flight, then a start: every     *)
(* listed torrent is back, at the save path it had, unless it is an added  *)
(* again one that was removed while its resume data was being prepared.    *)
RestartRestores ==
    [][phase = "down" /\ phase' = "up" /\ snap # None =>
          \A t \in snap.stored : t \in stored' /\ path'[t] = snap.path[t]]_vars

(* The same for its group, with the GUI thread alone. *)
RestartRestoresGroups ==
    [][phase = "down" /\ phase' = "up" /\ snap # None =>
          \A t \in snap.stored : group'[t] = snap.group[t]]_vars

(* onClose's loop ends: every answer it waits for comes and is counted. *)
CloseTerminates == phase \in {"saving", "draining"} ~> phase = "down"

(* libtorrent's documentation of save_resume_data: a torrent counts as     *)
(* saved once its alert is posted, so the alert must be received; and the  *)
(* counter must cover saves asked for before the loop, or it is thwarted.  *)
CloseReceivesEverySave ==
    phase = "draining" /\ batch = <<>> /\ outstanding <= 0 =>
        \A t \in live : ~SaveInFlight(t)

(* The same documentation: a torrent is not removed before the alert with  *)
(* the resume data that was asked for has been received.                   *)
NoRemoveBeforeSaved ==
    [][\A t \in Torrents :
          phase' = "up" /\ t \in live /\ t \notin live' => ~SaveInFlight(t)]_vars
=============================================================================
