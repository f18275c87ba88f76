# A verification development for CuteTorrent

CuteTorrent is a Qt BitTorrent client on libtorrent 1.0.2. This directory holds
TLA+ modules translated from its source, configurations that check them with
TLC, and theorems about them proved with TLAPS. Paths below are relative to
`src/CuteTorrent/src/`; `libtorrent/` stands for
`src/CuteTorrent/ThirdParties/libtorrent-rasterbar-1.0.2/`.
`PROJECT.json` names, for every definition, the lines it stands for.

## 1. Inventory

**Torrent lifecycle** (`TorrentManager`, `Torrent`, `MetaDataDownloadWaiter`,
`OpenTorrentDialog`, `webControll/CommandsApiController`, `UploadController`,
`MagnetApiController`).
- State: libtorrent's session, its disk jobs and its alert queue; the entries of
  `TorrentStorrage` with their handles and groups; the directory CT_DATA with
  `<hash>.torrent`, `<hash>.resume` and `path.resume`.
- Operations: `AddTorrent`, `RemoveTorrent`, `MoveStorrage`, `setGroup`, magnet
  links, `handle_alert`, `initSession`, `onClose`.
- Interaction: calls into libtorrent, answers by alerts polled once a second;
  the signal `TorrentRemove`; web handler threads call it with no lock. A link
  posted to `MagnetApiController` starts a `MetaDataDownloadWaiter` from a handler
  thread, and its answer comes to the GUI thread as a queued signal.
- Hard: what is asked now is written later; late alerts of a removed torrent;
  web threads between any two calls; exit and crash at any moment.
- Correct: list, session and CT_DATA agree; a torrent that reports nothing to
  save is saved; what a torrent had is back after a restart; the exit ends.

**Torrent list** (`TorrentStorrage`, `QTorrentDisplayModel`).
- State: the list, the rows the filter shows, filters, selection, current torrent.
- Operations: append, remove, filter, the one-second refresh, actions on rows.
- Hard: row numbers are sampled, a modal question runs the event loop, then they
  are used; the refresh and web removals change the rows meanwhile.
- Correct: rows are torrents of the list; an action reaches what it was asked for.

**HTTP server** (`http/`, `webControll/RconWebService`), under the web control
and the tracker.
- State: the pool of connection handlers; of each handler, a thread, its busy flag,
  socket, read timer and current request.
- Operations: `incomingConnection`, `getConnectionHandler`, `cleanup`, and the slots
  `handleConnection`, `read`, `readTimeout`, `disconnected`.
- Hard: the busy flag is shared between threads; disconnect, time-out, clean-up and
  re-use come in any order; `service` blocks on slow peers; a part of a line is taken
  for the line.
- Correct: a handler serves one connection at a time, bytes are not mixed, every
  wait is timed, a free handler is found again, the GUI thread does not wait for peers.

**Built-in tracker** (`tracker/`).
- State: hash -> peers, changed by handler threads with no lock.
- Operations: `service`, `ProcessAnnounceRequest`, `ReplyWithPeerList`.
- Hard: a list is copied, changed and stored back.
- Correct: the lists are the swarms, at least while announcements do not overlap.

**Scheduller** (`Scheduller`, `SchedulerTask`, `QApplicationSettings`, the scheduler
tab of `SettingsDialog`).
- State: the task queue, one timer, the dialog's own copy, `schedulertasks.xml`.
- Operations: start, `UpdateTasks`, `checkTasks`, `timerEvent`, `AddTask`, `DeleteTask`.
- Hard: erasing in a loop, empty lists, 32-bit intervals, two lists written over one
  another, a file that cannot be read and is taken for an empty one, a warning that
  runs an event loop inside a save, crashes.
- Correct: late tasks are final, tasks to come are kept.

**Search** (`SearchEngine`, `SearchItemsStorrage`, providers): results of
overlapping searches in one filtered store. Correct: what is shown matches the
filter and the last search.

**Others**: main window and dialogs, file tree, video player, backup wizard, RSS
stub, JSON and SGML parsers, update check (section 9). Restoring a backup calls
`initSession` on the session that is up (`backupwizard/applybackuppage.cpp:112`).

The hazards of this code, each at the line where it bites, are under `hazards`
in `PROJECT.json`, with the properties that watch over them.

## 2. Modules and plan

| Module | Content | State |
|---|---|---|
| `TorrentManager` | the torrent lifecycle: libtorrent, GUI thread, web threads, CT_DATA, exit, crash, restart | done |
| `TorrentManagerMC` | its small instances | done |
| `TorrentManagerProofs` | inductive invariant; `TypeCorrect`, `EntriesAreLive` | done |
| `TorrentManagerGuiProofs` | `GuiAgreement`, `GroupIsSaved` | done |
| `TorrentManagerDiskProofs` | `ListedIsOnDisk` | done |
| `TorrentManagerSaveProofs` | `CleanIsSaved`, `ExitRestores`, `ExitRestoresGroups` | done |
| `TorrentLibrary` | abstract: what the list promises its user | done |
| `TorrentList`, `TorrentListMC` | the list, its rows and removals; implements `TorrentLibrary` without filters | done |
| `TorrentListProofs` | `RowsShowTheList`, `RemovedIsNotCurrent`, `ListImplementsLibrary`, `TypeCorrect` | done |
| `HttpServer`, `HttpServerMC` | listener, handler pool, connection handlers, peers | done |
| `HttpServerProofs` | `OneConnectionEach`, `RequestsStayApart`, `WaitsAreTimed`, `ReadsEverything`, `RejectionIsJust`, `TypeCorrect` | done |
| `Tracker`, `TrackerMC` | announcements by several threads over one map | done |
| `TrackerProofs` | `SwarmsAreSequential`, `ListsAreAnnounced`, `PeersLeaveByStopping`, `RepliesAreFirst`, `TypeCorrect` | done |
| `Scheduller`, `SchedullerMC` | queue, timer, dialog, file, crash and restart | done |
| `SchedullerProofs` | `SweepFilters`, `LateOnlyOnce`, `TimerHasTask`, `DueInTime`, `FutureIsKept`, `TypeCorrect` | done |

`Tracker`'s threads are handler threads of `HttpServer`, and so are the web threads
of `TorrentManager`. They meet in one place, `service`, which each module sees from
its side: for `HttpServer` it is a phase that ends when the answer is out, for the
others it is all there is. So the modules are not composed further.

Every safety property that a run checks is the subject of a theorem. Search is left
out: it is sequential and almost all text.

## 3. TorrentManager

One action is one step another party can run between. In the GUI thread a
handler is atomic, because it runs no event loop; so a GUI `AddTorrent`,
`RemoveTorrent`, `setGroup`, `MoveStorrage`, and each call of `handle_alert` is
one action. `PostTorrentUpdate` takes the whole alert queue (`PopAlerts`) and
handles it alert by alert (`HandleAlert`), since libtorrent and web threads go on
meanwhile; no other GUI action starts until the batch is done (`GuiIdle`). A web
thread's `AddTorrent` is three actions (session, list, copy of the file) and its
`RemoveTorrent` two (signal and files, session); the signal is queued and
delivered by the GUI thread later (`DeliverRemove`).

*State.* `live`, `meta`, `dirty`, `path` are libtorrent's torrents, those with
metadata, with `need_save_resume`, and their save paths. `jobs` and `alerts` are
its disk queue and alert queue. `stored` and `group` are the list's entries;
`stale` those whose handle refers to a removed torrent. An item or a web thread
holds a handle; `cur` says whether it refers to the torrent now in the session.
`zombie` holds removed torrents whose object is kept by a disk job or for a while:
for them a dead handle still answers. `torrentFile`, `resume` and `legacy` are
CT_DATA, all that survives `Crash`. `dialog` is the open dialog of each magnet link;
a link posted to `MagnetApiController` takes the same steps, with nobody to cancel it.

*Links and `.resume`.* `ProcessMagnetLink` hands the `.resume` file to libtorrent, as
`AddTorrent` does. If the file holds the info dictionary (it does if it was saved
with the metadata there), libtorrent takes the metadata from it and posts no alert,
and so nothing writes the `.torrent`: `reloaded`. The limits the file names
(`read_resume_data`) leave the torrent with something to save.

*Order and data.* Resume data is a path and a group. `save_resume_data` on a
torrent that checks its files is answered at once, else a disk job prepares it;
the path is taken when the job is done, the group when the alert is handled.
A torrent's progress, limits, file priorities and peers are left out: no property
depends on them beyond `dirty`. `toSave` may hold torrents that are not dirty:
libtorrent reports `need_save_resume` also 15 minutes after the last save.

*Environment.* `Init` is a directory as an earlier version left it: torrents that
only `path.resume` says the place of. Writing a file does not fail. `Crash` is a
crash, a kill, and also the exit of a session in which a magnet link was opened:
`MetaDataDownloadWaiter` takes a reference to the manager and never gives it back,
so `~TorrentManager` and `onClose` do not run (`leaked`). `CloseStart` takes the
web threads as idle: before the manager goes, `~RconWebService` closes the
listener and deletes the request handlers without waiting for the threads, so a
request still being handled then runs on a deleted object, and its outcome is `Crash`.

*History variables.* `clean` and `snap` record whether `onClose` began with
nothing in flight and what it left. `hasty` records torrents removed while their
resume data was being prepared, which libtorrent's documentation forbids
(`libtorrent/include/libtorrent/torrent_handle.hpp:616-617`).

### Properties

| Property | What it says |
|---|---|
| `TypeOK` | types |
| `FreshEntriesAreLive` | an entry whose handle was not invalidated is in the session |
| `StoredOnDisk` | a listed torrent has its `.torrent`, so it survives a crash, except while a web thread or an alert is about to write or remove it, and except links in `reloaded` |
| `CleanMeansSaved` | a listed torrent with nothing to save has its present path in `.resume`, or the save is on its way |
| `SessionStorageDiskAgree` | GUI thread alone: session = list = files |
| `GroupSaved` | GUI thread alone: no save of a group is lost |
| `RestartRestores`, `RestartRestoresGroups` | after a clean `onClose` and a start every torrent is back with its path (and its group) |
| `CloseTerminates` | `onClose`'s loop ends |
| `CloseReceivesEverySave`, `NoRemoveBeforeSaved` | what libtorrent's documentation asks of its user; the code does not do it (section 7) |

`CleanMeansSaved` and `RestartRestores` except `hasty` torrents: a torrent
removed while its resume data is prepared and added again at once may find the
late alert of its predecessor written over its own file. That is the consequence
`tm_remove` demonstrates the cause of, so the two properties are stated for
everything else. `StoredOnDisk` excepts `reloaded` links: open a link, let its resume
data be saved, cancel, open it again and accept; it is listed without a `.torrent` and
gone at the next start. The property says that no other torrent is. Both are checked with one web thread or with magnet links. With two
threads, or with one and magnet links, `CleanMeansSaved` fails: a thread that removes
an entry an earlier torrent left may delete the files of one the other thread, or the
dialog, is about to list, and then nothing more. No lock excludes it.

### Fairness

`FairSpec`, for `CloseTerminates` only: weak fairness of `RunJob` (libtorrent's
threads finish their jobs and post their answers) and of each step of `onClose`'s
loop (the GUI thread does nothing else then; a `Crash` also ends it). Nothing is
assumed of users, peers, web threads or of actions before `onClose`.

## 4. TorrentLibrary and TorrentList

`TorrentLibrary` is the promise: torrents are added, and exactly those the user
was asked about are removed. A torrent may die while it is listed; then the answer may
fail to remove it, but never removes another one. `TorrentList` is the code: `list` is `m_torrents`,
`view` is `m_filteredTorrents`, `selection` the row numbers the selection model
holds, `selectedRow` and `current` what `UpdateSelectedIndex` remembers. A
removal is `AskRemove` (rows sampled), anything that may happen while the modal
question is open (`FilterData` each second, `AppendTorrent`, `StatusChanges`,
`WebRemove`, `OnTorrentRemove`, `CancelMagnetLink`), then `AnswerOk` or
`AnswerCancel`. User input is blocked by the question and its actions have the guard
`~box`.

`CancelMagnetLink` is the closing of the dialog of a link whose torrent is in the list
(`Links`): it takes that torrent out of the session and leaves its entry (`dead`).
Removing the row of a torrent whose handle died, in this way or by a web thread,
emits the hash of an expired handle, all zeros, and the entry stays (`Deaf`); while
libtorrent has work for the old torrent its handle still answers, and the entry goes.
The question is no obstacle to it: a link handed over by a second start of the program
opens its dialog over any other.

`removeRow` refuses `row > count` and lets `row = count` through. Then `at()`
returns NULL, or reads past the vector's end: `AnswerOk` has the crash as an
outcome and, if the list is longer than the rows, the removal of whatever the wild
iterator named. `m_filterType` is never initialised: `Init` has every case, which
all show everything. A torrent is represented by the status the filters read.
What a filter or a removal leaves of a list is `Keep`, which numbers the kept
positions by their ranks instead of walking along the list, so that the proofs need
no induction over it; there are finitely many torrents.

| Property | What it says |
|---|---|
| `TypeOK` | types |
| `ViewOfList` | rows are torrents of the list, none twice |
| `CurrentFollowsRemoval` | a removal the user confirmed never leaves a removed torrent current |
| `ImplementsLibrary` | without filters and web server, `Library!Spec` with `listed` the list, `asked` what the sampled rows showed, and `dead` what cancelled links took out of the session |
| `RemovesOnlyWhatWasAsked` | what the question says; violated once a filter is on |

`SettledSpec` starts after the first refresh. Before it the rows are in the order
the torrents were added and the list is sorted, so that a question opened in the
first second may also remove the wrong torrent; `Spec` has those states.
A web thread's `append` races with the refresh on the same vectors. No outcome of
that race can be excluded, so the model has no such step.

## 5. HttpServer, Tracker, Scheduller

### HttpServer

GUI thread: `IncomingConnection` is `incomingConnection` with `getConnectionHandler`
(`TakeIdle`, `CreateHandler`), which ends in a call queued to the handler's thread
(`calls`) or in `Reject`; `Cleanup` is `cleanup` up to the destructor's `wait`,
where the GUI thread stays (`gui`) until `Deleted`. Handler threads: one action per
slot. `read` is `ReadPart`, `ReadAbort`, or `ReadComplete` and `EndService`, between
which the thread is in `service` (`phase`): others go on meanwhile, the socket reads
in `waitForBytesWritten` (`ReadInService`), and a hang-up runs `disconnected` inside
it (`DisconnectedInService`). A slot that disconnects leaves the socket `closing`
until its output is out (`Disconnected`); then no `readyRead` is delivered.

A request is two halves, wherever the network cut it between two lines; `req` records
which connection each half came from, and `timer` which connection it was started on.
A line that is cut is misread: `readRequest` and `readHeader` take what `readLine`
has of it for the line, so a line feed that comes alone is the empty line that ends
the headers, and a length that is cut is another length. `ReadTorn` has both ways it
can go: the request is complete and leaves any part of what arrived unread, or goes on
and any part of what was read is lost; `outOfStep` notes the connection. `kernel` and
`buf` are what arrived: only bytes the socket has yet to read raise `readyRead`.
`lost` are handlers whose `setSocketDescriptor` failed; they stay busy for ever.
Descriptors and handler objects are reused, as addresses and file descriptors are;
there are finitely many descriptors (`IsFiniteSet(Conns)`), which lets them be counted.
Reads of the busy flag by the other thread are atomic (a `bool`).

| Property | What it says |
|---|---|
| `TypeOK` | types; the pool has no handler twice and at most `maxThreads` |
| `OneConnection` | a handler has one connection, exactly while it is busy or lost, so what is given away or deleted has none |
| `RequestsUnmixed` | bytes of two connections never meet in one request |
| `OpenIsTimed` | a handler that waits for its peer has this connection's timer running |
| `NothingLeftUnread` | bytes already read wait silently only if the peer pipelined or a line of it was cut |
| `RejectsOnlyWhenFull` | a 503 means `maxThreads` connections in progress, but for lost handlers |
| `ConnectionsEnd` | a connection ends unless its peer sends for ever or does not read |
| `GuiReturns` | clean-up never waits for a peer |

The exceptions in `NothingLeftUnread` are real. Of a request completed by a cut line
the rest stays in the socket, which says nothing of it, and is read as the next
request. And `http/httpconnectionhandler.h:18-20` says that requests sent before the response are "queued and processed one after the
other". A second request that the socket has read together with the first raises no
further `readyRead`, and is answered only when more bytes come, or with 408.

*Fairness.* Weak fairness of the event loops (a queued call is handled, a running
timer fires), of output that leaves (`Disconnected`, `EndService`) unless the peer
is one that has stopped reading (`Stalled`, `Flows`), and of the destructor's wait.
Nothing is assumed of peers, of new connections or of `cleanup`.

### Tracker

A thread in `ProcessAnnounceRequest` takes one step per operation on the map:
`Announce` (all checks, in order, up to `contains`), then `Remove`, or `Copy`,
`Store` and `ReplyWithPeerList`. An address is "ip:port", numbers for the order of
the map. An info hash with a zero byte is cut by `std::string(const char*)` and
refused. A "stopped" for an unknown hash falls through and registers the peer.
Each operation on the `QMap` is taken as atomic, which is more than Qt promises.
`swarm` is what the announcements make one after another, in the order of their
writes; `overlapped` are hashes written while another thread held a copy. There are
finitely many addresses, so that a reply can be cut.

| Property | What it says |
|---|---|
| `TypeOK` | types; an accepted request wants at least one peer |
| `SwarmUnlessOverlap` | a list is the sequential swarm unless two announcements of that very hash overlapped |
| `OnlyAnnounced` | overlap or not, no list names a peer that did not announce itself for the hash |
| `LeavesByStopping` | a peer leaves only by its own "stopped" or in an overlap: nothing expires |
| `RepliesFit` | a reply is the first `numwant` peers |

### Scheduller

All in the GUI thread, so each slot is an action. `Startup` and `UpdateTasks` read
the file, sweep it and save it (`ReadTasks`), then set the timer (`Proceed`). A save
that cannot open the file shows a warning, and `MyMessageBox::showDialog` runs the
event loop: `box` says who waits there, `BoxClosed` goes on. `Loop` is the erasing
loop with `QList::erase`'s choice of the end the gap is closed from. `AddTask` and
`DeleteTask` work on the dialog's list `edited`, which was read when it was opened.
A file that cannot be opened is read as an empty one (`Read`): then the start, or
`UpdateTasks`, writes an empty list over it, and the dialog's next save writes the
dialog's empty one. `unread` are the tasks such a read of the start or the dialog
missed; `UpdateTasks` takes first() of the empty list and does not survive it.
`LanguageChange` reads the dialog's list again, and connects `tasksChanged` once more,
so that `AddTask` then runs `UpdateTasks` twice (`SettingsDialog.cpp:702`): the second
run reads what the first has just written, and the model has the first only.
`Save` may write, fail, or die at any point with a prefix of the file written;
GetSchedullerQueue reads what is complete. `StartTimer` counts whole seconds and
wraps as 32 bits of milliseconds do. `Perform` leaves out what a task does.
Tasks are distinct, and their times are whole seconds, as the file's format makes them.

| Property | What it says |
|---|---|
| `TypeOK` | types; no list has a task twice |
| `TimerMeansTask` | while a timer runs the queue is not empty (except in the warning inside `UpdateTasks`) |
| `SweepIsFilter` | the loop that erases while it iterates drops the late tasks and only them, whatever file it meets and whenever |
| `LateIsFinal` | a task performed late is not performed again, though crashes and the dialog bring it back |
| `DueByStart` | a timer that runs is due by the start of the first task |
| `FutureKept` | a task to come that the scheduler knows, or the start is about to read, leaves the file only performed, deleted, in a crash, or missed by a failed read |

The exception of `FutureKept` is what the code does: open the settings while another
program has the file, add a task, and all others are gone. Nothing tells the user. The
property says that this is the only way. Tasks on file that the scheduler does not know
of (a save that failed and was made good by a later one) it may overwrite.

`DueByStart` does not say that a timer runs or that it is not early: `timerEvent`
counts the next interval from the task it has just performed, so the next task
follows at once or, a second later, not before the next start of the program. And it
holds only while a task is late by less than half of 2^32 ms, some 24.8 days: a
warning left open, or a session suspended, for longer makes the negative interval
wrap to a positive one, and the timer is set for days after the start. TLC shows it
with `MaxTime = 7`, `Wrap = 3`; the run and `DueInTime` stay within the half.

## 6. Runs

| Run | Instance | Shows |
|---|---|---|
| `tm_gui` | 1 torrent, 2 paths, 2 groups | GUI thread and libtorrent: agreement, saved paths and groups, restart |
| `tm_web` | 1 torrent, 1 path, 1 web thread | the same torrent added and removed by both threads, call by call |
| `tm_magnet` | 1 torrent that is also a magnet link | link, file, accept, cancel and metadata, from peers or `.resume`, in every order |
| `tm_close` | 2 torrents, `FairSpec` | `onClose` ends from every state |
| `tm_counter` | 2 torrents | violation (section 7) |
| `tm_remove` | 1 torrent | violation (section 7) |
| `list_plain` | 3 torrents, 2 of them links, no filter | `TorrentList` implements `TorrentLibrary` |
| `list_filtered` | 2 torrents, both links, 3 filters, 2 groups, web server | rows and current torrent under every change |
| `list_removal` | 3 torrents, 1 filter | violation (section 7) |
| `http_pool` | pool of 2 out of 3 handlers, 3 connections, 1 peer that does not read, `FairSpec` | the life of connections and handlers, safety and liveness |
| `tracker` | 2 threads, 3 hashes, 2 peers | what overlapping announcements can and cannot do |
| `scheduller` | 3 tasks, 2 of them at the same time, 1 beyond the wrap | queue, dialog and file through failures and restarts |

*Bounds.* Torrents do not interact in `TorrentManager` but through the order of
the queues and `onClose`'s counter: one torrent shows the interleavings of one
hash (removed, added again, late alerts of the old), and two are used where the
counter matters. The proofs are for any number. `MaxQueue = 2` bounds jobs, alerts
and signals in flight together, and stands only in the guards of actions by which
a user or a peer starts something; the code's own reactions and libtorrent's
answers are never blocked by it, so an `AddTorrent` or a save it leads to goes
beyond. Two suffice for an old and a new save, or a save and a move, of one hash
in one queue. Symmetry (save paths, threads, torrents of the list) is used in
safety runs only. In `TorrentList` two torrents let rows vanish, shift by one and
go one beyond the end; `list_plain`, about several rows in one removal, has three.
The list's runs allow the program to stop: it does where it follows a wild
pointer. The others check deadlock.

`http_pool`: with a pool of two, one connection is rejected while two are served,
and a third handler object exists while one is being deleted; `MaxHalves = 2` lets a
whole request, or the end of one and the start of the next, wait on a connection.
`tracker`: two threads are enough for a lost update, two hashes for a mix-up of
them, `numwant` 1 of two peers for a cut. `scheduller`: `MaxTime = 4` half seconds
reach past the first two tasks, to where their followers' timers are negative; `Wrap =
5` seconds stands for
2^32 ms, so that the far task's interval is once negative and once wrapped. Equal
start times and a far one give lists of every order. Symmetry is used in `tracker`
and, of the two tasks at the same time, in `scheduller`.

## 7. Disagreements between code and documentation

1. `tm_counter`: `onClose` counts in a local variable (`TorrentManager.cpp:825`)
   only the saves it asks for. libtorrent's documentation explains why the
   counter has to be global. Set a group and exit: the save is in flight, nothing
   is left to ask for, the loop does not run, the group is lost.
2. `tm_remove`: `RemoveTorrent` does not wait for resume data that was asked for,
   which the documentation says to make sure of. The late alert writes `.resume`
   again, and the next torrent with that hash starts with it.
3. `list_removal`: the question "Are you shure to remove torrent?" is about the
   selected rows; the answer removes what those rows show by then. A torrent that
   becomes active under the filter "active" is removed, with its files if asked
   for, in place of the selected one.

## 8. Proofs

Every theorem rests on the `ConstantsAssumption` of its module and on nothing else,
unless it says so. The invariants named below were checked by TLC before they were
proved, and most theorems have the same shape: an inductive invariant, a lemma for
each action or group of actions that may disturb it, and a last temporal step.

**TorrentManager**, for any torrents, paths, groups, magnet links and web threads:

- `TypeCorrect`: `Spec => []TypeOK`.
- `EntriesAreLive`: `Spec => []FreshEntriesAreLive`. It is not inductive: an entry
  comes from a handle a web thread or a dialog held before, and it stays live
  because a removal invalidates every such handle. `IInv` therefore adds that
  every current handle in a queue, a dialog or a web thread is of a live torrent
  (`HandlesCurrent`), that a process that is down holds none (`DownIsEmpty`), that
  `toSave` is empty outside `onClose`'s first loop, and that a busy web thread has
  a torrent. Lemmas say what `Append`, `Tail` and `Orphan` do to a queue's handles.
- `ListedIsOnDisk`: `Spec => []StoredOnDisk`, if there are no magnet links or no web
  threads. `DiskInv` replaces the exception for web threads by a stronger one (a
  removal only counts while its handle is current, `HalfDone`), and adds that the
  torrent a dialog will list has its file or a metadata alert that will write it, that
  a torrent is offered only with metadata, and that dialogs are those of magnet links.
  Only a link with a `.resume` file gets metadata without the alert (`NoFileYet`), and the property excepts it.
  With both, the property is false, as TLC shows in fifteen steps: `CancelMagnetLink`
  removes a torrent that was added as a file and leaves its entry; the link is opened
  again, its metadata written and offered; a web thread's `RemoveTorrent`, on the old
  entry, deletes the new file and then nothing more, as the object it asks for has
  expired; and the user accepts. So the hypothesis is not one of convenience.
- `GuiAgreement`: with no magnet links and no web threads,
  `Spec => []SessionStorageDiskAgree`. `GuiInv` adds, on top of `IInv`, that every
  torrent has metadata, no entry is stale, no signal or dialog is open and no
  metadata alert is queued: the absence of what lets the three differ.
- `GroupIsSaved`, under the same hypothesis: `Spec => []GroupSaved`, which is
  inductive with `GuiInv`, as a group is taken when the alert is handled, never before.
- `CleanIsSaved`: `Spec => []CleanMeansSaved`, with magnet links or with one web
  thread. The property says that some save is on its way; that does not tell which of
  several alerts of a hash is written last, nor with which path. `SaveInv` says what
  `.resume` will hold once the batch, and then all alerts, are handled: the last save
  alert of the hash is the present torrent's, with its present path, or there is none
  and the file has that path (`Ends`, `BatchLeaves`, `AlertsLeave`). It covers a torrent
  that is yet to be listed by a dialog or a web thread (`ToBeListed`), lets a web
  thread excuse a missing file only while its handle is current (`BeingRemoved`), and
  adds that a job preparing resume data of a removed torrent makes it a `hasty` one
  (`LateSavesAreHasty`): such a job is the only way an older alert can come after the
  torrent's own. The hypothesis is needed (section 3): TLC has a counterexample of
  fifteen states with two threads, of nineteen with one and a magnet link.
- `ExitRestores`: `Spec => RestartRestores`, under the same hypothesis. `ExitInv` says
  of an `onClose` that began with nothing in flight that every listed torrent has its
  `.torrent`, that what is dirty is still to be asked for, that no move is queued, and
  that the counter is the number of answers to come (`Counted`). Answers cannot be told
  apart from each other, but they stand behind all other alerts of a queue, as nothing
  else is posted meanwhile; so the count is a difference of lengths (`AnswersAfter`),
  and at zero no queue holds a save (`NothingToCome`). With `SaveInv` the files then
  have the paths (`PathsOnDisk`), and `initSession` lets them win. `ListedHasMeta`, that
  what is listed has metadata, keeps `save_resume_data` from refusing.
- `ExitRestoresGroups`: `Spec => RestartRestoresGroups`, with no magnet links and no
  web threads, from `ExitInv` and from `GroupsKept`, which is `GroupSaved` through
  `onClose` as well.

**TorrentList**, for any torrents, filters and groups: `IInv` is `TypeOK` and
`ViewOfList`. What had to be found are the facts about `Keep` (it has the kept
elements, in their order and each once; it is the list itself if all are kept), which
rest on `RanksOfSet`: the ranks of a finite set of n indices are exactly 1 .. n.
`RemovedIsNotCurrent` follows from the answer's own steps.
`ListImplementsLibrary` assumes `Plain` (no filter, one group, no web server; with any
of them the property is false, section 7), and nothing of magnet links. Its invariant `PlainInv` says that the
rows are the whole list and `asked` is what the sampled rows show still: appends go
behind them, and nothing else can move them. Every step is then a step of
`TorrentLibrary` or a stutter.

**HttpServer**, for any handlers, connections and limits: `Inv` is `TypeOK`,
`OneConnection`, `RequestsUnmixed` and `OpenIsTimed` together with `Apart`. They are
inductive only together: that a new connection finds no half request rests on
`handleConnection` being the only way to a socket, that it finds a free handler on
`OneConnection`. `Apart` adds that the handler being deleted has left the pool (else
its deletion could free one that was given away), that a lost handler has neither
call nor connection, and that a request has at most two halves. Lemmas say what
removing from and appending to a list without repetitions does to it
(`RemoveFromPool`, `AppendToPool`) and what `read` adds to a request (`TakeHalves`).
`ReadsEverything` and `RejectionIsJust` need `Placed` as well: a connection is at one
handler only, and is open or queued there. With it, `Counted` bounds the bytes of a
peer that takes turns by the request being read, wherever they are; and a full pool
maps its busy handlers one to one to connections in progress or lost handlers, which
is the inequality of the rejection.

**Tracker**, for any threads, hashes and peers: `SwarmUnlessOverlap` is not
inductive. A copy may be stored long after it was made; it is harmless because every
write in between marked the hash as overlapped. `SwarmInv` adds just that
(`CopyIsCurrent`: of a hash that is not marked, a thread's copy is the list).
`PeersLeaveByStopping` follows from it, step by step. `ListsAreAnnounced` needs
`TypeOK` only: it holds of the copies as well as of the lists. `RepliesAreFirst` is
about `First`: the peers with fewer than n before them are n, or all there are.

**Scheduller**, for any finite set of tasks and any start times. `SweepFilters` is
about a loop over a list of any length, and so takes an induction: the theorems of
the library for it take an operator, but that a set of naturals has a least member
(`LeastMember`) can be cited, and the proofs take the least counterexample. `LoopsEnd`
shows with it that the recursion defines a function, `SweepSorted` that on a sorted
list it drops a prefix: the late tasks come first, and the gap is closed from the front
as long as the iterator is in the first half. That the list is sorted is an invariant
of the file (`Ordered`), also after a crash in the middle of a save. `IInv` adds to it
and to `TypeOK` that a task performed late has left the queue and stays late
(`LateGone`, for `LateOnlyOnce`), and that the scheduler's tasks are on file and all of
both in the dialog's list, but for tasks that are late, performed, deleted or missed by
a failed read (`TasksOnFile`, `DialogHasAll`, for `FutureIsKept`). `DueInTime` assumes
`MaxTime <= Wrap`, a run shorter than half of 2^32 ms; without it the property is
false (section 5). Within it the remainder can only shorten a positive interval and
makes of every negative one more than half of `Wrap`, that is, no timer
(`Remainder`); and the task just performed, which `timerEvent` counts from, starts no
later than the next.

Only model-checked: `CloseTerminates`, `ConnectionsEnd` and `GuiReturns` (liveness under
fairness, which is out of the prover's reach).

## 9. Not modelled

Of the HTTP server: `Stop`, which deletes busy handlers and closes their sockets from
the GUI thread; the parsing of headers and forms, the ranges of the IP filter,
sessions and static files; and a response that asks for the connection to be closed,
which `HttpResponse` would do: no controller sets such a header. Of the tracker: data races inside `QMap`, and the bencoded
reply. Search is sequential slots of the GUI thread over web pages. Settings, rate limits,
port mappings and read-only queries of `TorrentManager` have no state that the
properties speak of. The main window and dialogs call what is modelled and keep
widgets only. The file tree shows libtorrent's file list; the video player is a
client of a third-party library; the backup wizard packs and unpacks CT_DATA, and
after unpacking runs `initSession` a second time, with the session and the list as
they are, which the properties do not cover; RSS is a
stub; the JSON and SGML parsers are third-party text parsers; the update check is
one web request. Failing disk writes of `TorrentManager` are left out: it ignores
their result everywhere.
