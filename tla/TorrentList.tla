---------------------------- MODULE TorrentList ----------------------------
(***************************************************************************)
(* The torrent list of the main window: TorrentStorrage (all torrents, and *)
(* the rows its filter shows) and QTorrentDisplayModel (the selection and  *)
(* the actions on it), in the GUI thread.  The filter is applied again     *)
(* every second, also while the modal question of a removal is open; the   *)
(* web server's removals arrive as queued signals.                         *)
(***************************************************************************)
EXTENDS Integers, FiniteSets, SequencesExt

CONSTANTS
    Torrents,
    NoTorrent, (* the NULL of a Torrent*                                   *)
    Statuses,  (* a subset of AllStatuses                                  *)
    Filters,   (* a subset of AllFilters: the filters the user picks from  *)
    Groups,    (* group names                                              *)
    NoGroup,   (* the empty group name                                     *)
    WebServer, (* whether the web server runs                              *)
    Links      (* those the user opens magnet links of while they are here *)

(* The values of TorrentFilterType, and what libtorrent says of a torrent  *)
(* as far as they tell it apart.                                           *)
AllFilters  == {"ACTIVE", "NOT_ACTIVE", "SEEDING", "DOWNLOADING", "COMPLETED", "NONE"}
AllStatuses == {"queued", "checking", "stalled", "downloading", "seeding", "uploading"}

ASSUME ConstantsAssumption ==
    /\ IsFiniteSet(Torrents) /\ NoTorrent \notin Torrents
    /\ Statuses \subseteq AllStatuses
    /\ Filters \subseteq AllFilters
    /\ NoGroup \in Groups
    /\ WebServer \in BOOLEAN
    /\ Links \subseteq Torrents

VARIABLES
    list,          (* m_torrents                                           *)
    view,          (* m_filteredTorrents                                   *)
    filterType,    (* m_filterType, "other" if it is neither of the two    *)
    torrentFilter, (* m_torrentFilter                                      *)
    groupFilter,   (* m_groupFilter                                        *)
    status,        (* what libtorrent says of each torrent                 *)
    group,         (* the group of each torrent                            *)
    selection,     (* the rows the selection model holds, from 0           *)
    selectedRow,
    current,       (* CurrentTorrent                                       *)
    box,           (* the question of a removal is open                    *)
    rows,          (* the rows ActionOnSelectedItem sampled before it      *)
    asked,         (* history: the torrents those rows showed then         *)
    posted,        (* TorrentRemove signals of web threads not yet handled *)
    dead,          (* torrents CancelMagnetLink took out of the session    *)
    crashed        (* a NULL or wild pointer was followed                  *)

filterVars  == <<filterType, torrentFilter, groupFilter>>
torrentVars == <<status, group>>
selectVars  == <<selection, selectedRow, current>>
boxVars     == <<box, rows, asked>>

vars == <<list, view, filterVars, torrentVars, selectVars, boxVars, posted, dead, crashed>>
-----------------------------------------------------------------------------
Listed  == Range(list)
RowsOf(v) == 0 .. Len(v) - 1

(* The elements of q that are in S, in their order.  (SelectSeq by ranks:  *)
(* the k-th of the indices to keep is the one with k of them up to it.)    *)
KeptAt(q, S)  == {i \in DOMAIN q : q[i] \in S}
Rank(I, i)    == Cardinality({j \in I : j <= i})
Keep(q, S)    == LET I == KeptAt(q, S)
                 IN  [k \in 1 .. Cardinality(I) |-> q[CHOOSE i \in I : Rank(I, i) = k]]

Active      == {"checking", "downloading", "uploading"}
Fast        == {"downloading", "uploading"}
Downloading == {"stalled", "downloading"}
Seeding     == {"seeding", "uploading"}

(* The cases of TorrentFilterType in filterData. *)
Matches(s, f) ==
    CASE f = "ACTIVE"      -> s \in Active
      [] f = "NOT_ACTIVE"  -> s \notin Fast
      [] f = "DOWNLOADING" -> s \in Downloading
      [] f = "SEEDING"     -> s \in Seeding
      [] f = "COMPLETED"   -> s \in Seeding
      [] f = "NONE"        -> TRUE

(* filterData and filterByGroup. *)
Shown(t, type, f, g) ==
    /\ type = "torrent" => Matches(status[t], f)
    /\ type = "group"   => g = NoGroup \/ group[t] = g
Filtered(type, f, g) == Keep(list, {t \in Torrents : Shown(t, type, f, g)})

(* append looks at m_torrentFilter, whatever the type of the filter is,    *)
(* and has no case for NOT_ACTIVE.                                         *)
AppendShows(s) == torrentFilter = "NOT_ACTIVE" \/ Matches(s, torrentFilter)
-----------------------------------------------------------------------------
(* TorrentStorrage *)

(* append: one that is there already is left alone, with its old handle. *)
AppendTorrent(t, s, g) ==
    /\ ~crashed
    /\ t \notin Listed
    /\ status' = [status EXCEPT ![t] = s]
    /\ group' = [group EXCEPT ![t] = g]
    /\ list' = Append(list, t)
    /\ view' = IF AppendShows(s) THEN Append(view, t) ELSE view
    /\ dead' = dead \ {t}
    /\ UNCHANGED <<filterVars, selectVars, boxVars, posted, crashed>>

(* Mutant: the rows keep the torrent. *)
StorageRemoveFromListOnly(S) ==
    /\ list' = Keep(list, Torrents \ S)
    /\ UNCHANGED view

(* remove takes each torrent of S off the list and off the rows. *)
StorageRemove(S) ==
    /\ list' = Keep(list, Torrents \ S)
    /\ view' = Keep(view, Torrents \ S)

(* The one-second timer. *)
FilterData ==
    /\ ~crashed
    /\ view' = Filtered(filterType, torrentFilter, groupFilter)
    /\ UNCHANGED <<list, filterVars, torrentVars, selectVars, boxVars, posted, dead, crashed>>

SetTorrentFilter(f) ==
    /\ ~crashed /\ ~box
    /\ filterType' = "torrent" /\ torrentFilter' = f /\ groupFilter' = NoGroup
    /\ view' = Filtered("torrent", f, NoGroup)
    /\ UNCHANGED <<list, torrentVars, selectVars, boxVars, posted, dead, crashed>>

SetGroupFilter(g) ==
    /\ ~crashed /\ ~box
    /\ filterType' = "group" /\ groupFilter' = g
    /\ view' = Filtered("group", torrentFilter, g)
    /\ UNCHANGED <<list, torrentFilter, torrentVars, selectVars, boxVars, posted, dead, crashed>>

(* libtorrent goes on. *)
StatusChanges(t, s) ==
    /\ ~crashed
    /\ t \in Listed
    /\ status' = [status EXCEPT ![t] = s]
    /\ UNCHANGED <<list, view, filterVars, group, selectVars, boxVars, posted, dead, crashed>>
-----------------------------------------------------------------------------
(* QTorrentDisplayModel *)

(* The rows selectedIndexes() returns: those that still exist. *)
SelectedRows == selection \cap RowsOf(view)

(* The user changes the selection to S: UpdateSelectedIndex sees the rows  *)
(* that are new and lets all go unless there is exactly one.               *)
UpdateSelectedIndex(S) ==
    /\ ~crashed /\ ~box
    /\ S # selection
    /\ S \ selection \subseteq RowsOf(view)
    /\ IF Cardinality(S \ selection) = 1
       THEN /\ selection' = S
            /\ selectedRow' = CHOOSE r \in S \ selection : TRUE
            /\ current' = view[selectedRow' + 1]
       ELSE selection' = {} /\ selectedRow' = -1 /\ current' = NoTorrent
    /\ UNCHANGED <<list, view, filterVars, torrentVars, boxVars, posted, dead, crashed>>

(* A right click beside the rows. *)
ContextualMenuOnNothing ==
    /\ ~crashed /\ ~box
    /\ selection' = {} /\ selectedRow' = -1
    /\ UNCHANGED <<list, view, filterVars, torrentVars, current, boxVars, posted, dead, crashed>>

(* switchToSearchModel and back: setModel starts with an empty selection,   *)
(* and no signal says so.                                                  *)
SwitchModels ==
    /\ ~crashed /\ ~box
    /\ selection' = {}
    /\ UNCHANGED <<list, view, filterVars, torrentVars, selectedRow, current, boxVars,
                   posted, dead, crashed>>

(* changeGroup on the selected rows. *)
ChangeGroup(g) ==
    /\ ~crashed /\ ~box
    /\ SelectedRows # {}
    /\ group' = [t \in Torrents |->
                    IF \E r \in SelectedRows : view[r + 1] = t THEN g ELSE group[t]]
    /\ UNCHANGED <<list, view, filterVars, status, selectVars, boxVars, posted, dead, crashed>>

(* ActionOnSelectedItem(remove): the rows are sampled, the question opens. *)
AskRemove ==
    /\ ~crashed /\ ~box
    /\ Len(view) > 0 /\ selectedRow >= 0 /\ selectedRow < Len(view)
    /\ box' = TRUE
    /\ rows' = SelectedRows
    /\ asked' = {view[r + 1] : r \in SelectedRows}
    /\ UNCHANGED <<list, view, filterVars, torrentVars, selectVars, posted, dead, crashed>>

CloseBox == box' = FALSE /\ rows' = {} /\ asked' = {}

AnswerCancel ==
    /\ ~crashed /\ box
    /\ CloseBox
    /\ UNCHANGED <<list, view, filterVars, torrentVars, selectVars, posted, dead, crashed>>

(* Mutant: the rows are taken in ascending order, and each removal shifts  *)
(* the rows after it.                                                      *)
RemovedByAscending ==
    {view[r + Cardinality({q \in rows : q < r}) + 1] :
        r \in {r \in rows : r + Cardinality({q \in rows : q < r}) < Len(view)}}

(* The torrents removeRow removes when called on each row of rows, highest *)
(* first, so that no removal moves a row that is still to come.            *)
RemovedBy == {view[r + 1] : r \in rows \cap RowsOf(view)}

(* The torrents whose handle may have died: a web thread has removed them, *)
(* or CancelMagnetLink has.  (The handle lives as long as libtorrent has   *)
(* work for the torrent.)  A dead handle's hash is all zeros: it names no  *)
(* torrent of the list, and the entry stays.                               *)
Deaf(S) == S \cap (Range(posted) \cup dead)

(* Mutant: CurrentTorrent is not reset. *)
RemoveAllKeepsCurrent(S) ==
    /\ \E deaf \in SUBSET Deaf(S) : StorageRemove(S \ deaf)
    /\ selection' = IF S = {} THEN selection ELSE {}
    /\ UNCHANGED <<selectedRow, current>>

RemoveAll(S) ==
    /\ \E deaf \in SUBSET Deaf(S) : StorageRemove(S \ deaf)
    /\ selection' = IF S = {} THEN selection ELSE {}
    /\ current' = IF current \in S THEN NoTorrent ELSE current
    /\ UNCHANGED selectedRow

(* removeRow's check is row > count: the first row after the last passes,  *)
(* at() returns NULL for it, or reads past the end of m_filteredTorrents   *)
(* and may find any torrent there, whose removal shifts the other rows.    *)
OneTooFar == Len(view) > 0 /\ Len(view) \in rows

AnswerOk ==
    /\ ~crashed /\ box
    /\ CloseBox
    /\ \/ /\ ~OneTooFar
          /\ RemoveAll(RemovedBy)
          /\ UNCHANGED crashed
       \/ /\ OneTooFar
          /\ crashed' = TRUE
          /\ UNCHANGED <<list, view, selectVars>>
       \/ /\ OneTooFar /\ Len(view) < Len(list)
          /\ \E S \in SUBSET Listed :
                Cardinality(S) <= Cardinality(rows) /\ RemoveAll(S)
          /\ UNCHANGED crashed
    /\ UNCHANGED <<filterVars, torrentVars, posted, dead>>

(* The magnet link of a torrent of the list was opened, which fails, and   *)
(* the dialog is closed: the torrent leaves the session, not the list.     *)
CancelMagnetLink(t) ==
    /\ ~crashed
    /\ t \in (Links \cap Listed) \ dead
    /\ dead' = dead \cup {t}
    /\ UNCHANGED <<list, view, filterVars, torrentVars, selectVars, boxVars, posted, crashed>>

(* RemoveTorrent in a web thread. *)
WebRemove(t) ==
    /\ ~crashed /\ WebServer
    /\ t \in Listed \ Range(posted)
    /\ posted' = Append(posted, t)
    /\ UNCHANGED <<list, view, filterVars, torrentVars, selectVars, boxVars, dead, crashed>>

(* onTorrentRemove resets the model, and with it the selection. *)
OnTorrentRemove ==
    /\ ~crashed
    /\ posted # <<>>
    /\ StorageRemove({Head(posted)})
    /\ posted' = Tail(posted)
    /\ selection' = {}
    /\ UNCHANGED <<filterVars, torrentVars, selectedRow, current, boxVars, dead, crashed>>
-----------------------------------------------------------------------------
(* Mutant: nor is m_torrentFilter. *)
InitFiltersUnset ==
    /\ filterType \in {"torrent", "group", "other"}
    /\ torrentFilter = "unset" /\ groupFilter = NoGroup

(* The constructor of TorrentStorrage does not initialise m_filterType. *)
InitFilters ==
    /\ filterType \in {"torrent", "group", "other"}
    /\ torrentFilter = "NONE" /\ groupFilter = NoGroup

(* initSession has added the torrents found in CT_DATA to a list without   *)
(* filter, and sorted the list but not the rows.                           *)
Init ==
    /\ \E S \in SUBSET Torrents :
          /\ list \in SetToSeqs(S)
          /\ view \in SetToSeqs(S)
    /\ InitFilters
    /\ status \in [Torrents -> Statuses]
    /\ group \in [Torrents -> Groups]
    /\ selection = {} /\ selectedRow = -1 /\ current = NoTorrent
    /\ box = FALSE /\ rows = {} /\ asked = {}
    /\ posted = <<>> /\ dead = {}
    /\ crashed = FALSE

Next ==
    \/ FilterData \/ ContextualMenuOnNothing \/ SwitchModels
    \/ AskRemove \/ AnswerCancel \/ AnswerOk \/ OnTorrentRemove
    \/ \E f \in Filters : SetTorrentFilter(f)
    \/ \E g \in Groups : SetGroupFilter(g) \/ ChangeGroup(g)
    \/ \E S \in SUBSET (selection \cup RowsOf(view)) : UpdateSelectedIndex(S)
    \/ \E t \in Torrents :
          \/ WebRemove(t) \/ CancelMagnetLink(t)
          \/ \E s \in Statuses : StatusChanges(t, s) \/ \E g \in Groups : AppendTorrent(t, s, g)

Spec == Init /\ [][Next]_vars

(* A second after the start the timer has put the rows in order. *)
SettledInit == Init /\ view = list
SettledSpec == SettledInit /\ [][Next]_vars
-----------------------------------------------------------------------------
(* The variables have their types. *)
TypeOK ==
    /\ list \in Seq(Torrents) /\ view \in Seq(Torrents)
    /\ filterType \in {"torrent", "group", "other"}
    /\ torrentFilter \in AllFilters /\ groupFilter \in Groups
    /\ status \in [Torrents -> Statuses] /\ group \in [Torrents -> Groups]
    /\ selection \subseteq Nat /\ selectedRow \in Nat \cup {-1}
    /\ current \in Torrents \cup {NoTorrent}
    /\ box \in BOOLEAN /\ rows \subseteq Nat /\ asked \subseteq Torrents
    /\ posted \in Seq(Torrents) /\ dead \subseteq Torrents /\ crashed \in BOOLEAN

(* Every row shows a torrent of the list, and no torrent is listed or      *)
(* shown twice, whatever is added, removed and filtered between two        *)
(* refreshes: a row that outlived its torrent would be a dangling iterator.*)
ViewOfList ==
    /\ Range(view) \subseteq Listed
    /\ IsInjective(list) /\ IsInjective(view)

(* A removal the user confirmed never takes the torrent the tabs show off  *)
(* the list and leaves it the current one, also when several rows go, or   *)
(* rows that moved since they were sampled.                                *)
CurrentFollowsRemoval ==
    [][box /\ ~box' /\ ~crashed' /\ current' \in Listed => current' \in Listed']_vars

(* Without filters and the web server, the list is the library its user    *)
(* was promised: only a torrent whose magnet link was opened a second time *)
(* and cancelled may outlive its removal.                                  *)
Library == INSTANCE TorrentLibrary WITH listed <- Listed
ImplementsLibrary == Library!Spec

(* "Are you sure to remove torrent?" (TORRENT_DELITION_MSG): no torrent is *)
(* removed that the question was not about.                                *)
RemovesOnlyWhatWasAsked == [][box /\ ~box' => Listed \ Listed' \subseteq asked]_vars
=============================================================================
