----------------------------- MODULE Scheduller -----------------------------
(***************************************************************************)
(* The scheduler of timed tasks: Scheduller (the queue in memory and one   *)
(* timer), the file QApplicationSettings keeps the queue in, and the tab   *)
(* of the settings dialog, which edits a copy of its own.  All of it runs  *)
(* in the GUI thread; the file may refuse to be read or written at any     *)
(* time, a crash may come at any point, also while it is written, and the  *)
(* timer event as late as the event loop likes.                            *)
(*                                                                         *)
(* Time is in half seconds, start times are whole seconds: the code        *)
(* compares with the clock's milliseconds but sets its timer in seconds.   *)
(***************************************************************************)
EXTENDS Integers, FiniteSets, SequencesExt

CONSTANTS
    Tasks,
    Start,   (* the start time of each task, in seconds                    *)
    MaxTime, (* bound: the last half second                                *)
    Wrap,    (* the seconds in 2^32 milliseconds; from half of it on an    *)
             (* int of milliseconds is negative                            *)
    Off

ASSUME ConstantsAssumption ==
    /\ IsFiniteSet(Tasks) /\ Start \in [Tasks -> Nat]
    /\ MaxTime \in Nat
    /\ Wrap \in Nat \ {0}
    /\ Off \notin Int

VARIABLES
    now,    (* half seconds                                                *)
    file,   (* schedulertasks.xml                                          *)
    up,     (* the program runs                                            *)
    tasks,  (* Scheduller::tasks                                           *)
    timer,  (* when the timer with id cuurentTimerID is due, or Off        *)
    box,    (* who waits in the warning that checkTasks could not save     *)
    dialog, (* the settings dialog is open                                 *)
    edited, (* SettingsDialog::tasks                                       *)
    done,   (* history: how each task was performed                        *)
    deleted,(* history: tasks DeleteTask took off the dialog's list        *)
    unread  (* history: tasks on the file when the start or the dialog     *)
            (* could not read it, which neither has read since             *)

vars ==
    <<now, file, up, tasks, timer, box, dialog, edited, done, deleted, unread>>
-----------------------------------------------------------------------------
Late(t) == 2 * Start[t] < now

(* startTimer(toNextTask * 1000), where toNextTask is counted from the     *)
(* whole second; a negative interval starts no timer.                      *)
StartTimer(t) ==
    LET interval == (Start[t] - now \div 2) % Wrap
    IN  IF 2 * interval < Wrap THEN now + 2 * interval ELSE Off

(* The loop of checkTasks: erase(i), then ++i.  QList closes the gap from  *)
(* its nearer end.  From the front, i moves on to the next task; from the  *)
(* back the next task moves to i and is passed over, and after the last    *)
(* one i never meets end().                                                *)
Loop[s \in Seq(Tasks) \X Nat] ==
    LET list == s[1]
        i    == s[2]
    IN  IF i >= Len(list) THEN [list |-> list, ok |-> i = Len(list)]
        ELSE IF ~Late(list[i + 1]) THEN Loop[<<list, i + 1>>]
        ELSE IF i < Len(list) - i THEN Loop[<<RemoveAt(list, i + 1), i>>]
        ELSE Loop[<<RemoveAt(list, i + 1), i + 1>>]

(* A plausible slip: nothing is dropped. *)
KeepAll(list) == [list |-> list, ok |-> TRUE]

Sweep(list) == Loop[<<list, 0>>]

(* A plausible slip: the list is written as it is. *)
NoSort(list) == {list}

(* qSort: by start time, equal ones in any order. *)
Sort(list) ==
    {s \in [1 .. Len(list) -> Range(list)] :
        /\ Range(s) = Range(list)
        /\ \A i, j \in DOMAIN s : i < j => Start[s[i]] <= Start[s[j]]}

(* SaveSchedullerQueue(list) when the file is f: it is written and the     *)
(* list sorted; it cannot be opened and neither changes; or the program    *)
(* dies before it or in it, as the file is written in place.               *)
Save(list, f) ==
    {[outcome |-> "written", file |-> s, list |-> s] : s \in Sort(list)}
        \cup {[outcome |-> o, file |-> f, list |-> list] : o \in {"failed", "died"}}
        \cup {[outcome |-> "died", file |-> SubSeq(s, 1, n), list |-> s] :
                s \in Sort(list), n \in 0 .. Len(list)}

(* GetSchedullerQueue when the file is f: one that cannot be opened is     *)
(* taken for an empty one.                                                 *)
Read(f) == {f, <<>>}

Missed(q) == unread' = (unread \cup Range(file)) \ Range(q)

(* A crash loses what is in memory. *)
Down ==
    /\ up' = FALSE
    /\ tasks' = <<>>
    /\ timer' = Off
    /\ box' = "none"
    /\ dialog' = FALSE
    /\ edited' = <<>>
-----------------------------------------------------------------------------
(* A plausible slip: the timer is set for the last task. *)
ForLast(list) == StartTimer(Last(list))

ForFirst(list) == StartTimer(list[1])

(* What the constructor ("start") and UpdateTasks ("update") do after      *)
(* checkTasks.  UpdateTasks takes first() of the list even if it is empty, *)
(* and then anything may follow; here, the program dies.                   *)
Proceed(who, list) ==
    IF who = "update" /\ list = <<>> THEN Down
    ELSE /\ up' = TRUE
         /\ tasks' = list
         /\ timer' = IF list = <<>> THEN Off ELSE ForFirst(list)
         /\ box' = "none"
         /\ UNCHANGED dialog

(* They have read q of the file, which is f, and call checkTasks.  If it   *)
(* cannot save a warning is shown, whose event loop runs with the new list *)
(* and, in UpdateTasks, the old timer.                                     *)
ReadTasks(who, q, f) ==
    \E r \in Save(Sweep(q).list, f) :
        /\ file' = r.file
        /\ \/ /\ Sweep(q).ok /\ r.outcome = "written"
              /\ Proceed(who, r.list)
           \/ /\ Sweep(q).ok /\ r.outcome = "failed"
              /\ up' = TRUE
              /\ tasks' = r.list
              /\ box' = who
              /\ UNCHANGED <<timer, dialog>>
           \/ /\ ~Sweep(q).ok \/ r.outcome = "died"
              /\ Down

(* The constructor, at the start of the program. *)
Startup ==
    /\ ~up
    /\ \E q \in Read(file) :
          /\ ReadTasks("start", q, file)
          /\ unread' = Range(file) \ Range(q)
    /\ UNCHANGED <<now, edited, done, deleted>>

UpdateTasks(f) == \E q \in Read(f) : ReadTasks("update", q, f)

BoxClosed ==
    /\ box # "none"
    /\ Proceed(box, tasks)
    /\ edited' = IF up' THEN edited ELSE <<>>
    /\ UNCHANGED <<now, file, done, deleted, unread>>

(* How the task is performed now; "again" if it had been too late before. *)
Perform(t) ==
    done' = [done EXCEPT ![t] =
        CASE @ \in {"late", "again"} -> "again"
          [] @ \in {"no", "timely"} -> IF Late(t) THEN "late" ELSE "timely"]

(* A plausible slip: the timer is started whether or not a task is left. *)
TimerEventAlways ==
    /\ up /\ timer # Off /\ timer <= now
    /\ tasks # <<>>
    /\ Perform(tasks[1])
    /\ \E r \in Save(Tail(tasks), file) :
          /\ file' = r.file
          /\ IF r.outcome = "died" THEN Down
             ELSE /\ tasks' = r.list
                  /\ timer' = StartTimer(tasks[1])
                  /\ UNCHANGED <<up, box, dialog, edited>>
    /\ UNCHANGED <<now, deleted, unread>>

(* timerEvent: the next timer is set from the start time of the task just  *)
(* performed: the next task follows at once, or, a second later, never.    *)
TimerEvent ==
    /\ up /\ timer # Off /\ timer <= now
    /\ tasks # <<>>
    /\ Perform(tasks[1])
    /\ \E r \in Save(Tail(tasks), file) :
          /\ file' = r.file
          /\ IF r.outcome = "died" THEN Down
             ELSE /\ tasks' = r.list
                  /\ timer' = IF Len(tasks) = 1 THEN Off ELSE StartTimer(tasks[1])
                  /\ UNCHANGED <<up, box, dialog, edited>>
    /\ UNCHANGED <<now, deleted, unread>>

(* timerEvent takes first() of an empty queue: the program dies. *)
TimerEventOnNothing ==
    /\ up /\ timer # Off /\ timer <= now
    /\ tasks = <<>>
    /\ Down
    /\ UNCHANGED <<now, file, done, deleted, unread>>
-----------------------------------------------------------------------------
(* The settings dialog, which the user reaches only while no warning is    *)
(* open.  Its own calls of SaveSchedullerQueue may show one, too; a timer  *)
(* event in that one is as good as one before the call.                    *)

(* A plausible slip: the dialog starts with an empty list. *)
OpenEmpty ==
    /\ up /\ ~dialog /\ box = "none"
    /\ dialog' = TRUE
    /\ UNCHANGED
          <<now, file, up, tasks, timer, box, edited, done, deleted, unread>>

OpenDialog ==
    /\ up /\ ~dialog /\ box = "none"
    /\ dialog' = TRUE
    /\ edited' \in Read(file)
    /\ Missed(edited')
    /\ UNCHANGED <<now, file, up, tasks, timer, box, done, deleted>>

(* A plausible slip: what is read is appended, as it is to the combo box. *)
LanguageAppends ==
    /\ dialog /\ box = "none"
    /\ edited' = edited \o file
    /\ UNCHANGED
          <<now, file, up, tasks, timer, box, dialog, done, deleted, unread>>

(* changeEvent reads the list again.  It also connects tasksChanged once   *)
(* more, so that from then on AddTask runs UpdateTasks again on what       *)
(* UpdateTasks has just written; only the first of these runs is here.     *)
LanguageChange ==
    /\ dialog /\ box = "none"
    /\ edited' \in Read(file)
    /\ Missed(edited')
    /\ UNCHANGED <<now, file, up, tasks, timer, box, dialog, done, deleted>>

CloseDialog ==
    /\ dialog /\ box = "none"
    /\ dialog' = FALSE
    /\ edited' = <<>>
    /\ UNCHANGED <<now, file, up, tasks, timer, box, done, deleted, unread>>

(* AddTask saves the dialog's list and has the scheduler read it. *)
AddTask(t) ==
    /\ dialog /\ box = "none" /\ t \notin Range(edited)
    /\ \E r \in Save(Append(edited, t), file) :
          IF r.outcome = "died" THEN Down /\ file' = r.file
          ELSE /\ UpdateTasks(r.file)
               /\ edited' = IF up' THEN r.list ELSE <<>>
    /\ deleted' = deleted \ {t}
    /\ unread' = unread \ {t}
    /\ UNCHANGED <<now, done>>

(* DeleteTask saves it, too, but does not tell the scheduler.  The index   *)
(* is that of the combo box, whose order the sorting does not change: it   *)
(* may be any task of the list, or beyond its end (here 0).                *)
DeleteTask(i) ==
    /\ dialog /\ box = "none" /\ i \in 0 .. Len(edited)
    /\ \E r \in Save(IF i = 0 THEN edited ELSE RemoveAt(edited, i), file) :
          /\ file' = r.file
          /\ IF r.outcome = "died" THEN Down
             ELSE edited' = r.list /\ UNCHANGED <<up, tasks, timer, box, dialog>>
    /\ deleted' = deleted \cup (IF i = 0 THEN {} ELSE {edited[i]})
    /\ UNCHANGED <<now, done, unread>>
-----------------------------------------------------------------------------
Tick ==
    /\ now < MaxTime
    /\ now' = now + 1
    /\ UNCHANGED
          <<file, up, tasks, timer, box, dialog, edited, done, deleted, unread>>

Crash ==
    /\ up
    /\ Down
    /\ UNCHANGED <<now, file, done, deleted, unread>>

Init ==
    /\ now = 0
    /\ file = <<>>
    /\ up = FALSE
    /\ tasks = <<>>
    /\ timer = Off
    /\ box = "none"
    /\ dialog = FALSE
    /\ edited = <<>>
    /\ done = [t \in Tasks |-> "no"]
    /\ deleted = {}
    /\ unread = {}

Next ==
    \/ Startup
    \/ BoxClosed
    \/ TimerEvent
    \/ TimerEventOnNothing
    \/ OpenDialog
    \/ LanguageChange
    \/ CloseDialog
    \/ \E t \in Tasks : AddTask(t)
    \/ \E i \in 0 .. Cardinality(Tasks) : DeleteTask(i)
    \/ Tick
    \/ Crash

Spec == Init /\ [][Next]_vars
-----------------------------------------------------------------------------
(* The queues are lists of distinct tasks, and the program's state is gone *)
(* when it does not run.                                                   *)
TypeOK ==
    /\ now \in 0 .. MaxTime
    /\ \A q \in {file, tasks, edited} : q \in Seq(Tasks) /\ IsInjective(q)
    /\ timer \in Nat \cup {Off}
    /\ up \in BOOLEAN /\ dialog \in BOOLEAN
    /\ box \in {"none", "start", "update"}
    /\ ~up => tasks = <<>> /\ timer = Off /\ box = "none" /\ ~dialog
    /\ ~dialog => edited = <<>>
    /\ done \in [Tasks -> {"no", "timely", "late", "again"}]
    /\ deleted \subseteq Tasks /\ unread \subseteq Tasks

(* timerEvent may take first() of the queue: while a timer runs it is not  *)
(* empty, whatever the dialog and failed saves did to the file, except in  *)
(* the event loop of a warning inside UpdateTasks.                         *)
TimerMeansTask == timer # Off /\ box = "none" => tasks # <<>>

(* checkTasks erases while it iterates, which is right only because what   *)
(* it reads is in the order of time: run at any moment it would drop the   *)
(* late tasks, only them, and stay inside the list.                        *)
SweepIsFilter ==
    \E n \in 0 .. Len(file) :
        /\ Sweep(file) = [list |-> SubSeq(file, n + 1, Len(file)), ok |-> TRUE]
        /\ \A i \in DOMAIN file : Late(file[i]) <=> i <= n

(* A task performed after its start time is never performed again, though  *)
(* crashes, failed saves and the dialog's old list bring it back.          *)
LateIsFinal == \A t \in Tasks : done[t] # "again"

(* The timer is due within the second the first task starts at (it may be  *)
(* far too early, but a task is late only by what the event waits).        *)
DueByStart == timer # Off /\ box = "none" => timer <= 2 * Start[tasks[1]] + 1

(* A task to come that the scheduler knows of, or that the start is to     *)
(* read, disappears from the file only when it is performed, by            *)
(* DeleteTask, in a crash, or because the start or the dialog could not    *)
(* read it: the lists of the dialog and of the scheduler, written over one *)
(* another, drop none.                                                     *)
FutureKept ==
    [][\A t \in (Range(file) \cap Range(IF up THEN tasks ELSE file))
                \ Range(file') :
          \/ Late(t)
          \/ done'[t] # "no"
          \/ ~up'
          \/ t \in deleted'
          \/ t \in unread']_vars
=============================================================================
