--------------------------- MODULE DailyReminder ---------------------------
(***************************************************************************)
(* The daily saved-post reminder: DailySavedPostReminderWorker and the     *)
(* delivery it runs, the scheduler that re-arms it, the settings screen    *)
(* that changes it from the main thread, the notification table, and the   *)
(* unique work WorkManager keeps for it.                                   *)
(*                                                                         *)
(* The worker and the main thread run concurrently and meet in the         *)
(* settings, the table (one transaction at a time) and WorkManager (one    *)
(* operation at a time).  The process may die between any two steps; the   *)
(* settings, the table and WorkManager's own database survive.             *)
(*                                                                         *)
(* Time is a local date and a slot of that date.  Slots are hours apart:   *)
(* a step of the code takes no slot, a delay takes at least one.           *)
(***************************************************************************)
EXTENDS Integers

CONSTANTS
    Posts,          \* posts that may be in SavedPost
    None,           \* no row, no post
    MaxDay,         \* the last local date of the model
    Slots,          \* slots per date
    MaxChanges,     \* bound on the user's changes of the settings
    MaxFaults       \* bound on crashes, stops and failing calls

ASSUME ConstantsAssumption ==
    /\ None \notin Posts
    /\ MaxDay \in Nat
    /\ Slots \in Nat \ {0}
    /\ MaxChanges \in Nat
    /\ MaxFaults \in Nat

VARIABLES
    day, slot,      \* the wall clock, in the device's time zone
    enabled, time,  \* the settings
    available,      \* notifications are permitted and the channel is on
    row,            \* DailySavedPostNotification: post selected for a date
    delivered,      \*   and whether deliveredAtEpochMillis is set
    work, due,      \* WorkManager's unique work and its earliest run
    pc,             \* the worker's next step
    workDay,        \* localDate captured by the worker
    sel,            \* the selection the worker read
    workOp,         \* the scheduling call the worker is about to make
    ui,             \* the main thread: idle, or inside scheduleNext
    uiOp,           \* the scheduling call the main thread is about to make
    deleting,       \* suspended setReminderTime coroutines: those that wait
                    \*   to delete the row of a date
    resuming,       \*   and those that have done so
    up,             \* the process is alive
    shown,          \* history: posts notified per date
    reopened,       \* history: dates whose row a time change deleted
    overlapped,     \* history: isEnabled changed between the worker's read
                    \*   of it and its WorkManager call
    changes, faults \* counters for the bounds

clock == <<day, slot>>
settings == <<enabled, time>>
table == <<row, delivered>>
manager == <<work, due>>
worker == <<pc, workDay, sel, workOp>>
retiming == <<deleting, resuming>>
screen == <<ui, uiOp, retiming>>
history == <<shown, reopened>>
bounds == <<changes, faults>>

vars == <<clock, settings, available, table, manager, worker, screen, up,
          history, overlapped, bounds>>

Days == 0 .. MaxDay
SlotSet == 0 .. Slots - 1
Moments == [day : Nat, slot : SlotSet]
Ops == [kind : {"enqueue", "cancel"}, due : Moments]
Cancel == [kind |-> "cancel", due |-> [day |-> 0, slot |-> 0]]
Now == [day |-> day, slot |-> slot]

NoneDeleting == [d \in Days |-> 0]

IsDue ==
    \/ due.day < day
    \/ due.day = day /\ due.slot <= slot

Init ==
    /\ day = 0 /\ slot = 0
    /\ enabled = FALSE
    /\ time \in SlotSet
    /\ available \in BOOLEAN
    /\ row = [d \in Days |-> None]
    /\ delivered = [d \in Days |-> FALSE]
    /\ work = "none" /\ due = Now
    /\ pc = "idle" /\ workDay = 0 /\ sel = None /\ workOp = Cancel
    /\ ui = "idle" /\ uiOp = Cancel /\ deleting = NoneDeleting /\ resuming = 0
    /\ up = TRUE
    /\ shown = [d \in Days |-> {}]
    /\ reopened = [d \in Days |-> FALSE]
    /\ overlapped = FALSE
    /\ changes = 0 /\ faults = 0

-----------------------------------------------------------------------------
(***************************************************************************)
(* The scheduler.  scheduleNext reads the settings, then makes one         *)
(* WorkManager call: the two are separate steps of the calling thread.     *)
(***************************************************************************)

(* dailySavedPostReminderInitialDelay in a zone whose offset is constant.  *)
NextReminder(t) ==
    IF slot < t THEN [day |-> day, slot |-> t] ELSE [day |-> day + 1, slot |-> t]

(* Mutant: the next reminder is scheduled whatever isEnabled says.         *)
ScheduleCallAlways == [kind |-> "enqueue", due |-> NextReminder(time)]

ScheduleCall ==
    IF enabled THEN [kind |-> "enqueue", due |-> NextReminder(time)]
               ELSE Cancel

(* enqueueUniqueWork(REPLACE) or cancelUniqueWork, for the main thread and *)
(* for the worker.  Either cancels a run in progress.                      *)
Issue(op) ==
    /\ work' = IF op.kind = "enqueue" THEN "enqueued" ELSE "none"
    /\ due' = op.due

(* WorkManager hands back a run that failed, was stopped or died.          *)
Requeue ==
    /\ work' = "enqueued"
    /\ due' = Now

Fault ==
    /\ faults < MaxFaults
    /\ faults' = faults + 1
    /\ UNCHANGED changes

(* The run lost its place: REPLACE, cancel or a stop overtook it.  Its     *)
(* coroutine ends at its next suspension point.                            *)
Overtaken == pc # "idle" /\ work # "running"

-----------------------------------------------------------------------------
(* The end of a run, and of its local variables. *)
EndRun ==
    /\ pc' = "idle"
    /\ workDay' = 0 /\ sel' = None /\ workOp' = Cancel

(***************************************************************************)
(* The worker: DailySavedPostReminderWorker.doWork around                  *)
(* DailySavedPostReminderDelivery.deliver.                                 *)
(***************************************************************************)

(* The run starts, takes localDate and tests isEnabled and isAvailable.    *)
StartWork ==
    /\ up /\ pc = "idle" /\ work = "enqueued" /\ IsDue
    /\ work' = "running"
    /\ workDay' = day
    /\ sel' = None
    /\ pc' = IF enabled /\ available THEN "select" ELSE "reschedule"
    /\ overlapped' = FALSE
    /\ UNCHANGED <<clock, settings, available, table, due, workOp, screen, up,
                   history, bounds>>

(* createSelectionIfAbsent: INSERT OR IGNORE of a random saved post.       *)
CreateSelectionIfAbsent(d, p) ==
    row' = IF row[d] = None THEN [row EXCEPT ![d] = p] ELSE row

(* Mutant: deliveredAtEpochMillis is not looked at.                        *)
MustNotifyAlways(p, d) == p # None

(* deliver goes on with the selection, unless there is none or it was      *)
(* delivered already.                                                      *)
MustNotify(p, d) == p # None /\ ~delivered[d]

(* getOrCreateSelection, one transaction.  p = None: nothing is saved.     *)
Select(p) ==
    /\ pc = "select"
    /\ CreateSelectionIfAbsent(workDay, p)
    /\ sel' = row'[workDay]
    /\ pc' = IF MustNotify(sel', workDay) THEN "notify" ELSE "reschedule"
    /\ UNCHANGED <<clock, settings, available, delivered, manager, workDay,
                   workOp, screen, up, history, overlapped, bounds>>

(* notifier.notify: Delivered, or Unavailable.                             *)
Notify ==
    /\ pc = "notify"
    /\ IF available
       THEN /\ shown' = [shown EXCEPT ![workDay] = @ \cup {sel}]
            /\ pc' = "mark"
       ELSE /\ pc' = "reschedule"
            /\ UNCHANGED shown
    /\ UNCHANGED <<clock, settings, available, table, manager, workDay, sel,
                   workOp, screen, up, reopened, overlapped, bounds>>

(* Mutant: an upsert, which also marks a date whose row was deleted.       *)
MarkDeliveredUpsert ==
    /\ pc = "mark"
    /\ delivered' = [delivered EXCEPT ![workDay] = TRUE]
    /\ pc' = "reschedule"
    /\ UNCHANGED <<clock, settings, available, row, manager, workDay, sel,
                   workOp, screen, up, history, overlapped, bounds>>

(* markDelivered updates the date's row if there still is one.             *)
MarkDelivered ==
    /\ pc = "mark"
    /\ delivered' = IF row[workDay] = None THEN delivered
                    ELSE [delivered EXCEPT ![workDay] = TRUE]
    /\ pc' = "reschedule"
    /\ UNCHANGED <<clock, settings, available, row, manager, workDay, sel,
                   workOp, screen, up, history, overlapped, bounds>>

(* The transaction, notify or the update throws: the result is retry.      *)
FailStep ==
    /\ pc \in {"select", "notify", "mark"}
    /\ Fault
    /\ pc' = "retry"
    /\ UNCHANGED <<clock, settings, available, table, manager, workDay, sel,
                   workOp, screen, up, history, overlapped>>

(* Mutant: Result.failure() instead of Result.retry().                     *)
RetryAsFailure ==
    /\ pc = "retry"
    /\ EndRun
    /\ work' = IF work = "running" THEN "none" ELSE work
    /\ UNCHANGED <<clock, settings, available, table, due, screen, up,
                   history, overlapped, bounds>>

(* Result.retry(): WorkManager backs off and runs the same work again.     *)
Retry ==
    /\ pc = "retry"
    /\ EndRun
    /\ IF work = "running" THEN Requeue ELSE UNCHANGED manager
    /\ UNCHANGED <<clock, settings, available, table, screen, up, history,
                   overlapped, bounds>>

(* Result.success(): doWork calls scheduleNext, which reads the settings   *)
Reschedule ==
    /\ pc = "reschedule"
    /\ workOp' = ScheduleCall
    /\ pc' = "issue"
    /\ UNCHANGED <<clock, settings, available, table, manager, workDay, sel,
                   screen, up, history, overlapped, bounds>>

(* and replaces or cancels the work, this run included.                    *)
IssueFromWorker ==
    /\ pc = "issue"
    /\ Issue(workOp)
    /\ EndRun
    /\ UNCHANGED <<clock, settings, available, table, screen, up, history,
                   overlapped, bounds>>

(* A cancelled coroutine stops at a suspension point.                      *)
EndOvertaken ==
    /\ Overtaken
    /\ pc \in {"select", "notify", "mark", "reschedule"}
    /\ EndRun
    /\ UNCHANGED <<clock, settings, available, table, manager, screen, up,
                   history, overlapped, bounds>>

(* WorkManager stops the run (time limit, system): it will be run again.   *)
StopWork ==
    /\ pc # "idle" /\ work = "running"
    /\ Fault
    /\ Requeue
    /\ UNCHANGED <<clock, settings, available, table, worker, screen, up,
                   history, overlapped>>

-----------------------------------------------------------------------------
(***************************************************************************)
(* The main thread: the settings screen, and Application.onCreate.         *)
(***************************************************************************)
Change ==
    /\ changes < MaxChanges
    /\ changes' = changes + 1
    /\ UNCHANGED faults

(* setEnabled stores the flag and calls scheduleNext.                      *)
SetEnabled ==
    /\ up /\ ui = "idle"
    /\ Change
    /\ enabled' = ~enabled
    /\ ui' = "schedule"
    /\ overlapped' = (overlapped \/ pc = "issue")
    /\ UNCHANGED <<clock, time, available, table, manager, worker, uiOp,
                   retiming, up, history>>

(* setReminderTime stores the time, the same one too, and suspends in      *)
(* deleteDeliveryForDate; an earlier change may still be suspended there.  *)
SetReminderTime(t) ==
    /\ up /\ ui = "idle"
    /\ Change
    /\ time' = t
    /\ deleting' = [deleting EXCEPT ![day] = @ + 1]
    /\ UNCHANGED <<clock, enabled, available, table, manager, worker, ui,
                   uiOp, resuming, up, history, overlapped>>

DeleteDeliveryForDate(d) ==
    /\ deleting[d] > 0
    /\ row' = [row EXCEPT ![d] = None]
    /\ delivered' = [delivered EXCEPT ![d] = FALSE]
    /\ reopened' = [reopened EXCEPT ![d] = TRUE]
    /\ deleting' = [deleting EXCEPT ![d] = @ - 1]
    /\ resuming' = resuming + 1
    /\ UNCHANGED <<clock, settings, available, manager, worker, ui, uiOp,
                   up, shown, overlapped, bounds>>

(* A coroutine is back on the main thread and calls scheduleNext.          *)
ResumeRetime ==
    /\ resuming > 0 /\ ui = "idle"
    /\ resuming' = resuming - 1
    /\ ui' = "schedule"
    /\ UNCHANGED <<clock, settings, available, table, manager, worker, uiOp,
                   deleting, up, history, overlapped, bounds>>

NoRetime == deleting = NoneDeleting /\ resuming = 0

(* viewModelScope is cancelled with the coroutines suspended in it.        *)
AbandonRetime ==
    /\ ~NoRetime
    /\ deleting' = NoneDeleting /\ resuming' = 0
    /\ UNCHANGED <<clock, settings, available, table, manager, worker, ui,
                   uiOp, up, history, overlapped, bounds>>

ScheduleFromUi ==
    /\ ui = "schedule"
    /\ uiOp' = ScheduleCall
    /\ ui' = "issue"
    /\ UNCHANGED <<clock, settings, available, table, manager, worker,
                   retiming, up, history, overlapped, bounds>>

IssueFromUi ==
    /\ ui = "issue"
    /\ Issue(uiOp)
    /\ ui' = "idle" /\ uiOp' = Cancel
    /\ UNCHANGED <<clock, settings, available, table, worker,
                   retiming, up, history, overlapped, bounds>>

(* The process dies.  WorkManager finds an interrupted run again.          *)
Crash ==
    /\ up
    /\ Fault
    /\ up' = FALSE
    /\ EndRun
    /\ ui' = "idle" /\ uiOp' = Cancel
    /\ deleting' = NoneDeleting /\ resuming' = 0
    /\ IF work = "running" THEN Requeue ELSE UNCHANGED manager
    /\ UNCHANGED <<clock, settings, available, table, history, overlapped>>

(* Mutant: Application.onCreate does not reconcile.                        *)
BootWithoutReconcile ==
    /\ ~up
    /\ up' = TRUE
    /\ UNCHANGED <<clock, settings, available, table, manager, worker, screen,
                   history, overlapped, bounds>>

(* Application.onCreate reconciles: KEEP leaves unfinished work alone.     *)
Boot ==
    /\ ~up
    /\ up' = TRUE
    /\ IF enabled /\ work # "none" THEN UNCHANGED manager
                                   ELSE Issue(ScheduleCall)
    /\ UNCHANGED <<clock, settings, available, table, worker, screen,
                   history, overlapped, bounds>>

-----------------------------------------------------------------------------
(* The user grants or revokes the permission, or mutes the channel.        *)
ToggleAvailable ==
    /\ Change
    /\ available' = ~available
    /\ UNCHANGED <<clock, settings, table, manager, worker, screen, up,
                   history, overlapped>>

(* Hours pass.  A cancelled coroutine and a main-thread call do not last   *)
(* that long; a run in progress may.                                       *)
Tick ==
    /\ ~Overtaken /\ ui = "idle"
    /\ IF slot + 1 < Slots
       THEN slot' = slot + 1 /\ day' = day
       ELSE slot' = 0 /\ day < MaxDay /\ day' = day + 1
    /\ UNCHANGED <<settings, available, table, manager, worker, screen, up,
                   history, overlapped, bounds>>

Worker ==
    \/ StartWork
    \/ \E p \in Posts \cup {None} : Select(p)
    \/ Notify
    \/ MarkDelivered
    \/ Retry
    \/ Reschedule
    \/ IssueFromWorker
    \/ EndOvertaken

MainThread ==
    \/ \E d \in Days : DeleteDeliveryForDate(d)
    \/ ResumeRetime
    \/ ScheduleFromUi
    \/ IssueFromUi
    \/ Boot

Environment ==
    \/ FailStep
    \/ StopWork
    \/ SetEnabled
    \/ \E t \in SlotSet : SetReminderTime(t)
    \/ AbandonRetime
    \/ ToggleAvailable
    \/ Crash
    \/ Tick

Next == Worker \/ MainThread \/ Environment

Spec == Init /\ [][Next]_vars

(* WorkManager runs what is due, coroutines and main-thread calls finish,  *)
(* and a process with work to run is started.                              *)
FairSpec == Spec /\ WF_vars(Worker) /\ WF_vars(MainThread)

-----------------------------------------------------------------------------
TypeOK ==
    /\ day \in Days /\ slot \in SlotSet
    /\ enabled \in BOOLEAN /\ time \in SlotSet /\ available \in BOOLEAN
    /\ row \in [Days -> Posts \cup {None}]
    /\ delivered \in [Days -> BOOLEAN]
    /\ work \in {"none", "enqueued", "running"} /\ due \in Moments
    /\ pc \in {"idle", "select", "notify", "mark", "reschedule", "issue", "retry"}
    /\ workDay \in Days /\ sel \in Posts \cup {None}
    /\ workOp \in Ops /\ uiOp \in Ops
    /\ ui \in {"idle", "schedule", "issue"}
    /\ deleting \in [Days -> Nat] /\ resuming \in Nat
    /\ up \in BOOLEAN
    /\ shown \in [Days -> SUBSET Posts]
    /\ reopened \in [Days -> BOOLEAN]
    /\ overlapped \in BOOLEAN
    /\ changes \in 0 .. MaxChanges /\ faults \in 0 .. MaxFaults

(***************************************************************************)
(* The delivery, its retries, crashes and time changes included, keeps the *)
(* promise of ReminderContract: the table is its ledger.                   *)
(***************************************************************************)
Contract == INSTANCE ReminderContract WITH chosen <- row, recorded <- delivered

KeepsContract == Contract!Spec

(***************************************************************************)
(* Whatever is retried, restarted or rescheduled, a date's notifications   *)
(* are all of one post unless the user changed the time on that date: the  *)
(* selection is stored before it is shown and never replaced.              *)
(***************************************************************************)
OnePostPerDay == Contract!OnePostPerDay

(* A date is marked as delivered only after its own post was posted, even  *)
(* when the row is deleted under a worker that is about to mark it.        *)
RecordedWasShown == Contract!RecordedWasShown

(***************************************************************************)
(* No notification is posted for a date whose delivery is recorded         *)
(* (DailySavedPostReminderDelivery's check of deliveredAtEpochMillis).     *)
(***************************************************************************)
NoRepeatAfterRecord ==
    [][pc = "notify" /\ pc' = "mark" => ~delivered[workDay]]_vars

(***************************************************************************)
(* The chain of one-time works never breaks while reminders are enabled:   *)
(* neither failures, stops, crashes nor time changes leave a running       *)
(* process without a next run.  The one exception the code has is the      *)
(* worker's own cancel, decided while reminders were disabled and issued   *)
(* after the user enabled them again.                                      *)
(***************************************************************************)
ChainUnbroken ==
    up /\ ui = "idle" /\ enabled /\ work = "none" => overlapped

(***************************************************************************)
(* A selection whose delivery is under way, or was interrupted by a        *)
(* failing step, a stop or a crash, is shown and recorded on its date      *)
(* unless the date ends or the user changes something.                     *)
(***************************************************************************)
DeliveryPending(d) ==
    /\ row[d] # None /\ ~delivered[d] /\ day = d
    /\ enabled /\ available /\ ui = "idle" /\ NoRetime
    /\ \/ work = "running" /\ workDay = d /\ pc \in {"select", "notify", "mark", "retry"}
       \/ work = "enqueued" /\ IsDue /\ pc = "idle"

PendingIsDelivered ==
    \A d \in Days, c \in 0 .. MaxChanges :
        (DeliveryPending(d) /\ changes = c)
            ~> (delivered[d] \/ day > d \/ changes # c)

(***************************************************************************)
(* Work left behind after reminders were disabled (armed by a worker that  *)
(* had read the old setting) dies out at its next run.                     *)
(***************************************************************************)
DisabledDiesOut ==
    (~enabled /\ work = "enqueued" /\ IsDue) ~> (work = "none" \/ enabled)
=============================================================================
