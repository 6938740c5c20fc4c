------------------------ MODULE DailyReminderProofs ------------------------
(***************************************************************************)
(* Proofs about DailyReminder for any set of posts, any number of days and *)
(* slots and any number of changes and faults: types; the delivery         *)
(* implements ReminderContract, from which its promises follow; and the    *)
(* chain of scheduled works is unbroken.                                   *)
(***************************************************************************)
EXTENDS DailyReminder, TLAPS

-----------------------------------------------------------------------------
LEMMA ConstantFacts ==
    /\ None \notin Posts
    /\ 0 \in Days /\ 0 \in SlotSet
    /\ Cancel \in Ops
    /\ 0 \in 0 .. MaxChanges /\ 0 \in 0 .. MaxFaults
  BY ConstantsAssumption
  DEF ConstantsAssumption, Days, SlotSet, Cancel, Ops, Moments

(* A scheduling call, for the next reminder or to cancel, is well formed.  *)
LEMMA ScheduleCallType ==
    ASSUME TypeOK
    PROVE  ScheduleCall \in Ops /\ Now \in Moments
<1>1. day \in Nat
  BY ConstantsAssumption DEF ConstantsAssumption, TypeOK, Days
<1>2. NextReminder(time) \in Moments
  BY <1>1 DEF TypeOK, NextReminder, Moments
<1> QED
  BY <1>1, <1>2, ConstantFacts DEF TypeOK, ScheduleCall, Ops, Now, Moments

(* The counters stay within their bounds. *)
LEMMA CounterType ==
    ASSUME TypeOK
    PROVE  Fault \/ Change => changes' \in 0 .. MaxChanges /\ faults' \in 0 .. MaxFaults
  BY ConstantsAssumption DEF ConstantsAssumption, TypeOK, Fault, Change

(* What notify posts is a selection: TypeOK is inductive only with this.   *)
HasSelection == pc = "notify" => sel \in Posts

LEMMA TypeInit == Init => TypeOK /\ HasSelection
<1> SUFFICES ASSUME Init PROVE TypeOK /\ HasSelection
  OBVIOUS
<1>1. /\ day \in Days /\ slot \in SlotSet /\ time \in SlotSet
      /\ workDay \in Days
      /\ changes \in 0 .. MaxChanges /\ faults \in 0 .. MaxFaults
  BY ConstantFacts DEF Init
<1>2. enabled \in BOOLEAN /\ available \in BOOLEAN /\ up \in BOOLEAN /\ overlapped \in BOOLEAN
  BY Zenon DEF Init
<1>3. /\ row \in [Days -> Posts \cup {None}]
      /\ delivered \in [Days -> BOOLEAN]
      /\ shown \in [Days -> SUBSET Posts]
      /\ reopened \in [Days -> BOOLEAN]
  BY DEF Init
<1>4. work \in {"none", "enqueued", "running"} /\ due \in Moments
  BY ConstantFacts DEF Init, Now, Moments, Days
<1>5. /\ pc = "idle" /\ ui = "idle" /\ deleting \in [Days -> Nat] /\ resuming \in Nat
      /\ sel = None /\ workOp \in Ops /\ uiOp \in Ops
  BY ConstantFacts DEF Init, NoneDeleting
<1> QED BY <1>1, <1>2, <1>3, <1>4, <1>5 DEF TypeOK, HasSelection

LEMMA TypeStep ==
    ASSUME TypeOK, HasSelection, [Next]_vars
    PROVE  TypeOK'
<1> USE DEF TypeOK, clock, settings, table, manager, worker, screen, retiming, NoneDeleting, history,
           bounds
<1> USE ConstantFacts, ScheduleCallType, CounterType
<1>1. CASE StartWork
  <2>1. overlapped' \in BOOLEAN
    BY <1>1, Zenon DEF StartWork
  <2>2. pc' \in {"select", "reschedule"}
    BY <1>1 DEF StartWork
  <2> QED BY <1>1, <2>1, <2>2 DEF StartWork
<1>2. ASSUME NEW p \in Posts \cup {None}, Select(p) PROVE TypeOK'
  <2>1. row' \in [Days -> Posts \cup {None}]
    BY <1>2 DEF Select, CreateSelectionIfAbsent
  <2>2. pc' \in {"notify", "reschedule"}
    BY <1>2 DEF Select
  <2> QED BY <1>2, <2>1, <2>2 DEF Select
<1>3. CASE Notify
  <2>1. shown' \in [Days -> SUBSET Posts] /\ pc' \in {"mark", "reschedule"}
    BY <1>3 DEF Notify, HasSelection
  <2> QED BY <1>3, <2>1 DEF Notify
<1>4. CASE MarkDelivered
  <2>1. delivered' \in [Days -> BOOLEAN]
    BY <1>4 DEF MarkDelivered
  <2> QED BY <1>4, <2>1 DEF MarkDelivered
<1>5. CASE FailStep
  BY <1>5 DEF FailStep
<1>6. CASE Retry
  <2>1. work' \in {"none", "enqueued", "running"} /\ due' \in Moments
    BY <1>6 DEF Retry, Requeue
  <2> QED BY <1>6, <2>1 DEF Retry, EndRun
<1>7. CASE Reschedule
  BY <1>7 DEF Reschedule
<1>8. CASE IssueFromWorker
  <2>1. work' \in {"none", "enqueued", "running"} /\ due' \in Moments
    BY <1>8 DEF IssueFromWorker, Issue, Ops
  <2> QED BY <1>8, <2>1 DEF IssueFromWorker, EndRun
<1>9. CASE EndOvertaken
  BY <1>9 DEF EndOvertaken, EndRun
<1>10. CASE StopWork
  BY <1>10 DEF StopWork, Requeue
<1>11. CASE SetEnabled
  <2>1. enabled' \in BOOLEAN /\ overlapped' \in BOOLEAN
    BY <1>11, Zenon DEF SetEnabled
  <2> QED BY <1>11, <2>1 DEF SetEnabled
<1>12. ASSUME NEW t \in SlotSet, SetReminderTime(t) PROVE TypeOK'
  BY <1>12 DEF SetReminderTime
<1>13. ASSUME NEW d \in Days, DeleteDeliveryForDate(d) PROVE TypeOK'
  BY <1>13 DEF DeleteDeliveryForDate
<1>14. CASE ResumeRetime \/ AbandonRetime
  BY <1>14 DEF ResumeRetime, AbandonRetime
<1>15. CASE ScheduleFromUi
  BY <1>15 DEF ScheduleFromUi
<1>16. CASE IssueFromUi
  <2>1. work' \in {"none", "enqueued", "running"} /\ due' \in Moments
    BY <1>16 DEF IssueFromUi, Issue, Ops
  <2> QED BY <1>16, <2>1 DEF IssueFromUi
<1>17. CASE Crash
  <2>1. work' \in {"none", "enqueued", "running"} /\ due' \in Moments
    BY <1>17 DEF Crash, Requeue
  <2> QED BY <1>17, <2>1 DEF Crash, EndRun
<1>18. CASE Boot
  <2>1. work' \in {"none", "enqueued", "running"} /\ due' \in Moments
    BY <1>18 DEF Boot, Issue, Ops
  <2> QED BY <1>18, <2>1 DEF Boot
<1>19. CASE ToggleAvailable
  <2>1. available' \in BOOLEAN
    BY <1>19, Zenon DEF ToggleAvailable
  <2> QED BY <1>19, <2>1 DEF ToggleAvailable
<1>20. CASE Tick
  <2>1. day' \in Days /\ slot' \in SlotSet
    BY <1>20, ConstantsAssumption DEF ConstantsAssumption, Tick, Days, SlotSet
  <2> QED BY <1>20, <2>1 DEF Tick
<1>21. CASE UNCHANGED vars
  BY <1>21 DEF vars
<1> QED
  BY <1>1, <1>2, <1>3, <1>4, <1>5, <1>6, <1>7, <1>8, <1>9, <1>10, <1>11,
     <1>12, <1>13, <1>14, <1>15, <1>16, <1>17, <1>18, <1>19, <1>20, <1>21
  DEF Next, Worker, MainThread, Environment

LEMMA SelectionStep ==
    ASSUME TypeOK, HasSelection, [Next]_vars
    PROVE  HasSelection'
<1> USE DEF HasSelection, worker
<1>1. ASSUME NEW p \in Posts \cup {None}, Select(p) PROVE HasSelection'
  <2>1. row' \in [Days -> Posts \cup {None}]
    BY <1>1 DEF Select, CreateSelectionIfAbsent, TypeOK
  <2> QED BY <1>1, <2>1 DEF Select, MustNotify, TypeOK
<1>2. CASE StartWork \/ Notify \/ MarkDelivered \/ FailStep \/ Reschedule
  BY <1>2 DEF StartWork, Notify, MarkDelivered, FailStep, Reschedule
<1>3. CASE Retry \/ IssueFromWorker \/ EndOvertaken \/ Crash
  BY <1>3 DEF Retry, IssueFromWorker, EndOvertaken, Crash, EndRun
<1>4. CASE StopWork \/ SetEnabled \/ (\E t \in SlotSet : SetReminderTime(t))
  BY <1>4 DEF StopWork, SetEnabled, SetReminderTime
<1>5. CASE (\E d \in Days : DeleteDeliveryForDate(d)) \/ ResumeRetime \/ AbandonRetime \/ ScheduleFromUi
  BY <1>5 DEF DeleteDeliveryForDate, ResumeRetime, AbandonRetime, ScheduleFromUi
<1>6. CASE IssueFromUi \/ Boot \/ ToggleAvailable \/ Tick \/ UNCHANGED vars
  BY <1>6 DEF IssueFromUi, Boot, ToggleAvailable, Tick, vars
<1> QED
  BY <1>1, <1>2, <1>3, <1>4, <1>5, <1>6 DEF Next, Worker, MainThread, Environment

(* Every variable keeps its type: the due moments, the scheduling calls    *)
(* in hand and the counters stay within their bounds.                      *)
THEOREM TypeCorrect == Spec => []TypeOK
<1>1. TypeOK /\ HasSelection /\ [Next]_vars => TypeOK' /\ HasSelection'
  BY TypeStep, SelectionStep
<1> QED BY TypeInit, <1>1, PTL DEF Spec

-----------------------------------------------------------------------------
(***************************************************************************)
(* The chain.  ChainUnbroken rests on what a scheduling call in hand says  *)
(* about isEnabled: always the truth on the main thread, and the truth in  *)
(* the worker unless the user changed the flag meanwhile.                  *)
(***************************************************************************)
UiCallCurrent == ui = "issue" => (uiOp.kind = "enqueue" <=> enabled)

WorkerCallCurrent ==
    pc = "issue" => overlapped \/ (workOp.kind = "enqueue" <=> enabled)

Chain == ChainUnbroken /\ UiCallCurrent /\ WorkerCallCurrent

LEMMA ScheduleCallCurrent == ScheduleCall.kind = "enqueue" <=> enabled
  BY DEF ScheduleCall, Cancel

LEMMA ChainStep ==
    ASSUME Chain, [Next]_vars
    PROVE  Chain'
<1> USE DEF Chain, ChainUnbroken, UiCallCurrent, WorkerCallCurrent,
            settings, manager, worker, screen, retiming
<1>1. CASE StartWork
  BY <1>1 DEF StartWork
<1>2. CASE (\E p \in Posts \cup {None} : Select(p)) \/ Notify \/ MarkDelivered \/ FailStep
  BY <1>2 DEF Select, Notify, MarkDelivered, FailStep
<1>3. CASE Retry
  BY <1>3 DEF Retry, Requeue, EndRun
<1>4. CASE Reschedule
  BY <1>4, ScheduleCallCurrent DEF Reschedule
<1>5. CASE IssueFromWorker
  BY <1>5 DEF IssueFromWorker, Issue, EndRun
<1>6. CASE EndOvertaken \/ StopWork
  BY <1>6 DEF EndOvertaken, StopWork, Requeue, EndRun
<1>7. CASE SetEnabled
  BY <1>7 DEF SetEnabled
<1>8. CASE (\E t \in SlotSet : SetReminderTime(t)) \/ (\E d \in Days : DeleteDeliveryForDate(d))
  BY <1>8 DEF SetReminderTime, DeleteDeliveryForDate
<1>9. CASE ResumeRetime \/ AbandonRetime
  BY <1>9 DEF ResumeRetime, AbandonRetime
<1>10. CASE ScheduleFromUi
  BY <1>10, ScheduleCallCurrent DEF ScheduleFromUi
<1>11. CASE IssueFromUi
  BY <1>11 DEF IssueFromUi, Issue
<1>12. CASE Crash
  BY <1>12 DEF Crash, EndRun
<1>13. CASE Boot
  BY <1>13, ScheduleCallCurrent DEF Boot, Issue
<1>14. CASE ToggleAvailable \/ Tick \/ UNCHANGED vars
  BY <1>14 DEF ToggleAvailable, Tick, vars
<1> QED
  BY <1>1, <1>2, <1>3, <1>4, <1>5, <1>6, <1>7, <1>8, <1>9, <1>10, <1>11,
     <1>12, <1>13, <1>14 DEF Next, Worker, MainThread, Environment

(* No failure, stop, crash or time change leaves a running process without *)
(* a next run while reminders are enabled, but for the worker's own cancel *)
(* that a change of the setting overtook.                                  *)
THEOREM ChainHolds == Spec => []ChainUnbroken
<1>1. Init => Chain
  BY DEF Init, Chain, ChainUnbroken, UiCallCurrent, WorkerCallCurrent
<1>2. Chain /\ [Next]_vars => Chain'
  BY ChainStep
<1>3. Chain => ChainUnbroken
  BY DEF Chain
<1> QED BY <1>1, <1>2, <1>3, PTL DEF Spec

-----------------------------------------------------------------------------
(***************************************************************************)
(* The refinement.  What the worker has in hand is the date's ledger entry *)
(* unless a time change removed it: a row is never replaced.               *)
(***************************************************************************)
SelectionIsLedger ==
    pc \in {"notify", "mark"} =>
        \/ row[workDay] = sel
        \/ reopened[workDay] /\ row[workDay] = None

NotYetRecorded == pc = "notify" => ~delivered[workDay]

ShownBeforeMark == pc = "mark" => sel \in shown[workDay]

Ledger == SelectionIsLedger /\ NotYetRecorded /\ ShownBeforeMark

LEMMA LedgerStep ==
    ASSUME TypeOK, HasSelection, Ledger, [Next]_vars
    PROVE  Ledger'
<1> USE DEF Ledger, SelectionIsLedger, NotYetRecorded, ShownBeforeMark,
            table, worker, history
<1>0. /\ row \in [Days -> Posts \cup {None}]
      /\ delivered \in [Days -> BOOLEAN]
      /\ shown \in [Days -> SUBSET Posts]
      /\ reopened \in [Days -> BOOLEAN]
      /\ workDay \in Days
  BY DEF TypeOK
<1>1. CASE StartWork
  BY <1>1 DEF StartWork
<1>2. ASSUME NEW p \in Posts \cup {None}, Select(p) PROVE Ledger'
  BY <1>0, <1>2 DEF Select, CreateSelectionIfAbsent, MustNotify
<1>3. CASE Notify
  BY <1>0, <1>3 DEF Notify
<1>4. CASE MarkDelivered \/ FailStep \/ Reschedule
  BY <1>4 DEF MarkDelivered, FailStep, Reschedule
<1>5. CASE Retry \/ IssueFromWorker \/ EndOvertaken \/ Crash
  BY <1>5 DEF Retry, IssueFromWorker, EndOvertaken, Crash, EndRun
<1>6. ASSUME NEW d \in Days, DeleteDeliveryForDate(d) PROVE Ledger'
  BY <1>0, <1>6 DEF DeleteDeliveryForDate
<1>7. CASE StopWork \/ SetEnabled \/ (\E t \in SlotSet : SetReminderTime(t))
  BY <1>7 DEF StopWork, SetEnabled, SetReminderTime
<1>8. CASE ResumeRetime \/ AbandonRetime \/ ScheduleFromUi \/ IssueFromUi
  BY <1>8 DEF ResumeRetime, AbandonRetime, ScheduleFromUi, IssueFromUi
<1>9. CASE Boot \/ ToggleAvailable \/ Tick \/ UNCHANGED vars
  BY <1>9 DEF Boot, ToggleAvailable, Tick, vars
<1> QED
  BY <1>1, <1>2, <1>3, <1>4, <1>5, <1>6, <1>7, <1>8, <1>9
  DEF Next, Worker, MainThread, Environment

(* Each step of the system is a step of the ledger, or leaves it alone. *)
LEMMA StepSimulation ==
    ASSUME TypeOK, HasSelection, Ledger, [Next]_vars
    PROVE  [Contract!Next]_(Contract!vars)
<1> USE DEF table, worker, history
<1>0. /\ row \in [Days -> Posts \cup {None}]
      /\ workDay \in Days
      /\ sel \in Posts \cup {None}
  BY DEF TypeOK
<1>1. ASSUME NEW p \in Posts \cup {None}, Select(p)
      PROVE  [Contract!Next]_(Contract!vars)
  <2>1. CASE row[workDay] = None /\ p # None
    <3>1. Contract!Choose(workDay, p) /\ p \in Posts
      BY <1>1, <2>1 DEF Select, CreateSelectionIfAbsent, Contract!Choose
    <3> QED BY <1>0, <3>1 DEF Contract!Next
  <2>2. CASE row[workDay] # None \/ p = None
    <3>1. row' = row
      BY <1>0, <1>1, <2>2 DEF Select, CreateSelectionIfAbsent
    <3> QED BY <1>1, <3>1 DEF Select, Contract!vars
  <2> QED BY <2>1, <2>2
<1>2. CASE Notify
  <2>1. CASE available
    <3>1. Contract!Show(workDay, sel) /\ sel \in Posts
      BY <1>2, <2>1 DEF Notify, HasSelection, Ledger, SelectionIsLedger,
                        NotYetRecorded, Contract!Show
    <3> QED BY <1>0, <3>1 DEF Contract!Next
  <2>2. CASE ~available
    BY <1>2, <2>2 DEF Notify, Contract!vars
  <2> QED BY <2>1, <2>2
<1>3. CASE MarkDelivered
  <2>1. CASE row[workDay] = None
    BY <1>3, <2>1 DEF MarkDelivered, Contract!vars
  <2>2. CASE row[workDay] # None
    <3>1. Contract!Record(workDay)
      BY <1>3, <2>2 DEF MarkDelivered, Ledger, SelectionIsLedger,
                        ShownBeforeMark, Contract!Record
    <3> QED BY <1>0, <3>1 DEF Contract!Next
  <2> QED BY <2>1, <2>2
<1>4. ASSUME NEW d \in Days, DeleteDeliveryForDate(d)
      PROVE  [Contract!Next]_(Contract!vars)
  <2>1. Contract!Reopen(d)
    BY <1>4 DEF DeleteDeliveryForDate, Contract!Reopen
  <2> QED BY <1>0, <2>1 DEF Contract!Next
<1>5. CASE StartWork \/ FailStep \/ Retry \/ Reschedule \/ IssueFromWorker
  BY <1>5 DEF StartWork, FailStep, Retry, Reschedule, IssueFromWorker, Contract!vars
<1>6. CASE EndOvertaken \/ StopWork \/ SetEnabled \/ (\E t \in SlotSet : SetReminderTime(t))
  BY <1>6 DEF EndOvertaken, StopWork, SetEnabled, SetReminderTime, Contract!vars
<1>7. CASE ResumeRetime \/ AbandonRetime \/ ScheduleFromUi \/ IssueFromUi
  BY <1>7 DEF ResumeRetime, AbandonRetime, ScheduleFromUi, IssueFromUi, Contract!vars
<1>8. CASE Crash \/ Boot \/ ToggleAvailable \/ Tick \/ UNCHANGED vars
  BY <1>8 DEF Crash, Boot, ToggleAvailable, Tick, vars, Contract!vars
<1> QED
  BY <1>1, <1>2, <1>3, <1>4, <1>5, <1>6, <1>7, <1>8
  DEF Next, Worker, MainThread, Environment

LEMMA LedgerInvariant == Spec => [](TypeOK /\ HasSelection /\ Ledger)
<1>1. Init => Ledger
  BY DEF Init, Ledger, SelectionIsLedger, NotYetRecorded, ShownBeforeMark
<1>2. TypeOK /\ HasSelection /\ Ledger /\ [Next]_vars
          => TypeOK' /\ HasSelection' /\ Ledger'
  BY TypeStep, SelectionStep, LedgerStep
<1> QED BY TypeInit, <1>1, <1>2, PTL DEF Spec

(* Retries, stops, crashes and time changes included, the delivery         *)
(* implements ReminderContract with the notification table as its ledger.  *)
THEOREM DeliveryKeepsContract == Spec => KeepsContract
<1>1. Init => Contract!Init
  BY DEF Init, Contract!Init
<1>2. TypeOK /\ HasSelection /\ Ledger /\ [Next]_vars => [Contract!Next]_(Contract!vars)
  BY StepSimulation
<1> QED BY <1>1, <1>2, LedgerInvariant, PTL DEF Spec, KeepsContract, Contract!Spec

(* Nothing is posted for a date whose delivery is recorded: the worker's   *)
(* early check stays true until it posts, although it is never repeated.   *)
THEOREM NoRepeat == Spec => NoRepeatAfterRecord
<1>1. Ledger /\ [Next]_vars => [pc = "notify" /\ pc' = "mark" => ~delivered[workDay]]_vars
  BY DEF Ledger, NotYetRecorded
<1> QED BY <1>1, LedgerInvariant, PTL DEF Spec, NoRepeatAfterRecord

-----------------------------------------------------------------------------
(***************************************************************************)
(* The promises follow from the contract's own steps: what was shown on a  *)
(* date that was not reopened is the chosen post.                          *)
(***************************************************************************)
ShownIsChosen ==
    \A d \in Days : ~reopened[d] => shown[d] \subseteq {row[d]} \cap Posts

ContractInvariant == Contract!TypeOK /\ ShownIsChosen /\ RecordedWasShown

LEMMA ContractStep ==
    ASSUME ContractInvariant, [Contract!Next]_(Contract!vars)
    PROVE  ContractInvariant'
<1> USE ConstantFacts
    DEF ContractInvariant, ShownIsChosen, RecordedWasShown,
        Contract!RecordedWasShown, Contract!TypeOK
<1>1. ASSUME NEW d \in Days, NEW p \in Posts, Contract!Choose(d, p)
      PROVE  ContractInvariant'
  BY <1>1 DEF Contract!Choose
<1>2. ASSUME NEW d \in Days, NEW p \in Posts, Contract!Show(d, p)
      PROVE  ContractInvariant'
  BY <1>2 DEF Contract!Show
<1>3. ASSUME NEW d \in Days, Contract!Record(d) PROVE ContractInvariant'
  BY <1>3 DEF Contract!Record
<1>4. ASSUME NEW d \in Days, Contract!Reopen(d) PROVE ContractInvariant'
  BY <1>4 DEF Contract!Reopen
<1>5. CASE UNCHANGED Contract!vars
  BY <1>5 DEF Contract!vars
<1> QED BY <1>1, <1>2, <1>3, <1>4, <1>5 DEF Contract!Next

LEMMA ContractInvariance == KeepsContract => []ContractInvariant
<1>1. Contract!Init => ContractInvariant
  BY DEF Contract!Init, ContractInvariant, ShownIsChosen, RecordedWasShown,
         Contract!RecordedWasShown, Contract!TypeOK
<1>2. ContractInvariant /\ [Contract!Next]_(Contract!vars) => ContractInvariant'
  BY ContractStep
<1> QED BY <1>1, <1>2, PTL DEF KeepsContract, Contract!Spec

(* All notifications of a date are of one post unless the user reopened it *)
THEOREM OnePost == Spec => []OnePostPerDay
<1>1. ContractInvariant => OnePostPerDay
  BY DEF ContractInvariant, ShownIsChosen, OnePostPerDay, Contract!OnePostPerDay
<1> QED BY <1>1, DeliveryKeepsContract, ContractInvariance, PTL

(* A date is recorded as delivered only if its own post was posted.        *)
THEOREM RecordedAfterShown == Spec => []RecordedWasShown
<1>1. ContractInvariant => RecordedWasShown
  BY DEF ContractInvariant
<1> QED BY <1>1, DeliveryKeepsContract, ContractInvariance, PTL
=============================================================================
