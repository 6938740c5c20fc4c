--------------------------- MODULE AppStateProofs ---------------------------
(***************************************************************************)
(* Proofs about two pieces of state that the app keeps in memory: which    *)
(* posts are read (ReadPosts) and whether an update flow is under way      *)
(* (InAppUpdates, as Updates).                                             *)
(***************************************************************************)
EXTENDS ReadPosts, Sequences, TLAPS

VARIABLES
    latestCheckId, hasRequestedUpdate, isFlowInFlight, checks, startUpdateEvents, cleared,
    active, received, flow, restartPrompt, snackbar, lost

Updates == INSTANCE InAppUpdates

-----------------------------------------------------------------------------
(***************************************************************************)
(* ReadPosts, for any posts, jobs and process deaths.  The mutex makes the *)
(* holder's local knowledge true of the shared state: what it has queried  *)
(* is still the table when it sets the cache.                              *)
(***************************************************************************)

(* A job past the mutex holds it. *)
HolderOnly ==
    \A j \in Jobs : pc[j] \notin {"idle", "lock"} => holder = j

(* A load is under way only while there is nothing loaded, and it is fresh *)
LoadFresh ==
    /\ \A j \in Jobs :
          /\ pc[j] \in {"query", "set"} => ~initialized
          /\ pc[j] = "set" => loaded[j] = table
    /\ ~initialized => readPosts = {}

(* A mark is made after the load; its update follows its insert.           *)
MarkLoaded ==
    \A j \in Jobs :
        /\ pc[j] \in {"insert", "update"} => initialized /\ post[j] \in Posts
        /\ pc[j] = "update" => post[j] \in table

Coherent == HolderOnly /\ LoadFresh /\ MarkLoaded /\ CacheIsTable

LEMMA InitCoherent == Init => TypeOK /\ Coherent
<1>1. 0 \in 0 .. MaxDeaths
  BY ConstantsAssumption DEF ConstantsAssumption
<1>2. Init => TypeOK
  BY <1>1 DEF Init, TypeOK
<1>3. Init => Coherent
  BY DEF Init, Coherent, HolderOnly, LoadFresh, MarkLoaded, CacheIsTable
<1> QED BY <1>2, <1>3

LEMMA TypeStep ==
    ASSUME TypeOK, Coherent, [Next]_vars
    PROVE  TypeOK'
<1> USE DEF TypeOK, Goto, AfterInit, Release
<1>1. ASSUME NEW j \in Jobs, NEW p \in Posts \cup {None}, Call(j, p) PROVE TypeOK'
  BY <1>1 DEF Call
<1>2. ASSUME NEW j \in Jobs, Lock(j) PROVE TypeOK'
  BY <1>2 DEF Lock
<1>3. ASSUME NEW j \in Jobs, CheckInitialized(j) PROVE TypeOK'
  BY <1>3 DEF CheckInitialized
<1>4. ASSUME NEW j \in Jobs, Query(j) PROVE TypeOK'
  BY <1>4 DEF Query
<1>5. ASSUME NEW j \in Jobs, SetLoaded(j) PROVE TypeOK'
  BY <1>5 DEF SetLoaded
<1>6. ASSUME NEW j \in Jobs, Insert(j) PROVE TypeOK'
  <2>1. post[j] \in Posts
    BY <1>6 DEF Insert, Coherent, MarkLoaded
  <2> QED BY <1>6, <2>1 DEF Insert
<1>7. ASSUME NEW j \in Jobs, Update(j) PROVE TypeOK'
  <2>1. post[j] \in Posts
    BY <1>7 DEF Update, Coherent, MarkLoaded
  <2> QED BY <1>7, <2>1 DEF Update
<1>8. ASSUME NEW j \in Jobs, Unlock(j) \/ Cancel(j) PROVE TypeOK'
  BY <1>8 DEF Unlock, Cancel
<1>9. CASE Die
  <2>1. deaths' \in 0 .. MaxDeaths
    BY <1>9, ConstantsAssumption DEF Die, ConstantsAssumption
  <2> QED BY <1>9, <2>1 DEF Die
<1>10. CASE UNCHANGED vars
  BY <1>10 DEF vars
<1> QED
  BY <1>1, <1>2, <1>3, <1>4, <1>5, <1>6, <1>7, <1>8, <1>9, <1>10 DEF Next, Run

LEMMA CoherentStep ==
    ASSUME TypeOK, Coherent, [Next]_vars
    PROVE  Coherent'
<1> USE ConstantsAssumption
    DEF Coherent, HolderOnly, LoadFresh, MarkLoaded, CacheIsTable, Goto,
        AfterInit, Release, ConstantsAssumption
<1>0. /\ pc \in [Jobs -> {"idle", "lock", "check", "query", "set", "insert",
                          "update", "unlock"}]
      /\ post \in [Jobs -> Posts \cup {None}]
      /\ loaded \in [Jobs -> SUBSET Posts]
      /\ holder \in Jobs \cup {None}
  BY DEF TypeOK
<1> USE <1>0
<1>1. ASSUME NEW j \in Jobs, NEW p \in Posts \cup {None}, Call(j, p) PROVE Coherent'
  BY <1>1 DEF Call
<1>2. ASSUME NEW j \in Jobs, Lock(j) PROVE Coherent'
  BY <1>2 DEF Lock, MutexFree
<1>3. ASSUME NEW j \in Jobs, CheckInitialized(j) PROVE Coherent'
  BY <1>3 DEF CheckInitialized
<1>4. ASSUME NEW j \in Jobs, Query(j) PROVE Coherent'
  BY <1>4 DEF Query
<1>5. ASSUME NEW j \in Jobs, SetLoaded(j) PROVE Coherent'
  BY <1>5 DEF SetLoaded
<1>6. ASSUME NEW j \in Jobs, Insert(j) PROVE Coherent'
  BY <1>6 DEF Insert
<1>7. ASSUME NEW j \in Jobs, Update(j) PROVE Coherent'
  BY <1>7 DEF Update
<1>8. ASSUME NEW j \in Jobs, Unlock(j) PROVE Coherent'
  BY <1>8 DEF Unlock
<1>9. ASSUME NEW j \in Jobs, Cancel(j) PROVE Coherent'
  BY <1>9 DEF Cancel, Cancellable
<1>10. CASE Die
  BY <1>10 DEF Die
<1>11. CASE UNCHANGED vars
  BY <1>11 DEF vars
<1> QED
  BY <1>1, <1>2, <1>3, <1>4, <1>5, <1>6, <1>7, <1>8, <1>9, <1>10, <1>11
  DEF Next, Run

LEMMA Coherence == Spec => [](TypeOK /\ Coherent)
<1>1. TypeOK /\ Coherent /\ [Next]_vars => TypeOK' /\ Coherent'
  BY TypeStep, CoherentStep
<1> QED BY InitCoherent, <1>1, PTL DEF Spec

(* Every variable keeps its type; only real posts reach the table.         *)
THEOREM TypeCorrect == Spec => []TypeOK
  BY Coherence, PTL

(* Once loaded, the cache is the table but for the row being marked.       *)
THEOREM CacheCorrect == Spec => []CacheIsTable
<1>1. Coherent => CacheIsTable
  BY DEF Coherent
<1> QED BY Coherence, <1>1, PTL

(* What is shown as read stays so for the life of the process.             *)
THEOREM NothingUnread == Spec => ReadStaysRead
<1>1. TypeOK /\ Coherent /\ [Next]_vars
          => [deaths' = deaths => readPosts \subseteq readPosts']_vars
  <2> SUFFICES ASSUME TypeOK, Coherent, Next, deaths' = deaths
               PROVE  readPosts \subseteq readPosts'
    OBVIOUS
  <2>1. ASSUME NEW j \in Jobs, SetLoaded(j) PROVE readPosts \subseteq readPosts'
    BY <2>1 DEF SetLoaded, Coherent, LoadFresh
  <2>2. CASE Die
    <3>1. deaths \in 0 .. MaxDeaths
      BY DEF TypeOK
    <3>2. deaths' = deaths + 1
      BY <2>2 DEF Die
    <3> QED BY <3>1, <3>2, ConstantsAssumption DEF ConstantsAssumption
  <2>3. ASSUME NEW j \in Jobs, Update(j) PROVE readPosts \subseteq readPosts'
    BY <2>3 DEF Update
  <2>4. ASSUME NEW j \in Jobs, NEW p \in Posts \cup {None}, Call(j, p)
        PROVE  readPosts \subseteq readPosts'
    BY <2>4 DEF Call
  <2>5. ASSUME NEW j \in Jobs,
               \/ Lock(j) \/ CheckInitialized(j) \/ Query(j)
               \/ Insert(j) \/ Unlock(j) \/ Cancel(j)
        PROVE  readPosts \subseteq readPosts'
    BY <2>5 DEF Lock, CheckInitialized, Query, Insert, Unlock, Cancel
  <2> QED BY <2>1, <2>2, <2>3, <2>4, <2>5 DEF Next, Run
<1> QED BY Coherence, <1>1, PTL DEF Spec, ReadStaysRead
-----------------------------------------------------------------------------
LEMMA HeldStep ==
    ASSUME TypeOK, HeldWhileRunning, [Next]_vars
    PROVE  HeldWhileRunning'
<1> USE DEF HeldWhileRunning, Goto, Release
<1>0. /\ pc \in [Jobs -> {"idle", "lock", "check", "query", "set", "insert",
                          "update", "unlock"}]
      /\ holder \in Jobs \cup {None} /\ None \notin Jobs
  BY ConstantsAssumption DEF TypeOK, ConstantsAssumption
<1>1. ASSUME NEW j \in Jobs, NEW p \in Posts \cup {None}, Call(j, p) PROVE HeldWhileRunning'
  BY <1>0, <1>1 DEF Call
<1>2. ASSUME NEW j \in Jobs, Lock(j) PROVE HeldWhileRunning'
  (* The mutex was free: every job was outside it. *)
  BY <1>0, <1>2 DEF Lock, MutexFree
<1>3. ASSUME NEW j \in Jobs,
             CheckInitialized(j) \/ Query(j) \/ SetLoaded(j) \/ Insert(j) \/ Update(j)
      PROVE  HeldWhileRunning'
  BY <1>0, <1>3 DEF CheckInitialized, Query, SetLoaded, Insert, Update, AfterInit
<1>4. ASSUME NEW j \in Jobs, Unlock(j) \/ Cancel(j) PROVE HeldWhileRunning'
  BY <1>0, <1>4 DEF Unlock, Cancel
<1>5. CASE Die \/ UNCHANGED vars
  BY <1>0, <1>5 DEF Die, vars
<1> QED
  BY <1>1, <1>2, <1>3, <1>4, <1>5 DEF Next, Run

(* No job leaves the mutex behind, cancelled or not: whoever holds it is   *)
(* in its block, and it is not held by two.                                *)
THEOREM MutexHeldByRunning == Spec => []HeldWhileRunning
<1>1. Init => HeldWhileRunning
  BY ConstantsAssumption DEF Init, HeldWhileRunning, ConstantsAssumption
<1> QED BY <1>1, HeldStep, TypeCorrect, PTL DEF Spec

-----------------------------------------------------------------------------
(***************************************************************************)
(* InAppUpdates, for any number of checks.                                 *)
(***************************************************************************)
LEMMA NoRequestIsNoType == Updates!NoRequest \notin Updates!UpdateTypes
  BY DEF Updates!NoRequest, Updates!UpdateTypes

LEMMA NothingQueued == <<>> \in Seq(Updates!UpdateTypes) /\ Len(<<>>) = 0
  OBVIOUS

(* Whatever Play allows, an update of one of the two types is started.     *)
LEMMA UpdateTypeIsType ==
  ASSUME NEW info \in Updates!Infos PROVE Updates!UpdateType(info) \in Updates!UpdateTypes
  BY DEF Updates!UpdateType, Updates!UpdateTypes

-----------------------------------------------------------------------------
(***************************************************************************)
(* enqueueUpdateFlow sends a request only when the guard was free, and a   *)
(* guard that is in flight afterwards was so before or has its request in  *)
(* the channel.                                                            *)
(***************************************************************************)
LEMMA Enqueued ==
  ASSUME NEW request \in Updates!UpdateTypes, NEW requested \in BOOLEAN, Updates!TypeOK,
         Updates!EnqueueUpdateFlow(request, requested)
  PROVE  /\ hasRequestedUpdate' \in BOOLEAN /\ isFlowInFlight' \in BOOLEAN
         /\ \/ UNCHANGED <<isFlowInFlight, startUpdateEvents>>
            \/ /\ ~isFlowInFlight /\ isFlowInFlight'
               /\ startUpdateEvents' = Append(startUpdateEvents, request)
            \/ ~isFlowInFlight /\ ~isFlowInFlight' /\ UNCHANGED startUpdateEvents
  BY Zenon DEF Updates!EnqueueUpdateFlow, Updates!ResetGuard, Updates!TypeOK

(* What the answer to a check does to the guard and to the channel.        *)
LEMMA Answered ==
  ASSUME NEW id \in checks, NEW info \in Updates!Infos, Updates!TypeOK,
         Updates!Answer(id, info)
  PROVE  /\ hasRequestedUpdate' \in BOOLEAN /\ isFlowInFlight' \in BOOLEAN
         /\ restartPrompt' \in BOOLEAN /\ snackbar' \in BOOLEAN
         /\ \/ UNCHANGED <<isFlowInFlight, startUpdateEvents>>
            \/ /\ ~isFlowInFlight /\ isFlowInFlight'
               /\ \E request \in Updates!UpdateTypes :
                     startUpdateEvents' = Append(startUpdateEvents, request)
            \/ ~isFlowInFlight /\ ~isFlowInFlight' /\ UNCHANGED startUpdateEvents
  <1>1. CASE Updates!ResumeUpdate(info)
    <2>1. "IMMEDIATE" \in Updates!UpdateTypes  BY DEF Updates!UpdateTypes
    <2>2. /\ Updates!EnqueueUpdateFlow("IMMEDIATE", hasRequestedUpdate)
          /\ UNCHANGED Updates!prompts
      BY <1>1 DEF Updates!ResumeUpdate
    <2>3. QED  BY <2>1, <2>2, Enqueued, Zenon DEF Updates!prompts, Updates!TypeOK
  <1>2. CASE Updates!PromptRestart(info)
    BY <1>2, Zenon DEF Updates!PromptRestart, Updates!EmitRestartPrompt, Updates!TypeOK
  <1>3. CASE Updates!OfferUpdate(info)
    <2>1. /\ Updates!EnqueueUpdateFlow(Updates!UpdateType(info), TRUE)
          /\ UNCHANGED Updates!prompts
      BY <1>3 DEF Updates!OfferUpdate
    <2>2. QED  BY <2>1, UpdateTypeIsType, Enqueued, Zenon DEF Updates!prompts, Updates!TypeOK
  <1>4. CASE Updates!NothingToDo(info)
    BY <1>4, Zenon DEF Updates!NothingToDo, Updates!prompts, Updates!TypeOK
  <1>5. QED  BY <1>1, <1>2, <1>3, <1>4 DEF Updates!Answer

(***************************************************************************)
(* The variables keep their types.                                         *)
(***************************************************************************)
THEOREM UpdatesTypeCorrect == Updates!Spec => []Updates!TypeOK
  <1>1. Updates!Init => Updates!TypeOK
    <2>1. Updates!Init =>
             latestCheckId \in Nat /\ startUpdateEvents \in Seq(Updates!UpdateTypes)
      BY NothingQueued DEF Updates!Init
    <2>2. QED  BY <2>1, Zenon DEF Updates!Init, Updates!TypeOK
  <1>2. Updates!TypeOK /\ [Updates!Next]_(Updates!vars) => Updates!TypeOK'
    <2> SUFFICES ASSUME Updates!TypeOK, [Updates!Next]_(Updates!vars) PROVE Updates!TypeOK'
      OBVIOUS
    <2>1. CASE Updates!CheckForUpdate
      BY <2>1 DEF Updates!CheckForUpdate, Updates!TypeOK, Updates!prompts
    <2>2. ASSUME NEW id \in checks, Updates!IgnoreCheck(id) PROVE Updates!TypeOK'
      BY <2>2 DEF Updates!IgnoreCheck, Updates!TypeOK, Updates!guard, Updates!prompts
    <2>3. ASSUME NEW id \in checks, NEW info \in Updates!Infos, Updates!Answer(id, info)
          PROVE  Updates!TypeOK'
      <3>1. /\ checks' \subseteq checks
            /\ UNCHANGED <<latestCheckId, cleared, active, received, flow, lost>>
        BY <2>3 DEF Updates!Answer
      <3>2. startUpdateEvents' \in Seq(Updates!UpdateTypes)
        <4>1. startUpdateEvents \in Seq(Updates!UpdateTypes)  BY DEF Updates!TypeOK
        <4>2. \/ startUpdateEvents' = startUpdateEvents
              \/ \E request \in Updates!UpdateTypes :
                    startUpdateEvents' = Append(startUpdateEvents, request)
          BY <2>3, Answered
        <4>3. QED  BY <4>1, <4>2
      <3>3. /\ hasRequestedUpdate' \in BOOLEAN /\ isFlowInFlight' \in BOOLEAN
            /\ restartPrompt' \in BOOLEAN /\ snackbar' \in BOOLEAN
        BY <2>3, Answered
      <3>4. QED  BY <3>1, <3>2, <3>3 DEF Updates!TypeOK
    <2>4. CASE Updates!InstallDownloaded
      BY <2>4
      DEF Updates!InstallDownloaded, Updates!EmitRestartPrompt, Updates!TypeOK, Updates!guard
    <2>5. CASE Updates!InstallFailed
      BY <2>5 DEF Updates!InstallFailed, Updates!TypeOK, Updates!prompts
    <2>6. CASE Updates!Appear
      BY <2>6 DEF Updates!Appear, Updates!TypeOK, Updates!guard, Updates!prompts
    <2>7. CASE Updates!Receive
      BY <2>7 DEF Updates!Receive, Updates!TypeOK, Updates!guard, Updates!prompts
    <2>8. CASE Updates!StartUpdate
      BY <2>8 DEF Updates!StartUpdate, Updates!TypeOK, Updates!guard, Updates!prompts
    <2>9. CASE Updates!LaunchFails
      BY <2>9 DEF Updates!LaunchFails, Updates!ResetGuard, Updates!TypeOK, Updates!prompts
    <2>10. CASE Updates!OnUpdateFlowResult
      BY <2>10 DEF Updates!OnUpdateFlowResult, Updates!TypeOK, Updates!prompts
    <2>11. CASE Updates!ShowSnackbar \/ Updates!HideSnackbar
      BY <2>11 DEF Updates!ShowSnackbar, Updates!HideSnackbar, Updates!TypeOK, Updates!guard
    <2>12. CASE Updates!Recreate
      BY <2>12 DEF Updates!Recreate, Updates!StopCollecting, Updates!TypeOK, Updates!guard
    <2>13. CASE Updates!OnCleared
      BY <2>13, NothingQueued, Zenon
      DEF Updates!OnCleared, Updates!StopCollecting, Updates!TypeOK, Updates!guard
    <2>14. CASE Updates!StartAgain
      BY <2>14, NothingQueued DEF Updates!StartAgain, Updates!TypeOK
    <2>15. CASE UNCHANGED Updates!vars
      BY <2>15 DEF Updates!vars, Updates!guard, Updates!prompts, Updates!TypeOK
    <2>16. QED
      BY <2>1, <2>2, <2>3, <2>4, <2>5, <2>6, <2>7, <2>8, <2>9, <2>10, <2>11, <2>12, <2>13,
         <2>14, <2>15 DEF Updates!Next
  <1>3. QED
    BY <1>1, <1>2, PTL DEF Updates!Spec

-----------------------------------------------------------------------------
(***************************************************************************)
(* Nobody faces two update flows, and a guard in flight has its flow unless *)
(* a request was lost: both are kept together, since a free guard is what  *)
(* tells enqueueUpdateFlow that there is no request anywhere.              *)
(***************************************************************************)
Guarded == Updates!OneFlow /\ Updates!GuardIsHeld

LEMMA GuardedStep == Updates!TypeOK /\ Guarded /\ [Updates!Next]_(Updates!vars) => Guarded'
  <1> SUFFICES ASSUME Updates!TypeOK, Guarded, [Updates!Next]_(Updates!vars) PROVE Guarded'
    OBVIOUS
  <1> USE NoRequestIsNoType DEF Guarded, Updates!OneFlow, Updates!GuardIsHeld
  <1>1. CASE \/ Updates!CheckForUpdate \/ Updates!InstallDownloaded
             \/ Updates!InstallFailed \/ Updates!Appear
             \/ Updates!ShowSnackbar \/ Updates!HideSnackbar
    <2>1. UNCHANGED <<isFlowInFlight, startUpdateEvents, received, flow, lost>>
      BY <1>1
      DEF Updates!CheckForUpdate, Updates!InstallDownloaded, Updates!InstallFailed,
          Updates!Appear, Updates!ShowSnackbar, Updates!HideSnackbar, Updates!guard
    <2>2. QED  BY <2>1
  <1>2. ASSUME NEW id \in checks, Updates!IgnoreCheck(id) PROVE Guarded'
    BY <1>2 DEF Updates!IgnoreCheck, Updates!guard
  <1>3. ASSUME NEW id \in checks, NEW info \in Updates!Infos, Updates!Answer(id, info)
        PROVE  Guarded'
    <2>1. UNCHANGED <<received, flow, lost>>
      BY <1>3 DEF Updates!Answer
    <2>2. CASE UNCHANGED <<isFlowInFlight, startUpdateEvents>>
      BY <2>1, <2>2
    <2>3. CASE ~isFlowInFlight /\ ~isFlowInFlight' /\ UNCHANGED startUpdateEvents
      BY <2>1, <2>3
    <2>4. CASE /\ ~isFlowInFlight /\ isFlowInFlight'
               /\ \E request \in Updates!UpdateTypes :
                     startUpdateEvents' = Append(startUpdateEvents, request)
      <3>1. /\ startUpdateEvents = <<>>
            /\ received = Updates!NoRequest /\ flow = Updates!NoRequest
        BY <2>4
      <3>2. PICK request \in Updates!UpdateTypes :
               startUpdateEvents' = Append(startUpdateEvents, request)
        BY <2>4
      <3>3. startUpdateEvents' = <<request>>
        BY <3>1, <3>2
      <3>4. Len(startUpdateEvents') = 1 /\ startUpdateEvents' # <<>>
        BY <3>3
      <3>5. QED  BY <2>1, <2>4, <3>1, <3>4
    <2>5. QED  BY <1>3, <2>2, <2>3, <2>4, Answered
  <1>4. CASE Updates!Receive
    <2>1. /\ startUpdateEvents # <<>> /\ Len(startUpdateEvents) <= 1
          /\ flow = Updates!NoRequest /\ isFlowInFlight
      BY <1>4 DEF Updates!Receive
    <2>2. /\ startUpdateEvents' = Tail(startUpdateEvents)
          /\ received' = Head(startUpdateEvents)
          /\ UNCHANGED <<isFlowInFlight, flow, lost>>
      BY <1>4 DEF Updates!Receive, Updates!guard
    <2>3. startUpdateEvents' = <<>> /\ received' \in Updates!UpdateTypes
      BY <2>1, <2>2 DEF Updates!TypeOK
    <2>4. QED  BY <2>1, <2>2, <2>3
  <1>5. CASE Updates!StartUpdate
    BY <1>5 DEF Updates!StartUpdate, Updates!guard
  <1>6. CASE Updates!LaunchFails
    BY <1>6 DEF Updates!LaunchFails, Updates!ResetGuard
  <1>7. CASE Updates!OnUpdateFlowResult
    BY <1>7 DEF Updates!OnUpdateFlowResult
  <1>8. CASE Updates!Recreate
    BY <1>8 DEF Updates!Recreate, Updates!StopCollecting, Updates!guard
  <1>9. CASE Updates!OnCleared
    <2>1. /\ startUpdateEvents' = <<>>
          /\ received' = Updates!NoRequest /\ flow' = Updates!NoRequest
          /\ isFlowInFlight' = isFlowInFlight
      BY <1>9 DEF Updates!OnCleared, Updates!StopCollecting, Updates!guard
    <2>2. Updates!OneFlow'
      BY <2>1, NothingQueued
    <2>3. Updates!GuardIsHeld'
      BY <1>9, <2>1 DEF Updates!OnCleared
    <2>4. QED  BY <2>2, <2>3
  <1>10. CASE Updates!StartAgain
    BY <1>10 DEF Updates!StartAgain
  <1>11. CASE UNCHANGED Updates!vars
    BY <1>11 DEF Updates!vars, Updates!guard
  <1>12. QED
    BY <1>1, <1>2, <1>3, <1>4, <1>5, <1>6, <1>7, <1>8, <1>9, <1>10, <1>11 DEF Updates!Next

LEMMA AlwaysGuarded == Updates!Spec => []Guarded
  <1>1. Updates!Init => Guarded
    BY DEF Updates!Init, Guarded, Updates!OneFlow, Updates!GuardIsHeld
  <1>2. QED
    BY <1>1, GuardedStep, UpdatesTypeCorrect, PTL DEF Updates!Spec

(* The user never faces two update flows, however late Play answers.       *)
THEOREM NeverTwoFlows == Updates!Spec => []Updates!OneFlow
  <1>1. Guarded => Updates!OneFlow
    BY DEF Guarded
  <1>2. QED  BY <1>1, AlwaysGuarded, PTL

(* A guard in flight has a flow to release it, but for a lost request.     *)
THEOREM FlightHasFlow == Updates!Spec => []Updates!GuardIsHeld
  <1>1. Guarded => Updates!GuardIsHeld
    BY DEF Guarded
  <1>2. QED  BY <1>1, AlwaysGuarded, PTL

-----------------------------------------------------------------------------
(* A guard without a flow stops all updates until the process ends or      *)
(* another view model takes over.                                          *)
THEOREM LostBlocksUpdates == Updates!Spec => Updates!StuckForGood
  <1>1. Updates!TypeOK /\ [Updates!Next]_(Updates!vars) =>
           (Updates!Stuck => Updates!Stuck' \/ Updates!StartAgain)
    <2> SUFFICES ASSUME Updates!TypeOK, [Updates!Next]_(Updates!vars), Updates!Stuck,
                        ~Updates!StartAgain
                 PROVE  Updates!Stuck'
      OBVIOUS
    <2> USE DEF Updates!Stuck
    <2>1. CASE \/ Updates!CheckForUpdate \/ Updates!InstallDownloaded
               \/ Updates!InstallFailed \/ Updates!Appear
               \/ Updates!ShowSnackbar \/ Updates!HideSnackbar
      BY <2>1
      DEF Updates!CheckForUpdate, Updates!InstallDownloaded, Updates!InstallFailed,
          Updates!Appear, Updates!ShowSnackbar, Updates!HideSnackbar, Updates!guard
    <2>2. ASSUME NEW id \in checks, Updates!IgnoreCheck(id) PROVE Updates!Stuck'
      BY <2>2 DEF Updates!IgnoreCheck, Updates!guard
    <2>3. ASSUME NEW id \in checks, NEW info \in Updates!Infos, Updates!Answer(id, info)
          PROVE  Updates!Stuck'
      <3>1. UNCHANGED <<received, flow>>
        BY <2>3 DEF Updates!Answer
      <3>2. QED  BY <2>3, <3>1, Answered
    <2>4. CASE \/ Updates!Receive \/ Updates!StartUpdate \/ Updates!LaunchFails
               \/ Updates!OnUpdateFlowResult
      BY <2>4
      DEF Updates!Receive, Updates!StartUpdate, Updates!LaunchFails, Updates!OnUpdateFlowResult
    <2>5. CASE Updates!Recreate \/ Updates!OnCleared
      BY <2>5 DEF Updates!Recreate, Updates!OnCleared, Updates!StopCollecting, Updates!guard
    <2>6. CASE UNCHANGED Updates!vars
      BY <2>6 DEF Updates!vars, Updates!guard
    <2>7. QED
      BY <2>1, <2>2, <2>3, <2>4, <2>5, <2>6 DEF Updates!Next
  <1>2. QED
    BY <1>1, UpdatesTypeCorrect, PTL DEF Updates!Spec, Updates!StuckForGood

=============================================================================
