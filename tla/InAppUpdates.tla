---------------------------- MODULE InAppUpdates ----------------------------
(***************************************************************************)
(* Google Play's in-app updates: InAppUpdateViewModel asks Play whenever   *)
(* the app comes to the foreground and hands a request to the activity,    *)
(* which opens Play's update flow.  Play's answers come in any order, the  *)
(* activity may be recreated in between, and the view model outlives it.   *)
(*                                                                         *)
(* Play is external: an answer may be anything, a check may never be       *)
(* answered, and a flow ends with any result.                              *)
(***************************************************************************)
EXTENDS Naturals, Sequences

UpdateTypes == {"IMMEDIATE", "FLEXIBLE"}
Infos == [availability : {"NOT_AVAILABLE", "AVAILABLE", "IN_PROGRESS"},
          downloaded : BOOLEAN, updatePriority : 0 .. 5, allowed : SUBSET UpdateTypes]

IMMEDIATE_UPDATE_PRIORITY_THRESHOLD == 4
BUFFERED == 64          \* capacity of the channel of requests

(* A StartUpdateEvent is the type of update to start.                      *)
NoRequest == "NONE"

VARIABLES
    latestCheckId, hasRequestedUpdate, isFlowInFlight,  \* InAppUpdateFlowGuard
    checks,         \* the ids of checks Play has yet to answer
    startUpdateEvents,  \* the channel
    cleared,        \* the view model was cleared: its channel is closed
    active,         \* an activity collects the view model's flows
    received,       \* the request its collector was resumed with
    flow,           \* the request whose update flow Play shows
    restartPrompt,  \* a restart prompt waits in the buffer of the shared flow
    snackbar,       \* the restart snackbar is shown
    lost            \* a request died with its collector

guard == <<latestCheckId, hasRequestedUpdate, isFlowInFlight>>
prompts == <<restartPrompt, snackbar>>
vars == <<guard, checks, startUpdateEvents, cleared, active, received, flow, prompts, lost>>

TypeOK ==
    /\ latestCheckId \in Nat
    /\ hasRequestedUpdate \in BOOLEAN /\ isFlowInFlight \in BOOLEAN
    /\ checks \subseteq Nat
    /\ startUpdateEvents \in Seq(UpdateTypes)
    /\ cleared \in BOOLEAN /\ active \in BOOLEAN
    /\ received \in UpdateTypes \cup {NoRequest} /\ flow \in UpdateTypes \cup {NoRequest}
    /\ restartPrompt \in BOOLEAN /\ snackbar \in BOOLEAN
    /\ lost \in BOOLEAN

(* A process without an activity, also one whose view model is new.        *)
Init ==
    /\ latestCheckId = 0 /\ hasRequestedUpdate = FALSE /\ isFlowInFlight = FALSE
    /\ checks = {} /\ startUpdateEvents = <<>>
    /\ cleared = FALSE /\ active = FALSE
    /\ received = NoRequest /\ flow = NoRequest
    /\ restartPrompt = FALSE /\ snackbar = FALSE
    /\ lost = FALSE

-----------------------------------------------------------------------------
(* The view model.                                                         *)

(* checkForUpdate, on every ON_RESUME.                                     *)
CheckForUpdate ==
    /\ active
    /\ latestCheckId' = latestCheckId + 1
    /\ checks' = checks \cup {latestCheckId'}
    /\ UNCHANGED <<hasRequestedUpdate, isFlowInFlight, startUpdateEvents, cleared, active,
                   received, flow, prompts, lost>>

(* A failed check, and the answer to a check that is no longer the newest. *)
IgnoreCheck(id) ==
    /\ checks' = checks \ {id}
    /\ UNCHANGED <<guard, startUpdateEvents, cleared, active, received, flow, prompts, lost>>

(* onRequestDeliveryFailed, onLaunchFailed                                 *)
ResetGuard ==
    /\ hasRequestedUpdate' = FALSE
    /\ isFlowInFlight' = FALSE

(* enqueueUpdateFlow, after the guard was set to requested.                *)
EnqueueUpdateFlow(request, requested) ==
    \/ /\ isFlowInFlight
       /\ hasRequestedUpdate' = requested
       /\ UNCHANGED <<isFlowInFlight, startUpdateEvents>>
    \/ /\ ~isFlowInFlight
       /\ ~cleared /\ Len(startUpdateEvents) < BUFFERED
       /\ isFlowInFlight' = TRUE
       /\ hasRequestedUpdate' = requested
       /\ startUpdateEvents' = Append(startUpdateEvents, request)
    \/ /\ ~isFlowInFlight
       /\ cleared \/ Len(startUpdateEvents) >= BUFFERED
       /\ ResetGuard
       /\ UNCHANGED startUpdateEvents

ResumeUpdate(info) ==
    /\ info.availability = "IN_PROGRESS"
    /\ EnqueueUpdateFlow("IMMEDIATE", hasRequestedUpdate)
    /\ UNCHANGED prompts

(* tryEmit: without a collector the prompt is gone.                        *)
EmitRestartPrompt == restartPrompt' = active /\ UNCHANGED snackbar

PromptRestart(info) ==
    /\ info.availability # "IN_PROGRESS" /\ info.downloaded
    /\ EmitRestartPrompt
    /\ UNCHANGED <<hasRequestedUpdate, isFlowInFlight, startUpdateEvents>>

Urgent(info) == info.updatePriority >= IMMEDIATE_UPDATE_PRIORITY_THRESHOLD

UpdateType(info) ==
    IF "IMMEDIATE" \in info.allowed /\ (Urgent(info) \/ "FLEXIBLE" \notin info.allowed)
    THEN "IMMEDIATE" ELSE "FLEXIBLE"

Offered(info) ==
    /\ info.availability = "AVAILABLE" /\ ~info.downloaded /\ info.allowed # {}
    /\ ~hasRequestedUpdate /\ ~isFlowInFlight

OfferUpdate(info) ==
    /\ Offered(info)
    /\ EnqueueUpdateFlow(UpdateType(info), TRUE)
    /\ UNCHANGED prompts

NothingToDo(info) ==
    /\ info.availability # "IN_PROGRESS" /\ ~info.downloaded /\ ~Offered(info)
    /\ UNCHANGED <<hasRequestedUpdate, isFlowInFlight, startUpdateEvents, prompts>>

(* The success listener of the newest check.                               *)
Answer(id, info) ==
    /\ id = latestCheckId
    /\ checks' = checks \ {id}
    /\ ResumeUpdate(info) \/ PromptRestart(info) \/ OfferUpdate(info) \/ NothingToDo(info)
    /\ UNCHANGED <<latestCheckId, cleared, active, received, flow, lost>>

(* installStateListener                                                    *)
InstallDownloaded ==
    /\ ~cleared
    /\ EmitRestartPrompt
    /\ UNCHANGED <<guard, checks, startUpdateEvents, cleared, active, received, flow,
                   lost>>

InstallFailed ==
    /\ ~cleared
    /\ hasRequestedUpdate' = FALSE
    /\ UNCHANGED <<latestCheckId, isFlowInFlight, checks, startUpdateEvents, cleared, active,
                   received, flow, prompts, lost>>

-----------------------------------------------------------------------------
(* The activity.                                                           *)

Appear ==
    /\ ~active /\ ~cleared
    /\ active' = TRUE
    /\ UNCHANGED <<guard, checks, startUpdateEvents, cleared, received, flow, prompts,
                   lost>>

(* The collector is resumed with the next request, and runs later.         *)
Receive ==
    /\ active /\ received = NoRequest
    /\ startUpdateEvents # <<>>
    /\ received' = Head(startUpdateEvents)
    /\ startUpdateEvents' = Tail(startUpdateEvents)
    /\ UNCHANGED <<guard, checks, cleared, active, flow, prompts, lost>>

(* startUpdate: Play shows its flow, or does not; where startUpdate also    *)
(* throws, the process may end next.                                       *)
StartUpdate ==
    /\ received # NoRequest
    /\ flow' = received /\ received' = NoRequest
    /\ UNCHANGED <<guard, checks, startUpdateEvents, cleared, active, prompts, lost>>

LaunchFails ==
    /\ received # NoRequest
    /\ received' = NoRequest
    /\ ResetGuard
    /\ UNCHANGED <<latestCheckId, checks, startUpdateEvents, cleared, active, flow, prompts, lost>>

(* onUpdateFlowResult: accepted, cancelled by the user, or failed.         *)
OnUpdateFlowResult ==
    /\ active /\ flow # NoRequest
    /\ flow' = NoRequest
    /\ isFlowInFlight' = FALSE
    /\ UNCHANGED <<latestCheckId, hasRequestedUpdate, checks, startUpdateEvents, cleared, active,
                   received, prompts, lost>>

ShowSnackbar ==
    /\ active /\ restartPrompt /\ ~snackbar
    /\ restartPrompt' = FALSE /\ snackbar' = TRUE
    /\ UNCHANGED <<guard, checks, startUpdateEvents, cleared, active, received, flow,
                   lost>>

(* The snackbar is dismissed, or completeUpdate was called and failed.     *)
HideSnackbar ==
    /\ snackbar
    /\ snackbar' = FALSE
    /\ UNCHANGED <<guard, checks, startUpdateEvents, cleared, active, received, flow,
                   restartPrompt, lost>>

(* The activity is destroyed: its collectors are cancelled, and with them   *)
(* what they were resumed with.                                            *)
StopCollecting ==
    /\ active
    /\ active' = FALSE
    /\ received' = NoRequest
    /\ restartPrompt' = FALSE /\ snackbar' = FALSE

(* ... to be recreated: Play's flow stays and answers the next activity.    *)
Recreate ==
    /\ StopCollecting
    /\ lost' = (lost \/ received # NoRequest)
    /\ UNCHANGED <<guard, checks, startUpdateEvents, cleared, flow>>

(* ... for good: onCleared.                                                *)
OnCleared ==
    /\ StopCollecting
    /\ cleared' = TRUE
    /\ startUpdateEvents' = <<>>
    /\ lost' = (lost \/ received # NoRequest \/ startUpdateEvents # <<>> \/ flow # NoRequest)
    /\ flow' = NoRequest
    /\ UNCHANGED <<guard, checks>>

(* The process ends, or another activity makes a view model of its own.    *)
StartAgain ==
    /\ latestCheckId' = 0 /\ hasRequestedUpdate' = FALSE /\ isFlowInFlight' = FALSE
    /\ checks' = {} /\ startUpdateEvents' = <<>>
    /\ cleared' = FALSE /\ active' = FALSE
    /\ received' = NoRequest /\ flow' = NoRequest
    /\ restartPrompt' = FALSE /\ snackbar' = FALSE
    /\ lost' = FALSE

Next ==
    \/ CheckForUpdate
    \/ \E id \in checks :
          \/ IgnoreCheck(id)
          \/ \E info \in Infos : Answer(id, info)
    \/ InstallDownloaded \/ InstallFailed
    \/ Appear \/ Receive \/ StartUpdate \/ LaunchFails
    \/ OnUpdateFlowResult
    \/ ShowSnackbar \/ HideSnackbar
    \/ Recreate \/ OnCleared \/ StartAgain

Spec == Init /\ [][Next]_vars

-----------------------------------------------------------------------------
(***************************************************************************)
(* The user never faces two update flows: of the channel, the collector    *)
(* and Play's screen at most one holds a request, and only while the guard  *)
(* says that a flow is in flight ("suppresses repeated requests until      *)
(* activity result", InAppUpdateFlowGuardTest.kt).                         *)
(***************************************************************************)
OneFlow ==
    /\ Len(startUpdateEvents) <= 1
    /\ startUpdateEvents # <<>> => received = NoRequest /\ flow = NoRequest
    /\ received # NoRequest => flow = NoRequest
    /\ startUpdateEvents # <<>> \/ received # NoRequest \/ flow # NoRequest => isFlowInFlight

(***************************************************************************)
(* A guard that says a flow is in flight is released by a flow that still  *)
(* exists, so that updates are offered again; except when a request died   *)
(* with the collector it had just been handed to.                          *)
(***************************************************************************)
GuardIsHeld ==
    isFlowInFlight =>
        startUpdateEvents # <<>> \/ received # NoRequest \/ flow # NoRequest \/ lost

(***************************************************************************)
(* A guard without a flow stays so: no check, answer or failure of Play    *)
(* releases it, and no update is offered or resumed, until the process     *)
(* ends or another view model takes over.                                  *)
(***************************************************************************)
Stuck == isFlowInFlight /\ startUpdateEvents = <<>> /\ received = NoRequest /\ flow = NoRequest

StuckForGood == [][Stuck => Stuck' \/ StartAgain]_vars
=============================================================================
