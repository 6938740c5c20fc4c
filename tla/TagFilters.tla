----------------------------- MODULE TagFilters -----------------------------
(***************************************************************************)
(* Tag filters: the TagBlocks table, the account's filters on lobste.rs,   *)
(* and TagFilterViewModel, which loads both once, lets the user edit a     *)
(* draft, and saves it.  The draft is edited on the main thread and read   *)
(* and replaced by the save's coroutine on the IO dispatcher; setDraft is  *)
(* two assignments on either.                                              *)
(*                                                                         *)
(* TagBlock has no equals: two lists of blocks are equal when they hold    *)
(* the same instances.  A block is therefore its expiry and the instance   *)
(* it was made as.                                                         *)
(***************************************************************************)
EXTENDS Naturals

CONSTANTS
    Tags,
    Forever,        \* the expiry of a permanent block
    None,           \* no block
    Last,           \* the clock runs from 0 to Last; blocks expire at 1 .. Last
    MaxInstances,   \* bound on blocks the user makes
    MaxSaves,       \* bound on saves
    MaxFaults       \* bound on logins, logouts, failed requests, restarts

ASSUME ConstantsAssumption ==
    /\ Last \in Nat /\ MaxInstances \in Nat /\ MaxSaves \in Nat /\ MaxFaults \in Nat
    /\ Forever \notin 1 .. Last
    /\ None \notin 1 .. Last /\ None # Forever
    /\ None \notin [until : (1 .. Last) \cup {Forever}, made : Nat]

VARIABLES
    now,            \* the clock
    session,        \* getUsername() is not blank
    remote,         \* blockedTags of the account and of an anonymous session
    table,          \* TagBlocks: the expiry of each tag's row, or None
    state,          \* allTags: loading, loaded or failed
    tagBlocks, initialBlocks, isDirty, isSaving, authenticatedAtLoad,
    pc,             \* the next step of the load or the save
    started,        \* startedAuthenticated
    page,           \* blockedTags of the page it got
    draft,          \* the blocks it will store
    edit,           \* setDraft on the main thread: its next step and argument
    instances, saves, faults,   \* counters for the bounds
    anonymousPage,  \* history: the load's page was not of the account
    relogged,       \* history: a login since the load started
    excused         \* history: since the load started the session changed or
                    \* an answer was lost

viewModel == <<state, tagBlocks, initialBlocks, isDirty, isSaving,
               authenticatedAtLoad>>
outside == <<now, session, remote>>
locals == <<started, page, draft>>
counters == <<instances, saves, faults>>
history == <<anonymousPage, relogged, excused>>
vars == <<outside, table, viewModel, pc, locals, edit, counters, history>>

Expiries == (1 .. Last) \cup {Forever}
Blocks == [until : Expiries, made : 0 .. MaxInstances + MaxSaves]
Drafts == [Tags -> Blocks \cup {None}]
NoBlocks == [t \in Tags |-> None]
NoEdit == [step |-> "none", blocks |-> NoBlocks]

TypeOK ==
    /\ now \in 0 .. Last
    /\ session \in BOOLEAN
    /\ remote \in [{"account", "anonymous"} -> SUBSET Tags]
    /\ table \in [Tags -> Expiries \cup {None}]
    /\ state \in {"loading", "loaded", "failed"}
    /\ tagBlocks \in Drafts /\ initialBlocks \in Drafts /\ draft \in Drafts
    /\ isDirty \in BOOLEAN /\ isSaving \in BOOLEAN
    /\ authenticatedAtLoad \in BOOLEAN /\ started \in BOOLEAN
    /\ pc \in {"load", "getFilters", "merge", "storeLoaded", "finishLoad",
               "idle", "capture", "storeLocal", "initialLocal", "clean",
               "post", "refresh", "storeSaved", "initialSaved", "blocks",
               "dirty", "done"}
    /\ page \in SUBSET Tags
    /\ edit \in [step : {"none", "blocks", "dirty"}, blocks : Drafts]
    /\ instances \in 0 .. MaxInstances
    /\ saves \in 0 .. MaxSaves /\ faults \in 0 .. MaxFaults
    /\ anonymousPage \in BOOLEAN /\ relogged \in BOOLEAN /\ excused \in BOOLEAN

Init ==
    /\ now = 0 /\ session \in BOOLEAN
    /\ remote \in [{"account", "anonymous"} -> SUBSET Tags]
    /\ remote["anonymous"] = {}
    /\ table = NoBlocks
    /\ state = "loading" /\ tagBlocks = NoBlocks /\ initialBlocks = NoBlocks
    /\ isDirty = FALSE /\ isSaving = FALSE /\ authenticatedAtLoad = FALSE
    /\ pc = "load" /\ started = FALSE /\ page = {} /\ draft = NoBlocks
    /\ edit = NoEdit
    /\ instances = 0 /\ saves = 0 /\ faults = 0
    /\ anonymousPage = FALSE /\ relogged = FALSE /\ excused = FALSE

Fault == faults < MaxFaults /\ faults' = faults + 1
Who == IF session THEN "account" ELSE "anonymous"

Permanent(blocks) == {t \in Tags : blocks[t] # None /\ blocks[t].until = Forever}
Rows(blocks) == [t \in Tags |-> IF blocks[t] = None THEN None ELSE blocks[t].until]

(* The coroutine has ended: its locals are gone.                           *)
Forget == started' = FALSE /\ page' = {} /\ draft' = NoBlocks

(* Mutant: the local temporary rows are not kept.                          *)
OverlayOnly(canonical, blocks, made) ==
    [t \in Tags |-> IF t \in canonical
                    THEN [until |-> Forever, made |-> made] ELSE None]

(* Mutant: local permanent blocks stay beside the account's.               *)
OverlayAll(canonical, blocks, made) ==
    [t \in Tags |-> IF t \in canonical THEN [until |-> Forever, made |-> made]
                    ELSE blocks[t]]

(* The remote blocks, and the local temporary ones beside them.            *)
Overlay(canonical, blocks, made) ==
    [t \in Tags |->
        IF t \in canonical THEN [until |-> Forever, made |-> made]
        ELSE IF t \in Permanent(blocks) THEN None ELSE blocks[t]]

-----------------------------------------------------------------------------
(* loadTags, started by the view model's init.                             *)
LoadStart ==
    /\ pc = "load" /\ pc' = "getFilters"
    /\ started' = session /\ authenticatedAtLoad' = session
    /\ anonymousPage' = FALSE /\ relogged' = FALSE /\ excused' = FALSE
    /\ UNCHANGED <<outside, table, state, tagBlocks, initialBlocks, isDirty,
                   isSaving, page, draft, edit, counters>>

LoadFilters ==
    /\ pc = "getFilters" /\ pc' = "merge"
    /\ page' = remote[Who]
    /\ anonymousPage' = ~session
    /\ UNCHANGED <<outside, table, viewModel, started, draft, edit, counters,
                   relogged, excused>>

(* A failed load is not tried again: only a new view model loads.          *)
LoadFails ==
    /\ pc = "getFilters" /\ Fault
    /\ pc' = "idle" /\ state' = "failed"
    /\ Forget
    /\ UNCHANGED <<outside, table, tagBlocks, initialBlocks, isDirty, isSaving,
                   authenticatedAtLoad, edit, instances, saves, history>>

(* Mutant: the session is not looked at again.                             *)
StartedAuthenticated == started

ShouldUseRemoteState == started /\ session

(* getTagBlocksSnapshot, and the merge.                                    *)
LoadMerge ==
    /\ pc = "merge"
    /\ LET current == [t \in Tags |-> IF table[t] = None THEN None
                                      ELSE [until |-> table[t], made |-> 0]]
       IN  IF ShouldUseRemoteState
           THEN /\ draft' = Overlay(page, current, 0)
                /\ pc' = "storeLoaded"
                /\ UNCHANGED authenticatedAtLoad
           ELSE /\ draft' = current
                /\ pc' = "finishLoad"
                /\ authenticatedAtLoad' = FALSE
    /\ UNCHANGED <<outside, table, state, tagBlocks, initialBlocks, isDirty,
                   isSaving, started, page, edit, counters, history>>

(* replaceTagBlocks: one transaction.                                      *)
ReplaceTagBlocks ==
    /\ table' = Rows(draft)
    /\ UNCHANGED <<outside, viewModel, locals, edit, counters, history>>

StoreLoaded ==
    pc = "storeLoaded" /\ pc' = "finishLoad" /\ ReplaceTagBlocks

(* Nothing can be edited before allTags is a Success.                      *)
LoadFinish ==
    /\ pc = "finishLoad" /\ pc' = "idle"
    /\ initialBlocks' = draft /\ tagBlocks' = draft /\ isDirty' = FALSE
    /\ state' = "loaded"
    /\ Forget
    /\ UNCHANGED <<outside, table, isSaving, authenticatedAtLoad, edit, counters,
                   history>>

-----------------------------------------------------------------------------
(* The main thread: saveTagBlock, removeTagBlock and discardChanges read   *)
(* the blocks and call setDraft.                                           *)
SetDraft(blocks) ==
    /\ state = "loaded" /\ edit.step = "none"
    /\ edit' = [step |-> "blocks", blocks |-> blocks]
    /\ UNCHANGED <<outside, table, viewModel, pc, locals, saves, faults, history>>

SaveTagBlock(t, until) ==
    /\ instances < MaxInstances
    /\ instances' = instances + 1
    /\ SetDraft([tagBlocks EXCEPT ![t] = [until |-> until, made |-> instances']])

RemoveTagBlock(t) ==
    /\ tagBlocks[t] # None
    /\ SetDraft([tagBlocks EXCEPT ![t] = None])
    /\ UNCHANGED instances

DiscardChanges ==
    /\ isDirty
    /\ SetDraft(initialBlocks)
    /\ UNCHANGED instances

EditBlocks ==
    /\ edit.step = "blocks" /\ edit' = [edit EXCEPT !.step = "dirty"]
    /\ tagBlocks' = edit.blocks
    /\ UNCHANGED <<outside, table, state, initialBlocks, isDirty, isSaving,
                   authenticatedAtLoad, pc, locals, counters, history>>

EditDirty ==
    /\ edit.step = "dirty" /\ edit' = NoEdit
    /\ isDirty' = (edit.blocks # initialBlocks)
    /\ UNCHANGED <<outside, table, state, tagBlocks, initialBlocks, isSaving,
                   authenticatedAtLoad, pc, locals, counters, history>>

(* save(): the screen is left, the view model stays.                       *)
Save ==
    /\ edit.step = "none" /\ saves < MaxSaves
    /\ isDirty /\ ~isSaving
    /\ isSaving' = TRUE /\ pc' = "capture" /\ saves' = saves + 1
    /\ UNCHANGED <<outside, table, state, tagBlocks, initialBlocks, isDirty,
                   authenticatedAtLoad, locals, edit, instances, faults, history>>

-----------------------------------------------------------------------------
(* persistDraft, on the IO dispatcher.                                     *)
SaveCapture ==
    /\ pc = "capture"
    /\ draft' = tagBlocks
    /\ pc' = IF authenticatedAtLoad THEN "post" ELSE "storeLocal"
    /\ UNCHANGED <<outside, table, viewModel, started, page, edit, counters,
                   history>>

(* saveBlockedTags: the page for its token, then the POST.                 *)
SavePost ==
    /\ pc = "post" /\ pc' = "refresh"
    /\ remote' = [remote EXCEPT ![Who] = Permanent(draft)]
    /\ UNCHANGED <<now, session, table, viewModel, locals, edit, counters, history>>

(* saveBlockedTags: the refreshed page, and finalBlocks.                   *)
SaveRefresh ==
    /\ pc = "refresh" /\ pc' = "storeSaved"
    /\ draft' = Overlay(remote[Who], draft, MaxInstances + saves)
    /\ UNCHANGED <<outside, table, viewModel, started, page, edit, counters, history>>

(* Mutant: the table is left for the next load to bring up to date.        *)
StoreNothing ==
    /\ \/ pc = "storeLocal" /\ pc' = "initialLocal"
       \/ pc = "storeSaved" /\ pc' = "initialSaved"
    /\ UNCHANGED <<outside, table, viewModel, locals, edit, counters, history>>

Store ==
    /\ \/ pc = "storeLocal" /\ pc' = "initialLocal"
       \/ pc = "storeSaved" /\ pc' = "initialSaved"
    /\ ReplaceTagBlocks

SaveInitial ==
    /\ \/ pc = "initialLocal" /\ pc' = "clean"
       \/ pc = "initialSaved" /\ pc' = "blocks"
    /\ initialBlocks' = draft
    /\ UNCHANGED <<outside, table, state, tagBlocks, isDirty, isSaving,
                   authenticatedAtLoad, locals, edit, counters, history>>

(* An anonymous save ends with isDirty = false.                            *)
SaveClean ==
    /\ pc = "clean" /\ pc' = "done"
    /\ isDirty' = FALSE
    /\ UNCHANGED <<outside, table, state, tagBlocks, initialBlocks, isSaving,
                   authenticatedAtLoad, locals, edit, counters, history>>

(* The account's save ends with setDraft(initialBlocks).                   *)
SaveBlocks ==
    /\ pc = "blocks" /\ pc' = "dirty"
    /\ tagBlocks' = draft
    /\ UNCHANGED <<outside, table, state, initialBlocks, isDirty, isSaving,
                   authenticatedAtLoad, locals, edit, counters, history>>

SaveDirty ==
    /\ pc = "dirty" /\ pc' = "done"
    /\ isDirty' = (draft # initialBlocks)
    /\ UNCHANGED <<outside, table, state, tagBlocks, initialBlocks, isSaving,
                   authenticatedAtLoad, locals, edit, counters, history>>

(* Back on the main thread.                                                *)
SaveDone ==
    /\ pc = "done" /\ pc' = "idle"
    /\ isSaving' = FALSE
    /\ Forget
    /\ UNCHANGED <<outside, table, state, tagBlocks, initialBlocks, isDirty,
                   authenticatedAtLoad, edit, counters, history>>

(* Mutant: only a success ends the save.                                   *)
SaveFailsSaving ==
    /\ pc \in {"post", "refresh"} /\ Fault
    /\ pc' = "idle"
    /\ excused' = (excused \/ pc = "refresh")
    /\ Forget
    /\ UNCHANGED <<outside, table, viewModel, edit, instances, saves,
                   anonymousPage, relogged>>

(* A request fails: before the POST took effect, or after it.  The draft   *)
(* stays dirty.                                                            *)
SaveFails ==
    /\ pc \in {"post", "refresh"} /\ Fault
    /\ pc' = "idle" /\ isSaving' = FALSE
    /\ excused' = (excused \/ pc = "refresh")
    /\ Forget
    /\ UNCHANGED <<outside, table, state, tagBlocks, initialBlocks, isDirty,
                   authenticatedAtLoad, edit, instances, saves, anonymousPage,
                   relogged>>

-----------------------------------------------------------------------------
(* removeExpiredTags: the daily worker, or the debug button.               *)
RemoveExpiredTags ==
    /\ \E t \in Tags : table[t] \in 1 .. now
    /\ table' = [t \in Tags |-> IF table[t] \in 1 .. now THEN None ELSE table[t]]
    /\ UNCHANGED <<outside, viewModel, pc, locals, edit, counters, history>>

Tick ==
    /\ now < Last /\ now' = now + 1
    /\ UNCHANGED <<session, remote, table, viewModel, pc, locals, edit, counters,
                   history>>

(* Logging in replaces the cookies, logging out clears them: filters kept  *)
(* in an anonymous session's cookie are gone.                              *)
SessionChanges ==
    /\ Fault
    /\ session' = ~session
    /\ remote' = [remote EXCEPT !["anonymous"] = {}]
    /\ relogged' = (relogged \/ ~session)
    /\ excused' = TRUE
    /\ UNCHANGED <<now, table, viewModel, pc, locals, edit, instances, saves,
                   anonymousPage>>

(* The activity is finished, or the process dies: a new view model loads.  *)
Restart ==
    /\ Fault
    /\ state' = "loading" /\ tagBlocks' = NoBlocks /\ initialBlocks' = NoBlocks
    /\ isDirty' = FALSE /\ isSaving' = FALSE /\ authenticatedAtLoad' = FALSE
    /\ pc' = "load" /\ edit' = NoEdit
    /\ Forget
    /\ UNCHANGED <<outside, table, instances, saves, history>>

Load == LoadStart \/ LoadFilters \/ LoadMerge \/ StoreLoaded \/ LoadFinish

Saving ==
    \/ SaveCapture \/ SavePost \/ SaveRefresh
    \/ Store \/ SaveInitial \/ SaveClean \/ SaveBlocks \/ SaveDirty
    \/ SaveDone

User ==
    \/ \E t \in Tags : RemoveTagBlock(t) \/ \E u \in Expiries : SaveTagBlock(t, u)
    \/ DiscardChanges
    \/ Save

Next ==
    \/ Load \/ LoadFails
    \/ User \/ EditBlocks \/ EditDirty
    \/ Saving \/ SaveFails
    \/ RemoveExpiredTags \/ Tick \/ SessionChanges \/ Restart

Spec == Init /\ [][Next]_vars

(* Coroutines that can run do, and every request is answered or fails.     *)
FairSpec == Spec /\ WF_vars(Load) /\ WF_vars(Saving \/ SaveFails)

-----------------------------------------------------------------------------
(***************************************************************************)
(* What discardChanges goes back to is what is stored: with nothing in     *)
(* flight, initialBlocks is the table, but for rows removed since because  *)
(* they have expired.                                                      *)
(***************************************************************************)
InitialIsTable ==
    state = "loaded" /\ pc = "idle" =>
        \A t \in Tags :
            \/ table[t] = Rows(initialBlocks)[t]
            \/ table[t] = None /\ Rows(initialBlocks)[t] \in 1 .. now

(***************************************************************************)
(* The permanent blocks stored here are those of the account, whenever the *)
(* last load was the account's, the session held since and no answer to a  *)
(* save was lost.                                                          *)
(***************************************************************************)
RemoteAgrees ==
    state = "loaded" /\ pc = "idle" /\ authenticatedAtLoad /\ ~excused =>
        {t \in Tags : table[t] = Forever} = remote["account"]

(***************************************************************************)
(* The filters of an anonymous page are never stored as the account's,     *)
(* even if the session ends during the load; only logging in again before  *)
(* the page arrives can do that.                                           *)
(***************************************************************************)
AnonymousPageNotStored ==
    [][pc = "storeLoaded" /\ pc' = "finishLoad" => ~anonymousPage \/ relogged]_vars

(***************************************************************************)
(* Loading the account's filters removes no block: a temporary block stays *)
(* or becomes the account's permanent one.                                 *)
(***************************************************************************)
TemporarySurvivesLoad ==
    [][pc = "storeLoaded" /\ pc' = "finishLoad" =>
          \A t \in Tags : table[t] \in 1 .. Last => table'[t] # None]_vars

(***************************************************************************)
(* isSaving keeps a second save out for as long as one runs, and no longer:*)
(* no way out of a save, by a success, an error or a restart, leaves it    *)
(* set, and nothing clears it before.                                      *)
(***************************************************************************)
SavingHasSave ==
    isSaving <=> pc \in {"capture", "storeLocal", "initialLocal", "clean", "post",
                         "refresh", "storeSaved", "initialSaved", "blocks", "dirty",
                         "done"}

(* A save ends, whatever its requests do, and can then be tried again.     *)
SaveEnds == isSaving ~> ~isSaving

(***************************************************************************)
(* "Your unsaved tag filter changes will be lost" (strings.xml:33) is      *)
(* asked when isDirty: with nothing in flight, a draft that is not what is *)
(* stored is dirty.  A local save clears isDirty over an edit made after   *)
(* it read the draft.                                                      *)
(***************************************************************************)
UnsavedIsDirty ==
    state = "loaded" /\ pc = "idle" /\ edit.step = "none"
        /\ Rows(tagBlocks) # Rows(initialBlocks) => isDirty
=============================================================================
