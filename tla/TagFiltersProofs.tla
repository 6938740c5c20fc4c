-------------------------- MODULE TagFiltersProofs --------------------------
(***************************************************************************)
(* Theorems about TagFilters, for any tags, clock and bounds.              *)
(***************************************************************************)
EXTENDS TagFilters, TLAPS

Stamps == 0 .. MaxInstances + MaxSaves

LEMMA NoneIsNoBlock ==
  ASSUME NEW b \in Blocks
  PROVE  b # None /\ b.until \in Expiries /\ b.until # None
  BY ConstantsAssumption DEF Blocks, Expiries

(* The account's filters beside the local temporary ones.                  *)
LEMMA OverlayOfDraft ==
  ASSUME NEW canonical \in SUBSET Tags, NEW blocks \in Drafts, NEW made \in Stamps
  PROVE  /\ Overlay(canonical, blocks, made) \in Drafts
         /\ Permanent(Overlay(canonical, blocks, made)) = canonical
         /\ \A t \in Tags : blocks[t] # None /\ t \notin Permanent(blocks)
                               => Overlay(canonical, blocks, made)[t] # None
  <1> DEFINE o == Overlay(canonical, blocks, made)
             b == [until |-> Forever, made |-> made]
  <1>1. b \in Blocks /\ b.until = Forever
    BY DEF Blocks, Expiries, Stamps
  <1>2. b # None
    BY <1>1, NoneIsNoBlock
  <1>3. \A t \in Tags : blocks[t] \in Blocks \cup {None}
    BY DEF Drafts
  <1>4. \A t \in Tags : o[t] = IF t \in canonical THEN b
                               ELSE IF t \in Permanent(blocks) THEN None ELSE blocks[t]
    BY DEF Overlay
  <1>5. o \in Drafts
    BY <1>1, <1>3 DEF Overlay, Drafts
  <1>6. Permanent(o) = canonical
    <2>1. ASSUME NEW t \in Tags, t \notin canonical PROVE o[t] = None \/ o[t].until # Forever
      BY <1>4, <2>1 DEF Permanent
    <2>2. ASSUME NEW t \in Tags, t \in canonical PROVE o[t] # None /\ o[t].until = Forever
      BY <1>1, <1>2, <1>4, <2>2
    <2>3. QED  BY <2>1, <2>2 DEF Permanent
  <1>7. QED  BY <1>2, <1>4, <1>5, <1>6

LEMMA RowsOfDraft ==
  ASSUME NEW blocks \in Drafts
  PROVE  /\ Rows(blocks) \in [Tags -> Expiries \cup {None}]
         /\ {t \in Tags : Rows(blocks)[t] = Forever} = Permanent(blocks)
         /\ \A t \in Tags : blocks[t] # None => Rows(blocks)[t] # None
  <1>1. \A t \in Tags : blocks[t] = None \/ (blocks[t] # None /\ blocks[t].until \in Expiries
                                              /\ blocks[t].until # None)
    BY NoneIsNoBlock DEF Drafts
  <1>2. \A t \in Tags : Rows(blocks)[t] = IF blocks[t] = None THEN None ELSE blocks[t].until
    BY DEF Rows
  <1>3. None # Forever
    BY ConstantsAssumption
  <1>4. Rows(blocks) \in [Tags -> Expiries \cup {None}]
    BY <1>1 DEF Rows
  <1>5. QED  BY <1>1, <1>2, <1>3, <1>4 DEF Permanent

(* The blocks of a snapshot of the table.                                  *)
Current == [t \in Tags |-> IF table[t] = None THEN None ELSE [until |-> table[t], made |-> 0]]

LEMMA CurrentIsTable ==
  ASSUME TypeOK
  PROVE  /\ Current \in Drafts /\ Rows(Current) = table
         /\ Permanent(Current) = {t \in Tags : table[t] = Forever}
         /\ \A t \in Tags : table[t] # None => Current[t] # None
  <1>1. \A t \in Tags : table[t] \in Expiries \cup {None}
    BY DEF TypeOK
  <1>2. \A t \in Tags : table[t] # None =>
            /\ [until |-> table[t], made |-> 0] \in Blocks
            /\ [until |-> table[t], made |-> 0] # None
    <2>1. ASSUME NEW t \in Tags, table[t] # None
          PROVE  [until |-> table[t], made |-> 0] \in Blocks
      BY <1>1, <2>1, ConstantsAssumption DEF Blocks
    <2>2. QED  BY <2>1, NoneIsNoBlock
  <1>3. Current \in Drafts
    BY <1>2 DEF Current, Drafts
  <1>4. \A t \in Tags : Rows(Current)[t] = table[t]
    BY <1>2 DEF Current, Rows
  <1>5. Rows(Current) = table
    <2>1. Rows(Current) = [t \in Tags |-> Rows(Current)[t]]  BY DEF Rows
    <2>2. table = [t \in Tags |-> table[t]]  BY DEF TypeOK
    <2>3. QED  BY <1>4, <2>1, <2>2
  <1>6. \A t \in Tags : table[t] # None => Current[t] # None
    BY <1>2 DEF Current
  <1>7. QED  BY <1>3, <1>5, <1>6, RowsOfDraft

LEMMA DraftsForNothing ==
  /\ NoBlocks \in Drafts
  /\ NoBlocks \in [Tags -> Expiries \cup {None}]
  /\ NoEdit \in [step : {"none", "blocks", "dirty"}, blocks : Drafts]
  BY DEF NoBlocks, NoEdit, Drafts

LEMMA EditedDraft ==
  ASSUME NEW blocks \in Drafts, NEW t \in Tags, NEW b \in Blocks \cup {None}
  PROVE  [blocks EXCEPT ![t] = b] \in Drafts
  BY DEF Drafts

-----------------------------------------------------------------------------
LEMMA FaultsCounted ==
  ASSUME TypeOK, Fault
  PROVE  faults' \in 0 .. MaxFaults
  BY ConstantsAssumption DEF TypeOK, Fault

(* Every variable keeps its type.                                          *)
LEMMA TypeStep ==
  ASSUME TypeOK, [Next]_vars
  PROVE  TypeOK'
  <1> USE DEF outside, viewModel, locals, counters, history
  <1>1. CASE LoadStart
    BY <1>1 DEF TypeOK, LoadStart
  <1>2. CASE LoadFilters
    BY <1>2 DEF TypeOK, LoadFilters, Who
  <1>3. CASE LoadFails
    BY <1>3, DraftsForNothing, FaultsCounted DEF TypeOK, LoadFails, Forget
  <1>4. CASE LoadMerge
    <2>1. draft' \in Drafts
      <3>1. page \in SUBSET Tags /\ 0 \in Stamps
        BY ConstantsAssumption DEF TypeOK, Stamps
      <3>2. Current \in Drafts /\ Overlay(page, Current, 0) \in Drafts
        BY <3>1, CurrentIsTable, OverlayOfDraft
      <3>3. draft' = Overlay(page, Current, 0) \/ draft' = Current
        BY <1>4 DEF LoadMerge, Current
      <3>4. QED  BY <3>2, <3>3
    <2>2. /\ pc' \in {"storeLoaded", "finishLoad"}
          /\ authenticatedAtLoad' \in BOOLEAN
      BY <1>4 DEF TypeOK, LoadMerge
    <2>3. QED  BY <1>4, <2>1, <2>2 DEF TypeOK, LoadMerge
  <1>5. ASSUME ReplaceTagBlocks, pc' \in {"finishLoad", "initialLocal", "initialSaved"}
        PROVE  TypeOK'
    <2>1. Rows(draft) \in [Tags -> Expiries \cup {None}]
      BY RowsOfDraft DEF TypeOK
    <2>2. QED  BY <1>5, <2>1 DEF TypeOK, ReplaceTagBlocks
  <1>6. CASE LoadFinish
    BY <1>6, DraftsForNothing DEF TypeOK, LoadFinish, Forget
  <1>7. ASSUME NEW t \in Tags, NEW until \in Expiries, SaveTagBlock(t, until)
        PROVE  TypeOK'
    <2>1. instances' \in 0 .. MaxInstances /\ instances' \in 0 .. MaxInstances + MaxSaves
      BY <1>7, ConstantsAssumption DEF TypeOK, SaveTagBlock
    <2>2. [until |-> until, made |-> instances'] \in Blocks
      BY <2>1 DEF Blocks
    <2>3. [tagBlocks EXCEPT ![t] = [until |-> until, made |-> instances']] \in Drafts
      BY <2>2, EditedDraft DEF TypeOK
    <2>4. edit' \in [step : {"none", "blocks", "dirty"}, blocks : Drafts]
      BY <1>7, <2>3 DEF SaveTagBlock, SetDraft
    <2>5. QED  BY <1>7, <2>1, <2>4 DEF TypeOK, SaveTagBlock, SetDraft
  <1>8. ASSUME NEW t \in Tags, RemoveTagBlock(t)
        PROVE  TypeOK'
    <2>1. [tagBlocks EXCEPT ![t] = None] \in Drafts
      BY EditedDraft DEF TypeOK
    <2>2. QED  BY <1>8, <2>1 DEF TypeOK, RemoveTagBlock, SetDraft
  <1>9. CASE DiscardChanges
    BY <1>9 DEF TypeOK, DiscardChanges, SetDraft
  <1>10. CASE Save
    BY <1>10, ConstantsAssumption DEF TypeOK, Save
  <1>11. CASE EditBlocks
    BY <1>11 DEF TypeOK, EditBlocks
  <1>12. CASE EditDirty
    BY <1>12, DraftsForNothing DEF TypeOK, EditDirty
  <1>13. CASE SaveCapture
    BY <1>13 DEF TypeOK, SaveCapture
  <1>14. CASE SavePost
    BY <1>14 DEF TypeOK, SavePost, Permanent
  <1>15. CASE SaveRefresh
    <2>1. remote[Who] \in SUBSET Tags /\ MaxInstances + saves \in Stamps
      BY ConstantsAssumption DEF TypeOK, Who, Stamps
    <2>2. Overlay(remote[Who], draft, MaxInstances + saves) \in Drafts
      BY <2>1, OverlayOfDraft DEF TypeOK
    <2>3. QED  BY <1>15, <2>2 DEF TypeOK, SaveRefresh
  <1>16. CASE SaveInitial
    BY <1>16 DEF TypeOK, SaveInitial
  <1>17. CASE SaveClean \/ SaveBlocks \/ SaveDirty
    <2>1. CASE SaveClean
      BY <2>1 DEF TypeOK, SaveClean
    <2>2. CASE SaveBlocks
      BY <2>2 DEF TypeOK, SaveBlocks
    <2>3. CASE SaveDirty
      <3>1. isDirty' \in BOOLEAN
        BY <2>3 DEF SaveDirty
      <3>2. QED  BY <2>3, <3>1 DEF TypeOK, SaveDirty
    <2>4. QED  BY <1>17, <2>1, <2>2, <2>3
  <1>18. CASE SaveDone
    BY <1>18, DraftsForNothing DEF TypeOK, SaveDone, Forget
  <1>19. CASE SaveFails
    BY <1>19, DraftsForNothing, FaultsCounted DEF TypeOK, SaveFails, Forget
  <1>20. CASE RemoveExpiredTags
    BY <1>20 DEF TypeOK, RemoveExpiredTags
  <1>21. CASE Tick
    BY <1>21, ConstantsAssumption DEF TypeOK, Tick
  <1>22. CASE SessionChanges
    BY <1>22, FaultsCounted DEF TypeOK, SessionChanges
  <1>23. CASE Restart
    BY <1>23, DraftsForNothing, FaultsCounted DEF TypeOK, Restart, Forget
  <1>24. CASE UNCHANGED vars
    BY <1>24 DEF TypeOK, vars
  <1>25. CASE StoreLoaded
    BY <1>5, <1>25 DEF StoreLoaded
  <1>26. CASE Store
    BY <1>5, <1>26 DEF Store
  <1>27. QED
    BY <1>1, <1>2, <1>3, <1>4, <1>6, <1>7, <1>8, <1>9, <1>10, <1>11, <1>12, <1>13,
       <1>14, <1>15, <1>16, <1>17, <1>18, <1>19, <1>20, <1>21, <1>22, <1>23, <1>24,
       <1>25, <1>26 DEF Next, Load, Saving, User

LEMMA TypeInit == Init => TypeOK
  <1>1. ASSUME Init PROVE TypeOK
    <2>1. now \in 0 .. Last /\ instances \in 0 .. MaxInstances /\ saves \in 0 .. MaxSaves
          /\ faults \in 0 .. MaxFaults
      BY <1>1, ConstantsAssumption DEF Init
    <2>2. QED  BY <1>1, <2>1, DraftsForNothing DEF Init, TypeOK
  <1>2. QED  BY <1>1

(* The type invariant of TagFilters holds for any tags, clock and bounds.  *)
THEOREM TypeCorrect == Spec => []TypeOK
  <1>1. QED  BY TypeInit, TypeStep, PTL DEF Spec

-----------------------------------------------------------------------------
LoadSteps == {"load", "getFilters", "merge", "storeLoaded", "finishLoad"}
RemoteSteps == {"post", "refresh", "storeSaved", "initialSaved", "blocks", "dirty"}
LocalSteps == {"storeLocal", "initialLocal", "clean"}

(* Which coroutine runs, a load, a save or none, and on which branch.      *)
OneAtATime ==
    /\ state = "loading" <=> pc \in LoadSteps
    /\ ~isSaving => pc \in LoadSteps \cup {"idle"}
    /\ isSaving => pc \notin LoadSteps \cup {"idle"}
    /\ state # "loaded" => ~isDirty /\ edit.step = "none" /\ ~isSaving
    /\ pc \in RemoteSteps => authenticatedAtLoad
    /\ pc \in LocalSteps => ~authenticatedAtLoad

LEMMA OneStep ==
  ASSUME TypeOK, OneAtATime, [Next]_vars
  PROVE  OneAtATime'
  <1> USE DEF OneAtATime, LoadSteps, RemoteSteps, LocalSteps, outside, viewModel,
              locals, counters, history
  <1>1. CASE Load
    <2>1. CASE LoadStart \/ LoadFilters
      BY <2>1 DEF LoadStart, LoadFilters
    <2>2. CASE LoadMerge
      BY <2>2 DEF LoadMerge
    <2>3. CASE StoreLoaded
      BY <2>3 DEF StoreLoaded, ReplaceTagBlocks
    <2>4. CASE LoadFinish
      BY <2>4 DEF LoadFinish
    <2>5. QED  BY <1>1, <2>1, <2>2, <2>3, <2>4 DEF Load
  <1>2. CASE LoadFails
    BY <1>2 DEF LoadFails
  <1>3. ASSUME NEW blocks, SetDraft(blocks)
        PROVE  OneAtATime'
    BY <1>3 DEF SetDraft
  <1>4. CASE Save
    BY <1>4 DEF Save
  <1>5. CASE User
    BY <1>3, <1>4, <1>5 DEF User, SaveTagBlock, RemoveTagBlock, DiscardChanges
  <1>6. CASE EditBlocks
    BY <1>6 DEF EditBlocks
  <1>7. CASE EditDirty
    BY <1>7 DEF EditDirty, NoEdit
  <1>8. CASE Saving
    <2>1. CASE SaveCapture
      BY <2>1 DEF SaveCapture
    <2>2. CASE SavePost \/ SaveRefresh
      BY <2>2 DEF SavePost, SaveRefresh
    <2>3. CASE Store
      BY <2>3 DEF Store, ReplaceTagBlocks
    <2>4. CASE SaveInitial
      BY <2>4 DEF SaveInitial
    <2>5. CASE SaveClean \/ SaveBlocks
      BY <2>5 DEF SaveClean, SaveBlocks
    <2>6. CASE SaveDirty
      BY <2>6 DEF SaveDirty
    <2>7. CASE SaveDone
      BY <2>7 DEF SaveDone
    <2>8. QED  BY <1>8, <2>1, <2>2, <2>3, <2>4, <2>5, <2>6, <2>7 DEF Saving
  <1>9. CASE SaveFails
    BY <1>9 DEF SaveFails
  <1>10. CASE RemoveExpiredTags \/ Tick \/ SessionChanges
    BY <1>10 DEF RemoveExpiredTags, Tick, SessionChanges
  <1>11. CASE Restart
    BY <1>11 DEF Restart, NoEdit
  <1>12. CASE UNCHANGED vars
    BY <1>12 DEF vars
  <1>13. QED
    BY <1>1, <1>2, <1>5, <1>6, <1>7, <1>8, <1>9, <1>10, <1>11, <1>12 DEF Next

-----------------------------------------------------------------------------
(* The rows are those of the blocks, but for rows that were removed since  *)
(* because they had expired.                                               *)
Agree(rows, clock, blocks) ==
    \A t \in Tags :
        \/ rows[t] = Rows(blocks)[t]
        \/ rows[t] = None /\ Rows(blocks)[t] \in 1 .. clock

InHand == {"finishLoad", "initialLocal", "initialSaved"}

(* What is stored is the draft in hand, until the draft becomes the origin *)
(* of the edits; from then on it is the origin, until the next draft is    *)
(* stored.                                                                 *)
Origin ==
    /\ pc \in InHand => Agree(table, now, draft)
    /\ state = "loaded" /\ pc \notin InHand => Agree(table, now, initialBlocks)

LEMMA OriginStep ==
  ASSUME TypeOK, OneAtATime, Origin, [Next]_vars
  PROVE  Origin'
  <1> USE DEF outside, viewModel, locals, counters, history
  <1>1. ASSUME UNCHANGED <<now, table, initialBlocks, state, draft, pc>>
        PROVE  Origin'
    BY <1>1 DEF Origin, Agree, Rows
  <1>2. ASSUME UNCHANGED <<now, table, initialBlocks, state>>,
               pc \notin InHand, pc' \notin InHand
        PROVE  Origin'
    BY <1>2 DEF Origin, Agree, Rows
  <1>3. CASE LoadMerge
    <2>1. CASE pc' = "finishLoad"
      <3>1. draft' = Current /\ UNCHANGED <<table, now, state>> /\ state = "loading"
        BY <1>3, <2>1 DEF LoadMerge, Current, OneAtATime, LoadSteps
      <3>2. Rows(draft') = table'
        BY <3>1, CurrentIsTable
      <3>3. Agree(table', now', draft')
        BY <3>2 DEF Agree
      <3>4. QED  BY <2>1, <3>1, <3>3 DEF Origin, InHand, Agree, Rows
    <2>2. CASE pc' # "finishLoad"
      <3>1. state' = "loading" /\ pc' = "storeLoaded"
        BY <1>3, <2>2 DEF LoadMerge, OneAtATime, LoadSteps
      <3>2. QED  BY <3>1 DEF Origin, InHand
    <2>3. QED  BY <2>1, <2>2
  <1>4. CASE StoreLoaded \/ Store
    <2>1. /\ table' = Rows(draft) /\ draft' = draft /\ pc' \in InHand
      BY <1>4 DEF StoreLoaded, Store, ReplaceTagBlocks, InHand
    <2>2. Agree(table', now', draft')
      BY <2>1 DEF Agree
    <2>3. QED  BY <2>1, <2>2 DEF Origin, Agree, Rows
  <1>5. CASE LoadFinish \/ SaveInitial
    <2>1. /\ initialBlocks' = draft /\ UNCHANGED <<table, now>>
          /\ pc \in InHand /\ pc' \notin InHand
      BY <1>5 DEF LoadFinish, SaveInitial, InHand
    <2>2. Agree(table', now', initialBlocks')
      BY <2>1 DEF Origin
    <2>3. QED  BY <2>1, <2>2 DEF Origin, Agree, Rows
  <1>6. CASE RemoveExpiredTags \/ Tick
    <2>1. ASSUME NEW blocks, Agree(table, now, blocks)
          PROVE  Agree(table', now', blocks)
      <3>1. CASE RemoveExpiredTags
        BY <2>1, <3>1 DEF Agree, RemoveExpiredTags
      <3>2. CASE Tick
        <4>1. now \in Nat /\ now' = now + 1 /\ table' = table
          BY <3>2, ConstantsAssumption DEF Tick, TypeOK
        <4>2. 1 .. now \subseteq 1 .. now'
          BY <4>1
        <4>3. QED  BY <2>1, <4>1, <4>2 DEF Agree
      <3>3. QED  BY <1>6, <3>1, <3>2
    <2>2. UNCHANGED <<pc, state, draft, initialBlocks>>
      BY <1>6 DEF RemoveExpiredTags, Tick
    <2>3. /\ pc' \in InHand => Agree(table', now', draft')
          /\ state' = "loaded" /\ pc' \notin InHand => Agree(table', now', initialBlocks')
      BY <2>1, <2>2 DEF Origin
    <2>4. QED  BY <2>3 DEF Origin, Agree, Rows
  <1>7. CASE LoadFails \/ Restart
    BY <1>7 DEF LoadFails, Restart, Origin, InHand
  <1>8. CASE LoadStart \/ LoadFilters \/ SaveCapture \/ SavePost \/ SaveRefresh
             \/ SaveClean \/ SaveBlocks \/ SaveDirty \/ SaveDone \/ SaveFails
    BY <1>2, <1>8 DEF InHand, LoadStart, LoadFilters, SaveCapture, SavePost,
         SaveRefresh, SaveClean, SaveBlocks, SaveDirty, SaveDone, SaveFails
  <1>9. CASE Save
    BY <1>2, <1>9 DEF Save, InHand, OneAtATime, LoadSteps
  <1>10. ASSUME NEW blocks, SetDraft(blocks)
         PROVE  Origin'
    BY <1>1, <1>10 DEF SetDraft
  <1>11. CASE User
    BY <1>9, <1>10, <1>11 DEF User, SaveTagBlock, RemoveTagBlock, DiscardChanges
  <1>12. CASE EditBlocks \/ EditDirty \/ SessionChanges \/ UNCHANGED vars
    BY <1>1, <1>12 DEF EditBlocks, EditDirty, SessionChanges, vars
  <1>13. QED
    BY <1>3, <1>4, <1>5, <1>6, <1>7, <1>8, <1>11, <1>12 DEF Next, Load, Saving

-----------------------------------------------------------------------------
(* What a load has in hand: an anonymous page only while nobody is logged  *)
(* in, unless somebody logged in since, and a block for every temporary    *)
(* row.                                                                    *)
LoadInHand ==
    /\ pc = "merge" /\ anonymousPage => ~session \/ relogged
    /\ pc = "storeLoaded" => ~anonymousPage \/ relogged
    /\ pc = "storeLoaded" =>
          \A t \in Tags : table[t] \in 1 .. Last => draft[t] # None

LEMMA Merged ==
  ASSUME TypeOK, LoadMerge, pc' = "storeLoaded"
  PROVE  /\ started /\ session
         /\ Permanent(draft') = page
         /\ \A t \in Tags : table[t] \in 1 .. Last => draft'[t] # None
  <1>1. /\ started /\ session
        /\ draft' = Overlay(page, Current, 0)
    BY DEF LoadMerge, ShouldUseRemoteState, Current
  <1>2. page \in SUBSET Tags /\ 0 \in Stamps
    BY ConstantsAssumption DEF TypeOK, Stamps
  <1>3. ASSUME NEW t \in Tags, table[t] \in 1 .. Last
        PROVE  draft'[t] # None
    <2>1. table[t] # None /\ table[t] # Forever
      BY <1>3, ConstantsAssumption
    <2>2. Current[t] # None /\ t \notin Permanent(Current)
      BY <2>1, CurrentIsTable
    <2>3. QED  BY <1>1, <1>2, <2>2, CurrentIsTable, OverlayOfDraft
  <1>4. Permanent(draft') = page
    BY <1>1, <1>2, CurrentIsTable, OverlayOfDraft
  <1>5. QED  BY <1>1, <1>3, <1>4

LEMMA LoadInHandStep ==
  ASSUME TypeOK, OneAtATime, LoadInHand, [Next]_vars
  PROVE  LoadInHand'
  <1> USE DEF outside, viewModel, locals, counters, history
  <1>1. ASSUME pc' \notin {"merge", "storeLoaded"}
        PROVE  LoadInHand'
    BY <1>1 DEF LoadInHand
  <1>2. ASSUME UNCHANGED <<session, table, draft, pc, anonymousPage, relogged>>
        PROVE  LoadInHand'
    BY <1>2 DEF LoadInHand
  <1>3. CASE LoadFilters
    BY <1>3 DEF LoadFilters, LoadInHand
  <1>4. CASE LoadMerge
    <2>1. CASE pc' = "storeLoaded"
      <3>1. ~anonymousPage' \/ relogged'
        BY <1>4, <2>1, Merged DEF LoadMerge, LoadInHand
      <3>2. \A t \in Tags : table'[t] \in 1 .. Last => draft'[t] # None
        BY <1>4, <2>1, Merged DEF LoadMerge
      <3>3. QED  BY <2>1, <3>1, <3>2 DEF LoadInHand
    <2>2. CASE pc' # "storeLoaded"
      BY <1>1, <1>4, <2>2 DEF LoadMerge
    <2>3. QED  BY <2>1, <2>2
  <1>5. CASE RemoveExpiredTags
    <2>1. \A t \in Tags : table'[t] = None \/ table'[t] = table[t]
      BY <1>5 DEF RemoveExpiredTags
    <2>2. UNCHANGED <<session, draft, pc, anonymousPage, relogged>>
      BY <1>5 DEF RemoveExpiredTags
    <2>3. QED  BY <2>1, <2>2, ConstantsAssumption DEF LoadInHand
  <1>6. CASE SessionChanges
    <2>1. /\ session' = ~session /\ relogged' = (relogged \/ ~session)
          /\ UNCHANGED <<pc, table, draft, anonymousPage>>
      BY <1>6 DEF SessionChanges
    <2>2. pc' = "merge" /\ anonymousPage' => ~session' \/ relogged'
      BY <2>1
    <2>3. pc' = "storeLoaded" => ~anonymousPage' \/ relogged'
      BY <2>1 DEF LoadInHand
    <2>4. pc' = "storeLoaded" =>
            \A t \in Tags : table'[t] \in 1 .. Last => draft'[t] # None
      BY <2>1 DEF LoadInHand
    <2>5. QED  BY <2>2, <2>3, <2>4 DEF LoadInHand
  <1>7. CASE LoadStart \/ StoreLoaded \/ LoadFinish \/ LoadFails \/ Restart
    BY <1>1, <1>7 DEF LoadStart, StoreLoaded, LoadFinish, LoadFails, Restart
  <1>8. CASE Save
    BY <1>1, <1>8 DEF Save
  <1>9. ASSUME NEW blocks, SetDraft(blocks)
        PROVE  LoadInHand'
    BY <1>2, <1>9 DEF SetDraft
  <1>10. CASE User
    BY <1>8, <1>9, <1>10 DEF User, SaveTagBlock, RemoveTagBlock, DiscardChanges
  <1>11. CASE EditBlocks \/ EditDirty \/ Tick \/ UNCHANGED vars
    BY <1>2, <1>11 DEF EditBlocks, EditDirty, Tick, vars
  <1>12. CASE Saving \/ SaveFails
    BY <1>1, <1>12 DEF Saving, SaveFails, SaveCapture, SavePost, SaveRefresh, Store,
         SaveInitial, SaveClean, SaveBlocks, SaveDirty, SaveDone
  <1>13. QED
    BY <1>3, <1>4, <1>5, <1>6, <1>7, <1>10, <1>11, <1>12 DEF Next, Load

-----------------------------------------------------------------------------
Permanents == {t \in Tags : table[t] = Forever}

Settled == {"finishLoad", "idle", "capture", "post", "initialSaved", "blocks",
            "dirty", "done"}

(* While the session of the load holds and no answer was lost: a load has  *)
(* the page of that session; a save that posted has the account's filters  *)
(* in hand; before the post and after the store the table has them.        *)
AccountHeld ==
    ~excused =>
        /\ pc \in {"getFilters", "merge"} =>
              started = session /\ authenticatedAtLoad = session
        /\ pc = "merge" => page = remote[Who]
        /\ pc \in {"storeLoaded", "refresh", "storeSaved"} =>
              session /\ Permanent(draft) = remote["account"]
        /\ pc \in Settled /\ state # "failed" /\ authenticatedAtLoad =>
              session /\ Permanents = remote["account"]

LEMMA ExpiryIsTemporary ==
  ASSUME TypeOK, RemoveExpiredTags
  PROVE  Permanents' = Permanents
  <1>1. 1 .. now \subseteq 1 .. Last
    BY ConstantsAssumption DEF TypeOK
  <1>2. Forever \notin 1 .. now /\ None # Forever
    BY <1>1, ConstantsAssumption
  <1>3. \A t \in Tags : table'[t] = Forever <=> table[t] = Forever
    BY <1>2 DEF RemoveExpiredTags
  <1>4. QED  BY <1>3 DEF Permanents

LEMMA StoredPermanents ==
  ASSUME TypeOK, ReplaceTagBlocks
  PROVE  Permanents' = Permanent(draft)
  <1>1. draft \in Drafts /\ table' = Rows(draft)
    BY DEF TypeOK, ReplaceTagBlocks
  <1>2. QED  BY <1>1, RowsOfDraft DEF Permanents

LEMMA AccountStep ==
  ASSUME TypeOK, OneAtATime, AccountHeld, [Next]_vars
  PROVE  AccountHeld'
  <1> USE DEF outside, viewModel, locals, counters, history
  <1>1. ASSUME excused'
        PROVE  AccountHeld'
    BY <1>1 DEF AccountHeld
  <1>2. ASSUME UNCHANGED <<excused, pc, started, session, authenticatedAtLoad, page,
                           remote, draft, table, state>>
        PROVE  AccountHeld'
    BY <1>2 DEF AccountHeld, Permanents, Permanent, Who
  <1>3. ASSUME UNCHANGED <<excused, session, authenticatedAtLoad, remote, table>>,
               pc \in Settled, pc' \in Settled,
               state # "failed"
        PROVE  AccountHeld'
    BY <1>3 DEF AccountHeld, Permanents, Settled
  <1>4. CASE LoadStart
    BY <1>4 DEF LoadStart, AccountHeld, Settled
  <1>5. CASE LoadFilters
    BY <1>5 DEF LoadFilters, AccountHeld, Settled, Who
  <1>6. CASE LoadFails \/ Restart
    BY <1>6 DEF LoadFails, Restart, AccountHeld, Settled
  <1>7. CASE LoadMerge
    <2>1. CASE pc' = "storeLoaded"
      <3>1. session /\ Permanent(draft') = page
        BY <1>7, <2>1, Merged
      <3>2. UNCHANGED <<session, remote, excused>> /\ pc = "merge"
        BY <1>7 DEF LoadMerge
      <3>3. ~excused => page = remote["account"]
        BY <3>1, <3>2 DEF AccountHeld, Who
      <3>4. QED  BY <2>1, <3>1, <3>2, <3>3 DEF AccountHeld, Settled
    <2>2. CASE pc' # "storeLoaded"
      BY <1>7, <2>2 DEF LoadMerge, AccountHeld
    <2>3. QED  BY <2>1, <2>2
  <1>8. CASE StoreLoaded
    BY <1>8, StoredPermanents DEF StoreLoaded, ReplaceTagBlocks, AccountHeld, Settled
  <1>9. CASE Store
    <2>1. \/ pc = "storeLocal" /\ ~authenticatedAtLoad /\ pc' = "initialLocal"
          \/ pc = "storeSaved" /\ pc' = "initialSaved"
      BY <1>9 DEF Store, OneAtATime, LocalSteps
    <2>2. UNCHANGED <<excused, session, authenticatedAtLoad, remote, draft>>
          /\ Permanents' = Permanent(draft)
      BY <1>9, StoredPermanents DEF Store, ReplaceTagBlocks
    <2>3. QED  BY <2>1, <2>2 DEF AccountHeld, Settled
  <1>10. CASE LoadFinish
    BY <1>3, <1>10 DEF LoadFinish, Settled, OneAtATime, LoadSteps
  <1>11. CASE SaveCapture
    BY <1>11 DEF SaveCapture, AccountHeld, Permanents, Settled
  <1>12. CASE SavePost
    <2>1. /\ pc = "post" /\ pc' = "refresh" /\ authenticatedAtLoad /\ state # "failed"
          /\ UNCHANGED <<excused, session, draft>>
          /\ remote' = [remote EXCEPT ![Who] = Permanent(draft)]
      BY <1>12 DEF SavePost, OneAtATime, RemoteSteps, LoadSteps
    <2>2. ~excused => session
      BY <2>1 DEF AccountHeld, Settled
    <2>3. ~excused => remote'["account"] = Permanent(draft)
      BY <2>1, <2>2 DEF Who, TypeOK
    <2>4. Permanent(draft)' = Permanent(draft)
      BY <2>1 DEF Permanent
    <2>5. QED  BY <2>1, <2>2, <2>3, <2>4 DEF AccountHeld, Settled
  <1>13. CASE SaveRefresh
    <2>1. /\ pc = "refresh" /\ pc' = "storeSaved"
          /\ UNCHANGED <<excused, session, remote>>
          /\ draft' = Overlay(remote[Who], draft, MaxInstances + saves)
      BY <1>13 DEF SaveRefresh
    <2>2. remote[Who] \in SUBSET Tags /\ MaxInstances + saves \in Stamps
      BY ConstantsAssumption DEF TypeOK, Who, Stamps
    <2>3. Permanent(draft') = remote[Who]
      BY <2>1, <2>2, OverlayOfDraft DEF TypeOK
    <2>4. QED  BY <2>1, <2>3 DEF AccountHeld, Settled, Who
  <1>14. CASE SaveInitial
    <2>1. CASE pc = "initialLocal"
      BY <1>14, <2>1 DEF SaveInitial, AccountHeld, Settled
    <2>2. CASE pc = "initialSaved"
      BY <1>3, <1>14, <2>2 DEF SaveInitial, Settled, OneAtATime, LoadSteps
    <2>3. QED  BY <1>14, <2>1, <2>2 DEF SaveInitial
  <1>15. CASE SaveClean
    BY <1>15 DEF SaveClean, OneAtATime, LocalSteps, AccountHeld
  <1>16. CASE SaveBlocks \/ SaveDirty \/ SaveDone
    BY <1>3, <1>16 DEF SaveBlocks, SaveDirty, SaveDone, Settled, OneAtATime, LoadSteps
  <1>17. CASE SaveFails
    <2>1. CASE pc = "refresh"
      BY <1>1, <1>17, <2>1 DEF SaveFails
    <2>2. CASE pc = "post"
      <3>1. excused' = excused
        BY <1>17, <2>2 DEF SaveFails, TypeOK
      <3>2. QED  BY <1>3, <1>17, <2>2, <3>1 DEF SaveFails, Settled, OneAtATime, LoadSteps
    <2>3. QED  BY <1>17, <2>1, <2>2 DEF SaveFails
  <1>18. CASE RemoveExpiredTags
    <2>1. UNCHANGED <<excused, pc, started, session, authenticatedAtLoad, page,
                      remote, draft, state>>
      BY <1>18 DEF RemoveExpiredTags
    <2>2. QED  BY <1>18, <2>1, ExpiryIsTemporary DEF AccountHeld, Permanent, Who
  <1>19. CASE SessionChanges
    BY <1>1, <1>19 DEF SessionChanges
  <1>20. CASE Save
    BY <1>3, <1>20 DEF Save, Settled, OneAtATime, LoadSteps
  <1>21. ASSUME NEW blocks, SetDraft(blocks)
         PROVE  AccountHeld'
    BY <1>2, <1>21 DEF SetDraft
  <1>22. CASE User
    BY <1>20, <1>21, <1>22 DEF User, SaveTagBlock, RemoveTagBlock, DiscardChanges
  <1>23. CASE EditBlocks \/ EditDirty \/ Tick \/ UNCHANGED vars
    BY <1>2, <1>23 DEF EditBlocks, EditDirty, Tick, vars
  <1>24. QED
    BY <1>4, <1>5, <1>6, <1>7, <1>8, <1>9, <1>10, <1>11, <1>12, <1>13, <1>14, <1>15,
       <1>16, <1>17, <1>18, <1>19, <1>22, <1>23 DEF Next, Load, Saving

-----------------------------------------------------------------------------
Inductive == TypeOK /\ OneAtATime /\ Origin /\ LoadInHand /\ AccountHeld

LEMMA InductiveInit == Init => Inductive
  <1>1. ASSUME Init PROVE OneAtATime /\ Origin /\ LoadInHand /\ AccountHeld
    BY <1>1 DEF Init, NoEdit, OneAtATime, LoadSteps, RemoteSteps, LocalSteps, Origin,
         InHand, LoadInHand, AccountHeld, Settled
  <1>2. QED  BY <1>1, TypeInit DEF Inductive

LEMMA InductiveStep == Inductive /\ [Next]_vars => Inductive'
  BY TypeStep, OneStep, OriginStep, LoadInHandStep, AccountStep DEF Inductive

LEMMA InductiveHolds == Spec => []Inductive
  BY InductiveInit, InductiveStep, PTL DEF Spec

(* Discarding an edit goes back to what is stored: with nothing in flight, *)
(* the origin of the edits is the table, but for rows that expired.        *)
THEOREM OriginIsStored == Spec => []InitialIsTable
  <1>1. Inductive => InitialIsTable
    BY DEF Inductive, Origin, Agree, InHand, InitialIsTable
  <1>2. QED  BY <1>1, InductiveHolds, PTL

(* The permanent rows are the account's filters while the session of the   *)
(* load holds and no answer was lost.                                      *)
THEOREM AccountAgrees == Spec => []RemoteAgrees
  <1>1. Inductive => RemoteAgrees
    BY DEF Inductive, AccountHeld, Settled, Permanents, RemoteAgrees
  <1>2. QED  BY <1>1, InductiveHolds, PTL

(* The flag that keeps a second save out is set just while a save runs.    *)
THEOREM SavingIsRunning == Spec => []SavingHasSave
  <1>1. Inductive => SavingHasSave
    BY DEF Inductive, OneAtATime, LoadSteps, TypeOK, SavingHasSave
  <1>2. QED  BY <1>1, InductiveHolds, PTL

(* A load stores no anonymous page as the account's filters.               *)
THEOREM AnonymousKeptOut == Spec => AnonymousPageNotStored
  <1>1. Inductive /\ [Next]_vars =>
          [pc = "storeLoaded" /\ pc' = "finishLoad" => ~anonymousPage \/ relogged]_vars
    BY DEF Inductive, LoadInHand
  <1>2. QED  BY <1>1, InductiveHolds, PTL DEF Spec, AnonymousPageNotStored

(* A load of the account's filters removes no temporary block.             *)
THEOREM LoadKeepsTemporary == Spec => TemporarySurvivesLoad
  <1>1. ASSUME Inductive, [Next]_vars, pc = "storeLoaded", pc' = "finishLoad",
               NEW t \in Tags, table[t] \in 1 .. Last
        PROVE  table'[t] # None
    <2>1. draft[t] # None /\ draft \in Drafts
      BY <1>1 DEF Inductive, LoadInHand, TypeOK
    <2>2. table' = Rows(draft)
      <3>1. StoreLoaded
        BY <1>1 DEF Next, Load, LoadStart, LoadFilters, LoadMerge, LoadFinish, LoadFails,
             User, SaveTagBlock, RemoveTagBlock, DiscardChanges, SetDraft, Save, EditBlocks,
             EditDirty, Saving, SaveCapture, SavePost, SaveRefresh, Store, SaveInitial,
             SaveClean, SaveBlocks, SaveDirty, SaveDone, SaveFails, RemoveExpiredTags, Tick,
             SessionChanges, Restart, vars
      <3>2. QED  BY <3>1 DEF StoreLoaded, ReplaceTagBlocks
    <2>3. QED  BY <2>1, <2>2, RowsOfDraft
  <1>2. Inductive /\ [Next]_vars =>
          [pc = "storeLoaded" /\ pc' = "finishLoad" =>
              \A t \in Tags : table[t] \in 1 .. Last => table'[t] # None]_vars
    BY <1>1
  <1>3. QED  BY <1>2, InductiveHolds, PTL DEF Spec, TemporarySurvivesLoad
=============================================================================
