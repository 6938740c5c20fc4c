------------------------- MODULE AssetServingProofs -------------------------
(***************************************************************************)
(* Proofs about ReleaseWorker and AssetServing for any requests, readers,  *)
(* archives, paths and limits and any bound on the clock.                  *)
(*                                                                         *)
(* The argument about ReleaseWorker has three layers: types; the lock,     *)
(* which makes the handlers exclusive; and the order of the writes, which  *)
(* makes every published release whole and every pointer servable.         *)
(* Serving implements ReleaseWorker, whose invariants it therefore keeps;  *)
(* what readers were told is related to them, and what is stored to the    *)
(* validation of the archive that it came from.                            *)
(***************************************************************************)
EXTENDS AssetServing, FiniteSetTheorems, NaturalsInduction, WellFoundedInduction, TLAPS

-----------------------------------------------------------------------------
LEMMA TypeCorrectInit == ASSUME Init PROVE TypeOK
<1>1. 0 \in Stamps
  BY ConstantsAssumption DEF ConstantsAssumption, Stamps
<1>2. lock \in BOOLEAN /\ leaked \in BOOLEAN
  BY DEF Init
<1>3. module \in [Stamps -> [Modules -> Requests \cup {None}]]
  BY DEF Init
<1>4. /\ manifest \in [Stamps -> Requests \cup {None}]
      /\ current \in Stamps \cup {None}
      /\ used \in [Stamps -> SUBSET Requests]
      /\ clock \in Stamps
  BY <1>1 DEF Init
<1>5. /\ pc \in [Requests -> Steps]
      /\ kind \in [Requests -> {"publish", "rollback"}]
      /\ archive \in [Requests -> SUBSET Modules]
      /\ stamp \in [Requests -> Stamps]
      /\ inflight \in [Requests -> SUBSET Modules]
      /\ result \in [Requests -> {"none", "ok", "error"}]
  BY <1>1 DEF Init, Steps
<1> QED BY <1>2, <1>3, <1>4, <1>5 DEF TypeOK

LEMMA TypeCorrectStep == ASSUME TypeOK, [Next]_vars PROVE TypeOK'
<1> USE DEF TypeOK, Steps, Goto, Answer
<1>1. ASSUME NEW r \in Requests, NEW names \in SUBSET Modules, BeginPublish(r, names)
      PROVE  TypeOK'
  BY <1>1 DEF BeginPublish, store
<1>2. ASSUME NEW r \in Requests, NEW t \in Stamps, BeginRollback(r, t)
      PROVE  TypeOK'
  BY <1>2 DEF BeginRollback, store
<1>3. ASSUME NEW r \in Requests, HeadManifest(r) PROVE TypeOK'
  <2>1. CASE ReleaseExists(stamp[r])
    BY <1>3, <2>1 DEF HeadManifest, store, request
  <2>2. CASE ~ReleaseExists(stamp[r])
    BY <1>3, <2>2 DEF HeadManifest, store, request
  <2> QED BY <2>1, <2>2
<1>4. ASSUME NEW r \in Requests, Reserve(r) PROVE TypeOK'
  <2>1. CASE kind[r] = "publish"
    <3>1. used' = [used EXCEPT ![clock] = used[clock] \cup {r}]
      BY <1>4, <2>1 DEF Reserve
    <3>2. used' \in [Stamps -> SUBSET Requests]
      BY <3>1
    <3> QED BY <1>4, <2>1, <3>2 DEF Reserve, store, request
  <2>2. CASE kind[r] # "publish"
    BY <1>4, <2>2 DEF Reserve, store, request
  <2> QED BY <2>1, <2>2
<1>5. ASSUME NEW r \in Requests, Conflict(r) \/ Refuse(r) PROVE TypeOK'
  BY <1>5 DEF Conflict, Refuse, store, request
<1>6. ASSUME NEW r \in Requests, NEW m \in Modules, PutModule(r, m) PROVE TypeOK'
  <2>1. module' = [module EXCEPT ![stamp[r]] = [module[stamp[r]] EXCEPT ![m] = r]]
    BY <1>6 DEF PutModule
  <2>2. module' \in [Stamps -> [Modules -> Requests \cup {None}]]
    BY <2>1
  <2> QED BY <1>6, <2>2 DEF PutModule, request
<1>7. ASSUME NEW r \in Requests, NEW m \in Modules, FailModule(r, m) PROVE TypeOK'
  <2>1. CASE pc[r] = "modules"
    BY <1>7, <2>1 DEF FailModule, store, request
  <2>2. CASE pc[r] # "modules"
    BY <1>7, <2>2 DEF FailModule, store, request
  <2> QED BY <2>1, <2>2
<1>8. ASSUME NEW r \in Requests, AwaitModules(r) PROVE TypeOK'
  BY <1>8 DEF AwaitModules, store, request
<1>9. ASSUME NEW r \in Requests, PutManifest(r) PROVE TypeOK'
  BY <1>9 DEF PutManifest, request
<1>10. ASSUME NEW r \in Requests, PutCurrent(r) PROVE TypeOK'
  BY <1>10 DEF PutCurrent, store, request
<1>11. ASSUME NEW r \in Requests, FailPut(r) PROVE TypeOK'
  BY <1>11 DEF FailPut, request
<1>12. ASSUME NEW r \in Requests, Unlock(r) PROVE TypeOK'
  BY <1>12 DEF Unlock, store, request
<1>13. ASSUME NEW r \in Requests, FailUnlock(r) PROVE TypeOK'
  <2>1. lock' \in BOOLEAN /\ leaked' \in BOOLEAN
    BY <1>13, Zenon DEF FailUnlock
  <2> QED BY <1>13, <2>1 DEF FailUnlock, store, request
<1>14. ASSUME NEW r \in Requests, Evict(r) PROVE TypeOK'
  BY <1>14 DEF Evict, store, request
<1>17. ASSUME NEW r \in Requests, FailBefore(r) PROVE TypeOK'
  <2>1. lock' \in BOOLEAN /\ leaked' \in BOOLEAN
    BY <1>17, Zenon DEF FailBefore
  <2> QED BY <1>17, <2>1 DEF FailBefore, store, request
<1>15. CASE Tick
  <2>1. clock' \in Stamps
    BY <1>15, ConstantsAssumption DEF ConstantsAssumption, Tick, Stamps
  <2> QED BY <1>15, <2>1 DEF Tick, store, request
<1>16. CASE UNCHANGED vars
  BY <1>16 DEF vars, store, request
<1> QED
  BY <1>1, <1>2, <1>3, <1>4, <1>5, <1>6, <1>7, <1>8, <1>9, <1>10, <1>11,
     <1>12, <1>13, <1>14, <1>15, <1>16, <1>17 DEF Next, Step, Upload

(* The clock never leaves its bound and every variable keeps its type,     *)
(* whatever the requests, failures and evictions do.                       *)
THEOREM TypeCorrect == Spec => []TypeOK
  BY TypeCorrectInit, TypeCorrectStep, PTL DEF Spec

-----------------------------------------------------------------------------
(* Whoever holds the reservation, the lock object exists: it is deleted    *)
(* only in the finally block of the request that created it.               *)
HolderHasLock == \A r \in Requests : pc[r] \in Holding => lock

(* Serialized is not inductive by itself: a second Reserve is excluded by  *)
(* the lock object, not by the first request's program counter.            *)
Exclusive == HolderHasLock /\ Serialized

LEMMA ExclusiveStep ==
    ASSUME TypeOK, Exclusive, [Next]_vars
    PROVE  Exclusive'
<1> USE DEF Exclusive, HolderHasLock, Serialized, Holding, Goto
<1>0. pc \in [Requests -> Steps]
  BY DEF TypeOK
<1>1. ASSUME NEW r \in Requests, NEW names \in SUBSET Modules, BeginPublish(r, names)
      PROVE  Exclusive'
  BY <1>0, <1>1 DEF BeginPublish
<1>2. ASSUME NEW r \in Requests, NEW t \in Stamps, BeginRollback(r, t)
      PROVE  Exclusive'
  BY <1>0, <1>2 DEF BeginRollback
<1>3. ASSUME NEW r \in Requests, HeadManifest(r) PROVE Exclusive'
  BY <1>0, <1>3 DEF HeadManifest
<1>4. ASSUME NEW r \in Requests, Reserve(r) PROVE Exclusive'
  <2>1. \A s \in Requests : pc[s] \notin Holding
    BY <1>4 DEF Reserve, LockAvailable
  <2>2. \A s \in Requests : s # r => pc'[s] = pc[s]
    BY <1>0, <1>4 DEF Reserve
  <2> QED BY <1>4, <2>1, <2>2 DEF Reserve
<1>5. ASSUME NEW r \in Requests, Conflict(r) \/ Refuse(r) PROVE Exclusive'
  BY <1>0, <1>5 DEF Conflict, Refuse
<1>6. ASSUME NEW r \in Requests, NEW m \in Modules, PutModule(r, m) \/ FailModule(r, m)
      PROVE  Exclusive'
  BY <1>0, <1>6 DEF PutModule, FailModule
<1>7. ASSUME NEW r \in Requests, AwaitModules(r) PROVE Exclusive'
  BY <1>0, <1>7 DEF AwaitModules
<1>8. ASSUME NEW r \in Requests, PutManifest(r) PROVE Exclusive'
  BY <1>0, <1>8 DEF PutManifest
<1>9. ASSUME NEW r \in Requests, PutCurrent(r) \/ FailPut(r) PROVE Exclusive'
  BY <1>0, <1>9 DEF PutCurrent, FailPut
<1>10. ASSUME NEW r \in Requests, Unlock(r) \/ FailUnlock(r) PROVE Exclusive'
  <2>1. \A s \in Requests : pc'[s] \notin Holding
    BY <1>0, <1>10 DEF Unlock, FailUnlock
  <2> QED BY <2>1
<1>11. ASSUME NEW r \in Requests, Evict(r) \/ FailBefore(r) PROVE Exclusive'
  <2>1. lock => lock'
    BY <1>11 DEF Evict, FailBefore
  <2> QED BY <1>0, <1>11, <2>1 DEF Evict, FailBefore
<1>12. CASE Tick \/ UNCHANGED vars
  BY <1>12 DEF Tick, vars
<1> QED
  BY <1>1, <1>2, <1>3, <1>4, <1>5, <1>6, <1>7, <1>8, <1>9, <1>10, <1>11,
     <1>12 DEF Next, Step, Upload

(* At most one request per ABI is between its reservation and the end of   *)
(* its finally block, also when others conflict, fail or are evicted.      *)
THEOREM Serialization == Spec => []Serialized
<1>1. Init => Exclusive
  BY DEF Init, Exclusive, HolderHasLock, Serialized, Holding
<1>2. TypeOK /\ Exclusive /\ [Next]_vars => Exclusive'
  BY ExclusiveStep
<1>3. Exclusive => Serialized
  BY DEF Exclusive
<1> QED BY <1>1, <1>2, <1>3, TypeCorrect, PTL DEF Spec

-----------------------------------------------------------------------------
(* Steps that neither take nor give back the reservation.                  *)
Quiet ==
    /\ UNCHANGED <<lock, leaked>>
    /\ \A r \in Requests : pc'[r] \in Holding <=> pc[r] \in Holding

LEMMA QuietSteps ==
    ASSUME TypeOK, [Next]_vars
    PROVE  \/ Quiet
           \/ \E r \in Requests : Reserve(r) \/ Unlock(r) \/ FailUnlock(r) \/ FailBefore(r) \/ Evict(r)
<1> USE DEF Quiet, Holding, Goto
<1>0. pc \in [Requests -> Steps]
  BY DEF TypeOK
<1>1. ASSUME NEW r \in Requests, NEW names \in SUBSET Modules, BeginPublish(r, names)
      PROVE  Quiet
  BY <1>0, <1>1 DEF BeginPublish
<1>2. ASSUME NEW r \in Requests, NEW t \in Stamps, BeginRollback(r, t)
      PROVE  Quiet
  BY <1>0, <1>2 DEF BeginRollback
<1>3. ASSUME NEW r \in Requests, HeadManifest(r) \/ Conflict(r) \/ Refuse(r)
      PROVE  Quiet
  BY <1>0, <1>3 DEF HeadManifest, Conflict, Refuse
<1>4. ASSUME NEW r \in Requests, NEW m \in Modules, PutModule(r, m) \/ FailModule(r, m)
      PROVE  Quiet
  BY <1>0, <1>4 DEF PutModule, FailModule
<1>5. ASSUME NEW r \in Requests, AwaitModules(r) \/ PutManifest(r) \/ PutCurrent(r) \/ FailPut(r)
      PROVE  Quiet
  BY <1>0, <1>5 DEF AwaitModules, PutManifest, PutCurrent, FailPut
<1>6. CASE Tick \/ UNCHANGED vars
  BY <1>6 DEF Tick, vars
<1> QED
  BY <1>1, <1>2, <1>3, <1>4, <1>5, <1>6 DEF Next, Step, Upload

LEMMA LockStep ==
    ASSUME TypeOK, Exclusive, LockAccounted, [Next]_vars
    PROVE  LockAccounted'
<1> USE DEF LockAccounted
<1>0. pc \in [Requests -> Steps] /\ lock \in BOOLEAN /\ leaked \in BOOLEAN
  BY DEF TypeOK
<1>1. CASE Quiet
  BY <1>1 DEF Quiet
<1>2. ASSUME NEW r \in Requests, Reserve(r) PROVE LockAccounted'
  <2>1. ~leaked' /\ lock' /\ pc'[r] \in Holding
    BY <1>0, <1>2 DEF Reserve, LockAvailable, Goto, Holding
  <2> QED BY <2>1
<1>3. ASSUME NEW r \in Requests, Unlock(r) \/ FailUnlock(r) PROVE LockAccounted'
  (* Nobody else held the reservation, and nothing was left behind before. *)
  <2>1. ~leaked /\ \A s \in Requests : pc'[s] \notin Holding
    BY <1>0, <1>3 DEF Unlock, FailUnlock, Goto, Holding, Exclusive, Serialized
  <2>2. lock' = leaked'
    BY <1>0, <1>3, <2>1 DEF Unlock, FailUnlock
  <2> QED BY <1>0, <2>1, <2>2
<1>4. ASSUME NEW r \in Requests, FailBefore(r) PROVE LockAccounted'
  <2>1. \A s \in Requests : pc'[s] \in Holding <=> pc[s] \in Holding
    BY <1>0, <1>4 DEF FailBefore, Goto, Holding
  <2>2. CASE lock' = lock
    BY <1>0, <1>4, <2>1, <2>2 DEF FailBefore
  <2>3. CASE lock' # lock
    <3>1. ~lock /\ lock' /\ leaked'
      BY <1>0, <1>4, <2>3 DEF FailBefore
    <3> QED BY <2>1, <3>1
  <2> QED BY <2>2, <2>3
<1>5. ASSUME NEW r \in Requests, Evict(r) PROVE LockAccounted'
  <2>1. lock' /\ leaked' /\ \A s \in Requests : pc'[s] \notin Holding
    BY <1>0, <1>5 DEF Evict, Goto, Holding, Exclusive, Serialized
  <2> QED BY <2>1
<1> QED
  BY <1>1, <1>2, <1>3, <1>4, <1>5, QuietSteps

LEMMA LockInvariant == Spec => [](TypeOK /\ Exclusive /\ LockAccounted)
<1>1. Init => Exclusive /\ LockAccounted
  BY DEF Init, Exclusive, HolderHasLock, Serialized, Holding, LockAccounted
<1>2. TypeOK /\ Exclusive /\ LockAccounted /\ [Next]_vars => Exclusive' /\ LockAccounted'
  BY ExclusiveStep, LockStep
<1> QED BY <1>1, <1>2, TypeCorrect, PTL DEF Spec

(* The lock object always has one reason to be there: a live request that  *)
(* holds the reservation, or one that was lost while it did.               *)
THEOREM ReservationAccounted == Spec => []LockAccounted
  BY LockInvariant, PTL

(* Nothing removes a lost lock object, so nothing is published afterwards. *)
THEOREM LostReservationFreezes == Spec => LostLockFreezes
<1>1. TypeOK /\ Exclusive /\ LockAccounted /\ [Next]_vars =>
         (leaked => leaked' /\ lock' /\ UNCHANGED <<manifest, current>>)
  <2> SUFFICES ASSUME TypeOK, LockAccounted, [Next]_vars, leaked
               PROVE  leaked' /\ lock' /\ UNCHANGED <<manifest, current>>
    OBVIOUS
  <2>1. lock /\ \A r \in Requests : pc[r] \notin Holding
    BY DEF LockAccounted
  <2>2. leaked' /\ lock'
    <3>1. CASE Quiet
      BY <2>1, <3>1 DEF Quiet
    <3>2. ASSUME NEW r \in Requests, Reserve(r) \/ Unlock(r) \/ FailUnlock(r) \/ Evict(r)
          PROVE  FALSE
      BY <2>1, <3>2 DEF Reserve, LockAvailable, Unlock, FailUnlock, Evict, Holding
    <3>3. ASSUME NEW r \in Requests, FailBefore(r)
          PROVE  leaked' /\ lock'
      BY <2>1, <3>3 DEF FailBefore, TypeOK
    <3> QED BY <3>1, <3>2, <3>3, QuietSteps
  <2>3. ASSUME NEW r \in Requests, Step(r) PROVE UNCHANGED <<manifest, current>>
    BY <2>1, <2>3 DEF Step, HeadManifest, Reserve, Conflict, AwaitModules, PutManifest,
                      PutCurrent, FailPut, Unlock, Holding, store
  <2>4. ASSUME NEW r \in Requests,
               \/ \E names \in SUBSET Modules : BeginPublish(r, names)
               \/ \E t \in Stamps : BeginRollback(r, t)
               \/ Refuse(r) \/ Upload(r) \/ FailUnlock(r) \/ FailBefore(r) \/ Evict(r)
        PROVE  UNCHANGED <<manifest, current>>
    BY <2>4 DEF BeginPublish, BeginRollback, Refuse, Upload, PutModule, FailModule,
                FailUnlock, FailBefore, Evict, store
  <2>5. ASSUME Tick \/ UNCHANGED vars PROVE UNCHANGED <<manifest, current>>
    BY <2>5 DEF Tick, vars, store
  <2>6. UNCHANGED <<manifest, current>>
    BY <2>3, <2>4, <2>5 DEF Next
  <2> QED BY <2>2, <2>6
<1> QED BY <1>1, LockInvariant, PTL DEF Spec, LostLockFreezes

-----------------------------------------------------------------------------
LEMMA SuccessStep ==
    ASSUME TypeOK, Exclusive, SuccessIsActive, [Next]_vars
    PROVE  SuccessIsActive'
<1> USE DEF SuccessIsActive, Goto, Answer
<1>0. /\ pc \in [Requests -> Steps]
      /\ result \in [Requests -> {"none", "ok", "error"}]
      /\ stamp \in [Requests -> Stamps]
  BY DEF TypeOK
<1>1. ASSUME NEW r \in Requests, NEW names \in SUBSET Modules, BeginPublish(r, names)
      PROVE  SuccessIsActive'
  BY <1>0, <1>1 DEF BeginPublish
<1>2. ASSUME NEW r \in Requests, NEW t \in Stamps, BeginRollback(r, t)
      PROVE  SuccessIsActive'
  BY <1>0, <1>2 DEF BeginRollback
<1>3. ASSUME NEW r \in Requests, HeadManifest(r) PROVE SuccessIsActive'
  BY <1>0, <1>3 DEF HeadManifest
<1>4. ASSUME NEW r \in Requests, Reserve(r) PROVE SuccessIsActive'
  BY <1>0, <1>4 DEF Reserve
<1>5. ASSUME NEW r \in Requests, Conflict(r) \/ Refuse(r) PROVE SuccessIsActive'
  BY <1>0, <1>5 DEF Conflict, Refuse
<1>6. ASSUME NEW r \in Requests, NEW m \in Modules, PutModule(r, m) \/ FailModule(r, m)
      PROVE  SuccessIsActive'
  BY <1>0, <1>6 DEF PutModule, FailModule
<1>7. ASSUME NEW r \in Requests, AwaitModules(r) \/ PutManifest(r)
      PROVE  SuccessIsActive'
  BY <1>0, <1>7 DEF AwaitModules, PutManifest
<1>8. ASSUME NEW r \in Requests, PutCurrent(r) \/ FailPut(r) PROVE SuccessIsActive'
  (* Only the holder moves the pointer, so nobody else is about to answer. *)
  <2>1. \A s \in Requests : pc[s] = "unlock" => s = r
    BY <1>8 DEF PutCurrent, FailPut, Exclusive, Serialized, Holding
  <2>2. \A s \in Requests : s # r => pc'[s] = pc[s]
    BY <1>0, <1>8 DEF PutCurrent, FailPut
  <2>3. result'[r] = "ok" => current' = stamp'[r]
    BY <1>0, <1>8 DEF PutCurrent, FailPut
  <2> QED BY <2>1, <2>2, <2>3
<1>9. ASSUME NEW r \in Requests, Unlock(r) \/ FailUnlock(r) \/ FailBefore(r) \/ Evict(r)
      PROVE  SuccessIsActive'
  BY <1>0, <1>9 DEF Unlock, FailUnlock, FailBefore, Evict
<1>10. CASE Tick \/ UNCHANGED vars
  BY <1>10 DEF Tick, vars
<1> QED
  BY <1>1, <1>2, <1>3, <1>4, <1>5, <1>6, <1>7, <1>8, <1>9, <1>10
  DEF Next, Step, Upload

(* The release named in a successful answer is the active one until the    *)
(* request gives its reservation back.                                     *)
THEOREM SuccessNamesTheActive == Spec => []SuccessIsActive
<1>1. Init => Exclusive /\ SuccessIsActive
  BY DEF Init, Exclusive, HolderHasLock, Serialized, Holding, SuccessIsActive
<1>2. TypeOK /\ Exclusive /\ SuccessIsActive /\ [Next]_vars
          => Exclusive' /\ SuccessIsActive'
  BY ExclusiveStep, SuccessStep
<1> QED BY <1>1, <1>2, TypeCorrect, PTL DEF Spec

-----------------------------------------------------------------------------
(***************************************************************************)
(* The order of the writes.  R2 objects are never deleted, so what has     *)
(* been uploaded stays; the parts below say who uploaded it and what each  *)
(* step of a handler has behind it.                                        *)
(***************************************************************************)

(* Objects under a timestamp come from the requests that took it, and      *)
(* those are past their reservation for good.                              *)
Provenance ==
    /\ \A t \in Stamps, m \in Modules : module[t][m] \in used[t] \cup {None}
    /\ \A t \in Stamps : manifest[t] \in used[t] \cup {None}
    /\ \A t \in Stamps : \A r \in used[t] : pc[r] \notin {"idle", "head", "reserve"}

(* An upload under way goes to a timestamp its request took.               *)
UploadsAtStamp ==
    \A r \in Requests :
        pc[r] \in {"modules", "manifest"} \/ inflight[r] # {}
            => r \in used[stamp[r]]

(* Before the manifest is put, every module has landed or is on its way,   *)
(* and none is on its way any more when the put is made.                   *)
ModulesFirst ==
    \A r \in Requests : \A m \in archive[r] :
        /\ pc[r] = "modules" => m \in inflight[r] \/ module[stamp[r]][m] # None
        /\ pc[r] = "manifest" => module[stamp[r]][m] # None

ManifestLast ==
    \A t \in Stamps : manifest[t] # None =>
        \A m \in archive[manifest[t]] : module[t][m] # None

(* The pointer moves to a timestamp whose manifest was put or looked up.   *)
PointerLast ==
    /\ \A r \in Requests :
          pc[r] = "activate" \/ (pc[r] = "reserve" /\ kind[r] = "rollback")
              => manifest[stamp[r]] # None
    /\ current # None => manifest[current] # None

WriteOrder ==
    Provenance /\ UploadsAtStamp /\ ModulesFirst /\ ManifestLast /\ PointerLast

LEMMA WriteOrderInit == Init => WriteOrder
  BY DEF Init, WriteOrder, Provenance, UploadsAtStamp, ModulesFirst,
         ManifestLast, PointerLast

LEMMA WriteOrderStep ==
    ASSUME TypeOK, WriteOrder, [Next]_vars
    PROVE  WriteOrder'
<1> USE DEF Goto, Answer
<1>0. /\ pc \in [Requests -> Steps]
      /\ kind \in [Requests -> {"publish", "rollback"}]
      /\ archive \in [Requests -> SUBSET Modules]
      /\ stamp \in [Requests -> Stamps]
      /\ inflight \in [Requests -> SUBSET Modules]
      /\ module \in [Stamps -> [Modules -> Requests \cup {None}]]
      /\ manifest \in [Stamps -> Requests \cup {None}]
      /\ used \in [Stamps -> SUBSET Requests]
      /\ current \in Stamps \cup {None}
      /\ clock \in Stamps
  BY DEF TypeOK
<1>n. None \notin Requests
  BY ConstantsAssumption DEF ConstantsAssumption
<1> USE <1>0, <1>n
    DEF WriteOrder, Provenance, UploadsAtStamp, ModulesFirst, ManifestLast, PointerLast
<1>1. ASSUME NEW r \in Requests, NEW names \in SUBSET Modules, BeginPublish(r, names)
      PROVE  WriteOrder'
  BY <1>1 DEF BeginPublish, store
<1>2. ASSUME NEW r \in Requests, NEW t \in Stamps, BeginRollback(r, t)
      PROVE  WriteOrder'
  BY <1>2 DEF BeginRollback, store
<1>3. ASSUME NEW r \in Requests, HeadManifest(r) PROVE WriteOrder'
  BY <1>3 DEF HeadManifest, ReleaseExists, store, request
<1>4. ASSUME NEW r \in Requests, Reserve(r) PROVE WriteOrder'
  <2>1. CASE kind[r] = "publish"
    <3>1. /\ pc' = [pc EXCEPT ![r] = "modules"]
          /\ stamp' = [stamp EXCEPT ![r] = clock]
          /\ used' = [used EXCEPT ![clock] = used[clock] \cup {r}]
          /\ inflight' = [inflight EXCEPT ![r] = archive[r]]
          /\ UNCHANGED <<manifest, module, current, kind, archive>>
      BY <1>4, <2>1 DEF Reserve, store, request
    <3>2. /\ \A t \in Stamps : used'[t] = used[t] \/ used'[t] = used[t] \cup {r}
          /\ r \in used'[clock]
      BY <3>1
    <3>3. Provenance'
      BY <3>1, <3>2
    <3>4. UploadsAtStamp' /\ ModulesFirst'
      BY <1>4, <3>1, <3>2 DEF Reserve
    <3>5. ManifestLast' /\ PointerLast'
      BY <3>1
    <3> QED BY <3>3, <3>4, <3>5
  <2>2. CASE kind[r] # "publish"
    BY <1>4, <2>2 DEF Reserve, store, request
  <2> QED BY <2>1, <2>2
<1>5. ASSUME NEW r \in Requests, Conflict(r) \/ Refuse(r) \/ FailBefore(r) \/ Evict(r)
      PROVE  WriteOrder'
  <2>1. /\ pc' = [pc EXCEPT ![r] = "done"]
        /\ UNCHANGED <<manifest, module, current, kind, archive, stamp, inflight, used>>
    BY <1>5 DEF Conflict, Refuse, FailBefore, Evict, store, request
  <2> QED BY <2>1
<1>6. ASSUME NEW r \in Requests, NEW m \in Modules, PutModule(r, m)
      PROVE  WriteOrder'
  BY <1>6 DEF PutModule, request
<1>7. ASSUME NEW r \in Requests, NEW m \in Modules, FailModule(r, m)
      PROVE  WriteOrder'
  BY <1>7 DEF FailModule, store, request
<1>8. ASSUME NEW r \in Requests, AwaitModules(r) PROVE WriteOrder'
  BY <1>8 DEF AwaitModules, ModulesUploaded, store, request
<1>9. ASSUME NEW r \in Requests, PutManifest(r) PROVE WriteOrder'
  BY <1>9 DEF PutManifest, request
<1>10. ASSUME NEW r \in Requests, PutCurrent(r) PROVE WriteOrder'
  BY <1>10 DEF PutCurrent, store, request
<1>11. ASSUME NEW r \in Requests, FailPut(r) PROVE WriteOrder'
  <2>1. CASE UNCHANGED <<manifest, current>>
    BY <1>11, <2>1 DEF FailPut, request
  <2>2. CASE /\ pc[r] = "manifest"
             /\ manifest' = [manifest EXCEPT ![stamp[r]] = r]
             /\ UNCHANGED current
    BY <1>11, <2>2 DEF FailPut, request
  <2>3. CASE /\ pc[r] = "activate"
             /\ current' = stamp[r]
             /\ UNCHANGED manifest
    BY <1>11, <2>3 DEF FailPut, request
  <2> QED BY <1>11, <2>1, <2>2, <2>3 DEF FailPut
<1>12. ASSUME NEW r \in Requests, Unlock(r) \/ FailUnlock(r) PROVE WriteOrder'
  <2>1. /\ pc' = [pc EXCEPT ![r] = "done"]
        /\ UNCHANGED <<manifest, module, current, kind, archive, stamp, inflight, used>>
    BY <1>12 DEF Unlock, FailUnlock, store, request
  <2> QED BY <2>1
<1>13. CASE Tick \/ UNCHANGED vars
  BY <1>13 DEF Tick, vars, store, request
<1> QED
  BY <1>1, <1>2, <1>3, <1>4, <1>5, <1>6, <1>7, <1>8, <1>9, <1>10, <1>11,
     <1>12, <1>13 DEF Next, Step, Upload

(* The active release can be served: its manifest and every module of that *)
(* archive are in R2, whatever failed or was evicted on the way.           *)
THEOREM ActiveReleaseServable == Spec => []CurrentServable
<1>1. TypeOK /\ WriteOrder /\ [Next]_vars => WriteOrder'
  BY WriteOrderStep
<1>2. TypeOK /\ WriteOrder => CurrentServable
  BY DEF TypeOK, WriteOrder, ManifestLast, PointerLast, CurrentServable
<1> QED BY <1>1, <1>2, WriteOrderInit, TypeCorrect, PTL DEF Spec

(* A release whose timestamp one request took holds that request's archive *)
(* and nothing else, although uploads of failed requests land later.       *)
THEOREM ReleasesAreWhole == Spec => []ReleaseIsWhole
<1>1. TypeOK /\ WriteOrder /\ [Next]_vars => WriteOrder'
  BY WriteOrderStep
<1>2. TypeOK /\ WriteOrder => ReleaseIsWhole
  <2> SUFFICES ASSUME TypeOK, WriteOrder, NEW t \in Stamps, NEW r \in Requests,
                      used[t] = {r}, manifest[t] # None
               PROVE  manifest[t] = r /\ \A m \in archive[r] : module[t][m] = r
    BY DEF ReleaseIsWhole
  <2>1. manifest[t] = r
    BY DEF WriteOrder, Provenance
  <2>2. \A m \in archive[r] : m \in Modules /\ module[t][m] # None
    BY <2>1 DEF TypeOK, WriteOrder, ManifestLast
  <2> QED BY <2>1, <2>2 DEF WriteOrder, Provenance
<1> QED BY <1>1, <1>2, WriteOrderInit, TypeCorrect, PTL DEF Spec


-----------------------------------------------------------------------------
(***************************************************************************)
(* The contract.  A step of a handler is a step of ReleaseContract or      *)
(* leaves what clients see alone: an upload that lands late in a published *)
(* release brings the bytes that are there, unless two requests share the  *)
(* timestamp.                                                              *)
(***************************************************************************)

(* A request that is about to take a timestamp publishes some module; one  *)
(* that looks a manifest up is a rollback.                                 *)
Submitted ==
  \A r \in Requests :
      /\ pc[r] = "head" => kind[r] = "rollback"
      /\ pc[r] = "reserve" /\ kind[r] = "publish" => archive[r] # {}

LEMMA SubmittedStep ==
  ASSUME TypeOK, Submitted, [Next]_vars
  PROVE  Submitted'
<1>0. pc \in [Requests -> Steps] /\ kind \in [Requests -> {"publish", "rollback"}]
      /\ archive \in [Requests -> SUBSET Modules]
  BY DEF TypeOK
<1>1. ASSUME NEW r \in Requests, NEW names \in SUBSET Modules, BeginPublish(r, names)
      PROVE  Submitted'
  BY <1>0, <1>1 DEF BeginPublish, Goto, Submitted
<1>2. ASSUME NEW r \in Requests, NEW t \in Stamps, BeginRollback(r, t)
      PROVE  Submitted'
  BY <1>0, <1>2 DEF BeginRollback, Goto, Submitted
<1>3. ASSUME UNCHANGED <<kind, archive>>,
             \A s \in Requests : \/ pc'[s] \notin {"head", "reserve"}
                                 \/ pc'[s] = pc[s]
                                 \/ pc'[s] = "reserve" /\ pc[s] = "head"
      PROVE  Submitted'
  BY <1>0, <1>3 DEF Submitted
<1>4. ASSUME NEW r \in Requests,
             \/ Refuse(r) \/ Conflict(r) \/ AwaitModules(r) \/ PutManifest(r) \/ PutCurrent(r)
             \/ FailPut(r) \/ Unlock(r) \/ FailUnlock(r) \/ FailBefore(r) \/ Evict(r)
             \/ Reserve(r) \/ HeadManifest(r)
             \/ \E m \in Modules : PutModule(r, m) \/ FailModule(r, m)
      PROVE  /\ UNCHANGED <<kind, archive>>
             /\ \A s \in Requests : \/ pc'[s] \notin {"head", "reserve"}
                                    \/ pc'[s] = pc[s]
                                    \/ pc'[s] = "reserve" /\ pc[s] = "head"
  BY <1>0, <1>4
  DEF Refuse, Conflict, AwaitModules, PutManifest, PutCurrent, FailPut, Unlock, FailUnlock,
      FailBefore, Evict, Reserve, HeadManifest, PutModule, FailModule, Goto, request
<1>5. CASE Tick \/ UNCHANGED vars
  <2>1. UNCHANGED <<kind, archive, pc>>
    BY <1>5 DEF Tick, vars, request
  <2>2. \A s \in Requests : pc'[s] = pc[s]
    BY <2>1
  <2>. QED
    BY <1>3, <2>1, <2>2
<1>. QED
  BY <1>1, <1>2, <1>3, <1>4, <1>5 DEF Next, Step, Upload

(* What a client finds comes from requests that took the timestamp.        *)
LEMMA ContentOf ==
  ASSUME TypeOK, WriteOrder, NEW t \in Stamps
  PROVE  /\ manifest[t] # None =>
              /\ manifest[t] \in used[t]
              /\ content[t] = [m \in archive[manifest[t]] |-> module[t][m]]
              /\ content[t] \in [archive[manifest[t]] -> used[t]]
         /\ manifest[t] = None => content[t] = [m \in {} |-> None]
<1>1. CASE manifest[t] # None
  <2>1. manifest[t] \in used[t] /\ used[t] \subseteq Requests
    BY <1>1 DEF WriteOrder, Provenance, TypeOK
  <2>2. content[t] = [m \in archive[manifest[t]] |-> module[t][m]]
    BY <1>1 DEF content
  <2>3. \A m \in archive[manifest[t]] : m \in Modules /\ module[t][m] \in used[t]
    BY <1>1, <2>1 DEF TypeOK, WriteOrder, Provenance, ManifestLast
  <2>. QED
    BY <1>1, <2>1, <2>2, <2>3
<1>2. CASE manifest[t] = None
  BY <1>2 DEF content
<1>. QED
  BY <1>1, <1>2

(* Below a timestamp that one request took, all bytes are that request's.  *)
LEMMA SoleContent ==
  ASSUME TypeOK, WriteOrder, NEW t \in Stamps, NEW r, used[t] = {r}, manifest[t] # None
  PROVE  manifest[t] = r /\ content[t] = [m \in archive[r] |-> r]
<1>1. manifest[t] = r /\ content[t] \in [archive[r] -> {r}]
  BY ContentOf
<1>. QED
  BY <1>1

(* A put below a timestamp publishes what is there, or changes nothing.    *)
LEMMA PutPublishes ==
  ASSUME TypeOK, TypeOK', WriteOrder, WriteOrder', NEW t \in Stamps,
         UNCHANGED <<archive, used, current>>,
         manifest' = [manifest EXCEPT ![t] = manifest'[t]],
         module' = [module EXCEPT ![t] = module'[t]],
         manifest[t] # None => manifest'[t] # None
  PROVE  Contract!Next \/ UNCHANGED Contract!vars
<1>1. \A u \in Stamps : u # t => manifest'[u] = manifest[u] /\ module'[u] = module[u]
  BY DEF TypeOK
<1>2. content' = [content EXCEPT ![t] = content'[t]]
  <2>1. \A u \in Stamps : u # t => content'[u] = content[u]
    BY <1>1 DEF content
  <2>2. DOMAIN content = Stamps /\ content' = [u \in Stamps |-> content'[u]]
    BY DEF content
  <2>3. content = [u \in Stamps |-> content[u]]
    BY DEF content
  <2>. QED
    BY <2>1, <2>2, <2>3
<1>u. ASSUME content'[t] = content[t], manifest'[t] = manifest[t]
      PROVE  UNCHANGED Contract!vars
  <2>1. content' = content
    <3>1. content = [u \in Stamps |-> content[u]]
      BY DEF content
    <3>. QED
      BY <1>2, <1>u, <3>1
  <2>2. manifest' = manifest
    BY <1>u DEF TypeOK
  <2>. QED
    BY <2>1, <2>2 DEF Contract!vars
<1>3. CASE manifest'[t] = None
  <2>1. manifest[t] = None
    BY <1>3
  <2>2. content'[t] = content[t]
    BY <1>3, <2>1 DEF content
  <2>. QED
    BY <1>3, <1>u, <2>1, <2>2
<1>4. CASE manifest'[t] # None
  <2>. DEFINE r == manifest'[t]
  <2>1. r \in used[t] /\ r \in Requests /\ content'[t] \in [archive[r] -> used[t]]
    <3>1. r \in used[t] /\ used[t] \subseteq Requests
      BY <1>4 DEF WriteOrder, Provenance, TypeOK
    <3>2. content'[t] = [m \in archive[r] |-> module'[t][m]]
      BY <1>4 DEF content
    <3>3. \A m \in archive[r] : m \in Modules /\ module'[t][m] \in used[t]
      BY <1>4, <3>1 DEF TypeOK, WriteOrder, Provenance, ManifestLast
    <3>. QED
      BY <3>1, <3>2, <3>3
  <2>2. CASE used[t] = {r} /\ manifest[t] # None
    <3>1. manifest[t] = r /\ content[t] = [m \in archive[r] |-> r]
      BY <2>2, SoleContent
    <3>2. content'[t] = [m \in archive[r] |-> r]
      BY <2>1, <2>2
    <3>. QED
      BY <1>u, <3>1, <3>2
  <2>3. CASE ~(used[t] = {r} /\ manifest[t] # None)
    <3>1. Contract!Publish(r, t)
      BY <1>2, <2>1, <2>3 DEF Contract!Publish
    <3>. QED
      BY <2>1, <3>1 DEF Contract!Next
  <2>. QED
    BY <2>2, <2>3
<1>. QED
  BY <1>3, <1>4

LEMMA ReleaseSimulation ==
  ASSUME TypeOK, TypeOK', WriteOrder, WriteOrder', Submitted, [Next]_vars
  PROVE  [Contract!Next]_(Contract!vars)
<1>0. /\ pc \in [Requests -> Steps]
      /\ stamp \in [Requests -> Stamps]
      /\ inflight \in [Requests -> SUBSET Modules]
      /\ module \in [Stamps -> [Modules -> Requests \cup {None}]]
      /\ manifest \in [Stamps -> Requests \cup {None}]
      /\ used \in [Stamps -> SUBSET Requests]
      /\ archive \in [Requests -> SUBSET Modules]
      /\ clock \in Stamps /\ None \notin Requests
  BY ConstantsAssumption DEF ConstantsAssumption, TypeOK
<1>1. ASSUME UNCHANGED <<archive, used, manifest, module, current>>
      PROVE  UNCHANGED Contract!vars
  <2>1. content' = content
    BY <1>1 DEF content
  <2>. QED
    BY <1>1, <2>1 DEF Contract!vars
<1>2. ASSUME NEW r \in Requests, NEW names \in SUBSET Modules, BeginPublish(r, names)
      PROVE  Contract!Next
  <2>1. pc[r] = "idle" /\ names # {} /\ archive' = [archive EXCEPT ![r] = names]
        /\ UNCHANGED <<manifest, module, used, current>>
    BY <1>2 DEF BeginPublish, store
  <2>2. \A t \in Stamps : r \notin used[t]
    BY <1>0, <2>1 DEF WriteOrder, Provenance
  <2>3. \A t \in Stamps : manifest[t] # None => manifest[t] \in Requests /\ manifest[t] # r
    BY <1>0, <2>2 DEF WriteOrder, Provenance
  <2>4. content' = content
    BY <1>0, <2>1, <2>3 DEF content
  <2>5. Contract!Submit(r, names)
    BY <2>1, <2>2, <2>4 DEF Contract!Submit, Contract!Fresh
  <2>. QED
    BY <2>5 DEF Contract!Next
<1>3. ASSUME NEW r \in Requests, Reserve(r)
      PROVE  Contract!Next \/ UNCHANGED Contract!vars
  <2>1. CASE kind[r] = "publish"
    <3>1. /\ pc[r] = "reserve" /\ used' = [used EXCEPT ![clock] = used[clock] \cup {r}]
          /\ UNCHANGED <<archive, manifest, module, current>>
      BY <1>3, <2>1 DEF Reserve, store, request
    <3>2. archive[r] # {} /\ \A t \in Stamps : r \notin used[t]
      BY <1>0, <2>1, <3>1 DEF Submitted, WriteOrder, Provenance
    <3>3. content' = content
      BY <3>1 DEF content
    <3>4. Contract!Take(r, clock)
      BY <3>1, <3>2, <3>3 DEF Contract!Take, Contract!Fresh
    <3>. QED
      BY <1>0, <3>4 DEF Contract!Next
  <2>2. CASE kind[r] # "publish"
    BY <1>1, <1>3, <2>2 DEF Reserve, store, request
  <2>. QED
    BY <2>1, <2>2
<1>4. ASSUME NEW r \in Requests, NEW m \in Modules, PutModule(r, m)
      PROVE  Contract!Next \/ UNCHANGED Contract!vars
  <2>. DEFINE t == stamp[r]
  <2>1. /\ t \in Stamps /\ module' = [module EXCEPT ![t] = [module[t] EXCEPT ![m] = r]]
        /\ UNCHANGED <<archive, used, manifest, current>>
    BY <1>0, <1>4 DEF PutModule, request
  <2>2. module' = [module EXCEPT ![t] = module'[t]]
    BY <1>0, <2>1
  <2>3. manifest' = [manifest EXCEPT ![t] = manifest'[t]]
    BY <1>0, <2>1
  <2>4. manifest[t] # None => manifest'[t] # None
    BY <2>1
  <2>. HIDE DEF t
  <2>. QED
    BY <2>1, <2>2, <2>3, <2>4, PutPublishes
<1>5. ASSUME NEW r \in Requests,
             pc[r] = "manifest", manifest' = [manifest EXCEPT ![stamp[r]] = r],
             UNCHANGED <<archive, used, module, current>>
      PROVE  Contract!Next \/ UNCHANGED Contract!vars
  <2>. DEFINE t == stamp[r]
  <2>1. t \in Stamps /\ manifest'[t] = r /\ r # None
    BY <1>0, <1>5
  <2>2. manifest' = [manifest EXCEPT ![t] = manifest'[t]]
    BY <1>0, <1>5, <2>1
  <2>3. module' = [module EXCEPT ![t] = module'[t]]
    BY <1>0, <1>5
  <2>. HIDE DEF t
  <2>. QED
    BY <1>5, <2>1, <2>2, <2>3, PutPublishes
<1>6. ASSUME NEW r \in Requests,
             pc[r] = "activate", current' = stamp[r],
             UNCHANGED <<archive, used, manifest, module>>
      PROVE  Contract!Next
  <2>1. stamp[r] \in Stamps /\ manifest[stamp[r]] # None
    BY <1>0, <1>6 DEF WriteOrder, PointerLast
  <2>2. content' = content
    BY <1>6 DEF content
  <2>3. Contract!Activate(stamp[r])
    BY <1>6, <2>1, <2>2 DEF Contract!Activate
  <2>. QED
    BY <2>1, <2>3 DEF Contract!Next
<1>7. ASSUME NEW r \in Requests, PutManifest(r) \/ PutCurrent(r) \/ FailPut(r)
      PROVE  Contract!Next \/ UNCHANGED Contract!vars
  <2>1. CASE PutManifest(r)
    BY <1>5, <2>1 DEF PutManifest, request
  <2>2. CASE PutCurrent(r)
    BY <1>6, <2>2 DEF PutCurrent, store, request
  <2>3. CASE FailPut(r)
    <3>1. UNCHANGED <<archive, used, module>>
      BY <2>3 DEF FailPut, request
    <3>2. CASE UNCHANGED <<manifest, current>>
      BY <1>1, <3>1, <3>2
    <3>3. CASE pc[r] = "manifest" /\ manifest' = [manifest EXCEPT ![stamp[r]] = r] /\ UNCHANGED current
      BY <1>5, <3>1, <3>3
    <3>4. CASE pc[r] = "activate" /\ current' = stamp[r] /\ UNCHANGED manifest
      BY <1>6, <3>1, <3>4
    <3>. QED
      BY <2>3, <3>2, <3>3, <3>4 DEF FailPut
  <2>. QED
    BY <1>7, <2>1, <2>2, <2>3
<1>8. ASSUME NEW r \in Requests,
             \/ \E t \in Stamps : BeginRollback(r, t)
             \/ Refuse(r) \/ HeadManifest(r) \/ Conflict(r) \/ AwaitModules(r)
             \/ Unlock(r) \/ FailUnlock(r) \/ FailBefore(r) \/ Evict(r)
             \/ \E m \in Modules : FailModule(r, m)
      PROVE  UNCHANGED Contract!vars
  <2>1. UNCHANGED <<archive, used, manifest, module, current>>
    BY <1>8 DEF BeginRollback, Refuse, HeadManifest, Conflict, AwaitModules, Unlock,
                FailUnlock, FailBefore, Evict, FailModule, store, request
  <2>. QED
    BY <1>1, <2>1
<1>9. CASE Tick \/ UNCHANGED vars
  BY <1>1, <1>9 DEF Tick, vars, store, request
<1>. QED
  BY <1>2, <1>3, <1>4, <1>7, <1>8, <1>9 DEF Next, Step, Upload

LEMMA ReleaseInvariant == Spec => [](TypeOK /\ WriteOrder /\ Submitted)
<1>1. Init => WriteOrder /\ Submitted
  BY WriteOrderInit DEF Init, Submitted
<1>2. TypeOK /\ WriteOrder /\ Submitted /\ [Next]_vars => WriteOrder' /\ Submitted'
  BY WriteOrderStep, SubmittedStep
<1>. QED
  BY <1>1, <1>2, TypeCorrect, PTL DEF Spec

(* The handlers of the Worker, with their failing calls, evictions, late   *)
(* uploads and overlapping requests, implement ReleaseContract.            *)
THEOREM WorkerKeepsReleaseContract == Spec => KeepsReleaseContract
<1>1. Init => Contract!Init
  <2> SUFFICES ASSUME Init PROVE Contract!Init
    OBVIOUS
  <2>1. content = [t \in Stamps |-> [m \in {} |-> None]]
    <3>1. content = [t \in Stamps |-> [m \in {} |-> module[t][m]]]
      BY DEF Init, content
    <3>2. \A t \in Stamps : [m \in {} |-> module[t][m]] = [m \in {} |-> None]
      OBVIOUS
    <3>. QED
      BY <3>1, <3>2
  <2>. QED
    BY <2>1 DEF Init, Contract!Init
<1>2. /\ TypeOK /\ WriteOrder /\ Submitted /\ [Next]_vars
      /\ TypeOK' /\ WriteOrder'
      => [Contract!Next]_(Contract!vars)
  BY ReleaseSimulation
<1>. QED
  BY <1>1, <1>2, ReleaseInvariant, PTL DEF Spec, KeepsReleaseContract, Contract!Spec

(* What the contract alone keeps true of the releases.                     *)
Kept ==
  /\ DOMAIN archive = Requests /\ DOMAIN used = Stamps
  /\ DOMAIN manifest = Stamps /\ DOMAIN content = Stamps
  /\ \A t \in Stamps : manifest[t] # None =>
        /\ manifest[t] \in used[t]
        /\ DOMAIN content[t] = archive[manifest[t]]
  /\ \A t \in Stamps : \A r \in used[t] : archive[r] # {}
  /\ current # None => current \in Stamps /\ manifest[current] # None

ImmutableStep ==
  \A t \in Stamps : manifest[t] # None /\ used'[t] = {manifest[t]} =>
      manifest'[t] = manifest[t] /\ content'[t] = content[t]

LEMMA ContractStep ==
  ASSUME Kept, [Contract!Next]_(Contract!vars)
  PROVE  Kept' /\ ImmutableStep
<1>0. None \notin Requests
  BY ConstantsAssumption DEF ConstantsAssumption
<1>1. ASSUME NEW r \in Requests, NEW names \in SUBSET Modules, Contract!Submit(r, names)
      PROVE  Kept' /\ ImmutableStep
  BY <1>0, <1>1 DEF Contract!Submit, Contract!Fresh, Kept, ImmutableStep
<1>2. ASSUME NEW r \in Requests, NEW t \in Stamps, Contract!Take(r, t)
      PROVE  Kept' /\ ImmutableStep
  <2>1. /\ \A u \in Stamps : used'[u] = IF u = t THEN used[t] \cup {r} ELSE used[u]
        /\ DOMAIN used' = Stamps /\ archive[r] # {}
        /\ UNCHANGED <<archive, manifest, content, current>>
    BY <1>2 DEF Contract!Take, Kept
  <2>. QED
    BY <2>1 DEF Kept, ImmutableStep
<1>3. ASSUME NEW r \in Requests, NEW t \in Stamps, Contract!Publish(r, t)
      PROVE  Kept' /\ ImmutableStep
  <2>1. PICK files \in [archive[r] -> used[t]] : content' = [content EXCEPT ![t] = files]
    BY <1>3 DEF Contract!Publish
  <2>2. /\ r \in used[t] /\ manifest' = [manifest EXCEPT ![t] = r]
        /\ used[t] = {r} => manifest[t] = None
        /\ UNCHANGED <<archive, used, current>>
    BY <1>3 DEF Contract!Publish
  <2>3. /\ DOMAIN manifest' = Stamps /\ manifest'[t] = r
        /\ DOMAIN content' = Stamps /\ DOMAIN content'[t] = archive[r]
        /\ \A u \in Stamps : u # t => manifest'[u] = manifest[u] /\ content'[u] = content[u]
    BY <2>1, <2>2 DEF Kept
  <2>4. Kept'
    BY <1>0, <2>2, <2>3 DEF Kept
  <2>5. ImmutableStep
    BY <2>2, <2>3 DEF ImmutableStep
  <2>. QED
    BY <2>4, <2>5
<1>4. ASSUME NEW t \in Stamps, Contract!Activate(t)
      PROVE  Kept' /\ ImmutableStep
  BY <1>4 DEF Contract!Activate, Kept, ImmutableStep
<1>5. CASE UNCHANGED Contract!vars
  BY <1>5 DEF Contract!vars, Kept, ImmutableStep
<1>. QED
  BY <1>1, <1>2, <1>3, <1>4, <1>5 DEF Contract!Next

LEMMA ContractInvariant == Contract!Spec => []Kept
<1>1. Contract!Init => Kept
  BY DEF Contract!Init, Kept
<1>2. Kept /\ [Contract!Next]_(Contract!vars) => Kept'
  BY ContractStep
<1>. QED
  BY <1>1, <1>2, PTL DEF Contract!Spec

(* By the contract, the release clients are sent to is complete.           *)
THEOREM ActiveReleaseComplete == Spec => []Contract!ActiveIsComplete
<1>1. Kept => Contract!ActiveIsComplete
  BY DEF Kept, Contract!ActiveIsComplete
<1>. QED
  BY <1>1, ContractInvariant, WorkerKeepsReleaseContract, PTL DEF KeepsReleaseContract

(* By the contract, no step changes a published release, unless another    *)
(* request takes its timestamp.                                            *)
THEOREM PublishedReleasesImmutable == Spec => Contract!ReleasesAreImmutable
<1>1. Kept /\ [Contract!Next]_(Contract!vars) => [ImmutableStep]_(Contract!vars)
  BY ContractStep
<1>2. Contract!Spec => [][ImmutableStep]_(Contract!vars)
  BY <1>1, ContractInvariant, PTL DEF Contract!Spec
<1>. QED
  BY <1>2, WorkerKeepsReleaseContract, PTL
  DEF KeepsReleaseContract, Contract!ReleasesAreImmutable, ImmutableStep

-----------------------------------------------------------------------------
LEMMA ServingStep ==
    ASSUME [ServingNext]_servingVars
    PROVE  [Next]_vars
<1>1. ASSUME NEW r \in Requests, NEW q \in AdminRequests, Post(r, q)
      PROVE  Next
  <2> DEFINE names == DOMAIN parseArchive(q.entries).files \cap Modules
  <2>1. CASE BeginPublish(r, names)
    <3>1. names \in SUBSET Modules
      OBVIOUS
    <3> HIDE DEF names
    <3> QED BY <2>1, <3>1 DEF Next
  <2>2. CASE q.releaseTimestamp \in Stamps /\ BeginRollback(r, q.releaseTimestamp)
    BY <2>2 DEF Next
  <2>3. CASE Refuse(r)
    BY <2>3 DEF Next
  <2>4. \/ BeginPublish(r, names)
        \/ q.releaseTimestamp \in Stamps /\ BeginRollback(r, q.releaseTimestamp)
        \/ Refuse(r)
    BY <1>1 DEF Post, PostRelease, PostRollback
  <2> QED BY <2>1, <2>2, <2>3, <2>4
<1>2. CASE Work
  BY <1>2 DEF Work, Next
<1>3. ASSUME NEW c \in Readers, Read(c) PROVE UNCHANGED vars
  BY <1>3 DEF Read, Fetch, ReadCurrentRelease, ResolveReleaseTimestamp, ReadObject, FailRead
<1>4. CASE UNCHANGED servingVars
  BY <1>4 DEF servingVars
<1> QED BY <1>1, <1>2, <1>3, <1>4 DEF ServingNext

(* The whole Worker implements the release worker: validation, archives    *)
(* and readers add no step to the store, the lock and the pointer, so what *)
(* is proved of ReleaseWorker holds while releases are being served.       *)
THEOREM ServingIsReleaseWorker == ServingSpec => Spec
<1>1. ServingInit => Init
  BY DEF ServingInit
<1> QED BY <1>1, ServingStep, PTL DEF ServingSpec, Spec

-----------------------------------------------------------------------------
(* No object is deleted and the pointer is set to a stored release.        *)
LEMMA ObjectsStay ==
    ASSUME TypeOK, [Next]_vars
    PROVE  /\ \A t \in Stamps : manifest[t] # None => manifest'[t] # None
           /\ \A t \in Stamps, m \in Modules : module[t][m] # None => module'[t][m] # None
           /\ \A t \in Stamps : used[t] \subseteq used'[t]
<1>0. /\ stamp \in [Requests -> Stamps]
      /\ inflight \in [Requests -> SUBSET Modules]
      /\ module \in [Stamps -> [Modules -> Requests \cup {None}]]
      /\ manifest \in [Stamps -> Requests \cup {None}]
      /\ used \in [Stamps -> SUBSET Requests]
      /\ clock \in Stamps
      /\ None \notin Requests
  BY ConstantsAssumption DEF TypeOK, ConstantsAssumption
<1>1. CASE UNCHANGED <<manifest, module, used>>
  BY <1>1
<1>2. ASSUME NEW r \in Requests, NEW m \in Modules, PutModule(r, m)
      PROVE  /\ \A t \in Stamps, n \in Modules : module[t][n] # None => module'[t][n] # None
             /\ UNCHANGED <<manifest, used>>
  BY <1>0, <1>2 DEF PutModule
<1>3. ASSUME NEW r \in Requests, Reserve(r)
      PROVE  /\ \A t \in Stamps : used[t] \subseteq used'[t]
             /\ UNCHANGED <<manifest, module>>
  <2>1. CASE kind[r] = "publish"
    <3>1. used' = [used EXCEPT ![clock] = used[clock] \cup {r}]
      BY <1>3, <2>1 DEF Reserve
    <3> QED BY <1>0, <1>3, <3>1 DEF Reserve, store
  <2>2. CASE kind[r] # "publish"
    BY <1>3, <2>2 DEF Reserve, store
  <2> QED BY <2>1, <2>2
<1>4. ASSUME NEW r \in Requests, PutManifest(r) \/ FailPut(r)
      PROVE  /\ \A t \in Stamps : manifest[t] # None => manifest'[t] # None
             /\ UNCHANGED <<module, used>>
  <2>1. UNCHANGED manifest \/ manifest' = [manifest EXCEPT ![stamp[r]] = r]
    BY <1>4 DEF PutManifest, FailPut
  <2> QED BY <1>0, <1>4, <2>1 DEF PutManifest, FailPut
<1>5. ASSUME NEW r \in Requests,
             \/ \E names \in SUBSET Modules : BeginPublish(r, names)
             \/ \E t \in Stamps : BeginRollback(r, t)
             \/ Refuse(r) \/ HeadManifest(r) \/ Conflict(r) \/ AwaitModules(r)
             \/ PutCurrent(r) \/ Unlock(r) \/ FailUnlock(r) \/ FailBefore(r) \/ Evict(r)
             \/ \E m \in Modules : FailModule(r, m)
      PROVE  UNCHANGED <<manifest, module, used>>
  BY <1>5 DEF BeginPublish, BeginRollback, Refuse, HeadManifest, Conflict, AwaitModules,
              PutCurrent, Unlock, FailUnlock, FailBefore, Evict, FailModule, store
<1>6. CASE Tick \/ UNCHANGED vars
  BY <1>6 DEF Tick, vars, store
<1> QED BY <1>1, <1>2, <1>3, <1>4, <1>5, <1>6 DEF Next, Step, Upload

(* Whatever the pointer was, and whatever a reader took from it, is a      *)
(* release whose manifest is stored.                                       *)
Told ==
    /\ current \in activated
    /\ \A t \in activated \ {None} : t \in Stamps /\ manifest[t] # None
    /\ \A c \in Readers :
          \/ reader[c].step = "told"
          \/ reader[c].step = "object" /\ reader[c].asset.releaseTimestamp = None
          => reader[c].stamp \in activated \ {None}

(* What a reader asks for is an asset; only a path that names a release is *)
(* immutable, and what was served from it is still stored.                 *)
Served ==
    /\ DOMAIN reader = Readers
    /\ \A c \in Readers :
          /\ reader[c].step \in {"pointer", "object", "served"} =>
                /\ reader[c].asset.assetName \in AssetNames
                /\ reader[c].asset.releaseTimestamp # None => reader[c].asset.releaseTimestamp \in Stamps
                /\ reader[c].asset.cacheControl = "immutable" => reader[c].asset.releaseTimestamp # None
          /\ reader[c].step = "pointer" => reader[c].asset.releaseTimestamp = None
          /\ reader[c].step \in {"object", "served"} /\ reader[c].asset.releaseTimestamp # None
                => reader[c].stamp = reader[c].asset.releaseTimestamp
          /\ reader[c].step = "served" /\ reader[c].asset.cacheControl = "immutable"
                => Object(reader[c].stamp, reader[c].asset.assetName) # None

LEMMA ToldStep ==
    ASSUME TypeOK, TypeOK', WriteOrder', Told, Served, [ServingNext]_servingVars
    PROVE  Told'
<1>0. /\ \A t \in Stamps : manifest[t] # None => manifest'[t] # None
      /\ None \notin Stamps /\ current' \in Stamps \cup {None}
      /\ current' # None => manifest'[current'] # None
  BY ServingStep, ObjectsStay, ConstantsAssumption
  DEF ConstantsAssumption, Stamps, TypeOK, WriteOrder, PointerLast
<1>1. ASSUME activated' = activated \cup {current'}, UNCHANGED reader
      PROVE  Told'
  BY <1>0, <1>1 DEF Told
<1>2. CASE UNCHANGED servingVars
  BY <1>2 DEF servingVars, vars, store, Told
<1>3. ASSUME NEW r \in Requests, NEW q \in AdminRequests, Post(r, q)
      PROVE  Told'
  <2>1. UNCHANGED <<current, manifest, activated, reader>>
    BY <1>3 DEF Post, PostRelease, PostRollback, BeginPublish, BeginRollback, Refuse, store
  <2> QED BY <2>1 DEF Told
<1>4. CASE Work
  BY <1>1, <1>4 DEF Work
<1>5. ASSUME NEW c \in Readers, Read(c) PROVE Told'
  <2>1. UNCHANGED <<current, manifest, activated>> /\ DOMAIN reader = Readers
    BY <1>5 DEF Read, Fetch, ReadCurrentRelease, ResolveReleaseTimestamp, ReadObject,
                FailRead, vars, store, Served
  <2>2. ASSUME NEW path \in Paths, Fetch(c, path)
        PROVE  \/ reader' = [reader EXCEPT ![c] = Idle]
               \/ reader' = [reader EXCEPT ![c] = [step |-> "release"]]
               \/ \E a \in parseAssetRequest(path) :
                     reader' = [reader EXCEPT ![c] = [step |-> "pointer", asset |-> a]]
               \/ \E a \in parseAssetRequest(path) :
                     /\ a.releaseTimestamp # None
                     /\ reader' = [reader EXCEPT ![c] =
                           [step |-> "object", asset |-> a, stamp |-> a.releaseTimestamp]]
    BY <2>2 DEF Fetch, Become
  <2>3. ASSUME NEW path \in Paths, Fetch(c, path) PROVE Told'
    BY <2>1, <2>2, <2>3 DEF Told, Idle
  <2>4. CASE ReadCurrentRelease(c)
    BY <2>1, <2>4 DEF ReadCurrentRelease, Become, Told, Idle
  <2>5. CASE ResolveReleaseTimestamp(c)
    BY <2>1, <2>5 DEF ResolveReleaseTimestamp, Become, Told, Idle
  <2>6. CASE ReadObject(c)
    BY <2>1, <2>6 DEF ReadObject, Become, Told, Idle
  <2>7. CASE FailRead(c)
    BY <2>1, <2>7 DEF FailRead, Become, Told, Idle
  <2> QED BY <1>5, <2>3, <2>4, <2>5, <2>6, <2>7 DEF Read
<1> QED BY <1>2, <1>3, <1>4, <1>5 DEF ServingNext

LEMMA ServedStep ==
    ASSUME TypeOK, Served, [ServingNext]_servingVars
    PROVE  Served'
<1>0. \A t \in Stamps, n \in AssetNames : Object(t, n) # None => Object(t, n)' # None
  BY ServingStep, ObjectsStay DEF Object, AssetNames
<1>n. None \notin Stamps
  BY ConstantsAssumption DEF ConstantsAssumption, Stamps
<1>1. ASSUME UNCHANGED reader PROVE Served'
  BY <1>0, <1>1 DEF Served
<1>2. CASE UNCHANGED servingVars \/ Work
  BY <1>1, <1>2 DEF servingVars, Work
<1>3. ASSUME NEW r \in Requests, NEW q \in AdminRequests, Post(r, q)
      PROVE  Served'
  BY <1>1, <1>3 DEF Post
<1>4. ASSUME NEW c \in Readers, Read(c) PROVE Served'
  <2>1. UNCHANGED <<manifest, module>>
    BY <1>4 DEF Read, Fetch, ReadCurrentRelease, ResolveReleaseTimestamp, ReadObject,
                FailRead, vars, store
  <2>2. DOMAIN reader = Readers
    BY DEF Served
  <2>3. ASSUME NEW path \in Paths, Fetch(c, path) PROVE Served'
    <3>1. ASSUME NEW a \in parseAssetRequest(path)
          PROVE  /\ a.assetName \in AssetNames
                 /\ a.releaseTimestamp # None => a.releaseTimestamp \in Stamps
                 /\ a.cacheControl = "immutable" => a.releaseTimestamp # None
      BY <1>n, <3>1 DEF parseAssetRequest
    <3>2. ASSUME NEW a \in parseAssetRequest(path), a.releaseTimestamp = None,
                 reader' = [reader EXCEPT ![c] = [step |-> "pointer", asset |-> a]]
          PROVE  Served'
      BY <2>1, <2>2, <3>1, <3>2 DEF Served, Object
    <3>3. ASSUME NEW a \in parseAssetRequest(path), a.releaseTimestamp # None,
                 reader' = [reader EXCEPT ![c] =
                       [step |-> "object", asset |-> a, stamp |-> a.releaseTimestamp]]
          PROVE  Served'
      BY <2>1, <2>2, <3>1, <3>3 DEF Served, Object
    <3>4. CASE reader' = [reader EXCEPT ![c] = Idle]
            \/ reader' = [reader EXCEPT ![c] = [step |-> "release"]]
      BY <2>1, <2>2, <3>4 DEF Served, Object, Idle
    <3> QED BY <2>3, <3>2, <3>3, <3>4 DEF Fetch, Become
  <2>4. CASE ReadCurrentRelease(c)
    BY <2>1, <2>2, <2>4 DEF ReadCurrentRelease, Become, Served, Object, Idle
  <2>5. CASE ResolveReleaseTimestamp(c)
    BY <2>1, <2>2, <2>5 DEF ResolveReleaseTimestamp, Become, Served, Object, Idle
  <2>6. CASE ReadObject(c)
    BY <2>1, <2>2, <2>6 DEF ReadObject, Become, Served, Object, Idle
  <2>7. CASE FailRead(c)
    BY <2>1, <2>2, <2>7 DEF FailRead, Become, Served, Object, Idle
  <2> QED BY <1>4, <2>3, <2>4, <2>5, <2>6, <2>7 DEF Read
<1> QED BY <1>2, <1>3, <1>4 DEF ServingNext

LEMMA ServingInvariant == ServingSpec => [](TypeOK /\ WriteOrder /\ Told /\ Served)
<1>1. ServingInit => TypeOK /\ WriteOrder /\ Told /\ Served
  <2> SUFFICES ASSUME ServingInit PROVE TypeOK /\ WriteOrder /\ Told /\ Served
    OBVIOUS
  <2>1. TypeOK /\ WriteOrder
    BY WriteOrderInit, TypeCorrectInit DEF ServingInit
  <2>2. Told /\ Served
    BY DEF ServingInit, Init, Told, Served, Idle
  <2> QED BY <2>1, <2>2
<1>2. TypeOK /\ WriteOrder /\ Told /\ Served /\ [ServingNext]_servingVars
          => TypeOK' /\ WriteOrder' /\ Told' /\ Served'
  BY ServingStep, TypeCorrectStep, WriteOrderStep, ToldStep, ServedStep
<1> QED BY <1>1, <1>2, PTL DEF ServingSpec

(* A release that was ever active, and any release a client was told or a  *)
(* path below /current was resolved to, keeps its manifest and all its     *)
(* modules, however stale KV is and whatever is published meanwhile.       *)
THEOREM AnnouncedReleasesStay == ServingSpec => []AnnouncedStaysServable
<1>1. TypeOK /\ WriteOrder /\ Told => AnnouncedStaysServable
  BY DEF TypeOK, WriteOrder, ManifestLast, Told, AnnouncedStaysServable, Servable
<1> QED BY <1>1, ServingInvariant, PTL

(* What was served as immutable is what the origin serves for ever, under  *)
(* a timestamp that a single request took.                                 *)
THEOREM ImmutableAnswersStay == ServingSpec => []ImmutableStaysTrue
<1>1. TypeOK /\ WriteOrder /\ Served => ImmutableStaysTrue
  <2> SUFFICES ASSUME TypeOK, WriteOrder, Served, NEW c \in Readers,
                      reader[c].step = "served",
                      reader[c].asset.cacheControl = "immutable",
                      used[reader[c].stamp] = {reader[c].body}
               PROVE  Origin(reader[c].asset) = reader[c].body
    BY DEF ImmutableStaysTrue
  <2> DEFINE t == reader[c].stamp
             n == reader[c].asset.assetName
  <2>1. /\ t \in Stamps /\ n \in AssetNames
        /\ reader[c].asset.releaseTimestamp = t /\ t # None
        /\ Object(t, n) # None
    BY DEF Served
  <2>2. Object(t, n) \in used[t] \cup {None}
    BY <2>1 DEF Object, AssetNames, WriteOrder, Provenance
  <2> QED BY <2>1, <2>2 DEF Origin
<1> QED BY <1>1, ServingInvariant, PTL

-----------------------------------------------------------------------------
(* Induction over the naturals, from the least number outside the set.     *)
LEMMA LessRelation == OpToRel(<, Nat) = {p \in Nat \X Nat : p[1] < p[2]}
  BY DEF OpToRel

LEMMA Induction ==
  ASSUME NEW S, 0 \in S, \A n \in Nat : n \in S => n + 1 \in S
  PROVE  Nat \subseteq S
<1>. DEFINE R == {p \in Nat \X Nat : p[1] < p[2]}
            T == Nat \ S
<1>. SUFFICES ASSUME T # {} PROVE FALSE
  OBVIOUS
<1>1. PICK m \in T : \A n \in T : <<n, m>> \notin R
  <2>1. IsWellFoundedOn(R, Nat)
    BY NatLessThanWellFounded, LessRelation
  <2>. HIDE DEF R
  <2>. QED
    BY <2>1, WFMin
<1>2. m \in Nat /\ m # 0
  OBVIOUS
<1>3. m - 1 \in Nat /\ (m - 1) + 1 = m /\ <<m - 1, m>> \in R
  BY <1>2
<1>4. m - 1 \notin T
  BY <1>1, <1>3
<1>. QED
  BY <1>2, <1>3, <1>4

LEMMA BoundedInduction ==
  ASSUME NEW N \in Nat, NEW S, 0 \in S, \A n \in 0 .. N - 1 : n \in S => n + 1 \in S
  PROVE  0 .. N \subseteq S
<1>. DEFINE T == {n \in Nat : n <= N => n \in S}
<1>1. 0 \in T
  OBVIOUS
<1>2. \A n \in Nat : n \in T => n + 1 \in T
  OBVIOUS
<1>3. Nat \subseteq T
  <2>. HIDE DEF T
  <2>. QED
    BY <1>1, <1>2, Induction
<1>. QED
  BY <1>3

(* A function can be defined on 0 .. N step by step.                       *)
StepsOn(N, D) == [1 .. N -> [D -> D]]
Iterate(g, N, D, base, step) ==
  g \in [0 .. N -> D] /\ g[0] = base /\ \A i \in 1 .. N : g[i] = step[i][g[i - 1]]

LEMMA IterateExists ==
  ASSUME NEW N \in Nat, NEW D, NEW base \in D, NEW step \in StepsOn(N, D)
  PROVE  \E g : Iterate(g, N, D, base, step)
<1>. USE DEF StepsOn, Iterate
<1>. DEFINE Good(k, g) == g[0] = base /\ \A i \in 1 .. k : g[i] = step[i][g[i - 1]]
            S == {k \in Nat : k <= N => \E g \in [0 .. k -> D] : Good(k, g)}
<1>1. 0 \in S
  <2>. DEFINE g == [i \in 0 .. 0 |-> base]
  <2>1. g \in [0 .. 0 -> D] /\ g[0] = base
    OBVIOUS
  <2>2. Good(0, g)
    BY <2>1
  <2>. HIDE DEF g, Good
  <2>. QED
    BY <2>1, <2>2
<1>2. ASSUME NEW n \in Nat, n \in S
      PROVE  n + 1 \in S
  <2>. SUFFICES ASSUME n + 1 <= N PROVE \E g \in [0 .. n + 1 -> D] : Good(n + 1, g)
    OBVIOUS
  <2>1. PICK g \in [0 .. n -> D] : Good(n, g)
    BY <1>2
  <2>. DEFINE next == step[n + 1][g[n]]
              h == [i \in 0 .. n + 1 |-> IF i = n + 1 THEN next ELSE g[i]]
  <2>2. next \in D
    <3>1. g[n] \in D /\ n + 1 \in 1 .. N
      OBVIOUS
    <3>. QED
      BY <3>1
  <2>3. h \in [0 .. n + 1 -> D]
    BY <2>2
  <2>4. h[n + 1] = next /\ \A i \in 0 .. n : h[i] = g[i]
    OBVIOUS
  <2>5. \A i \in 1 .. n + 1 : h[i] = step[i][h[i - 1]]
    <3>. SUFFICES ASSUME NEW i \in 1 .. n + 1 PROVE h[i] = step[i][h[i - 1]]
      OBVIOUS
    <3>. HIDE DEF h
    <3>1. h[i - 1] = g[i - 1]
      BY <2>4
    <3>2. CASE i = n + 1
      BY <3>1, <3>2, <2>4
    <3>3. CASE i \in 1 .. n
      BY <3>1, <3>3, <2>1, <2>4
    <3>. QED
      BY <3>2, <3>3
  <2>6. Good(n + 1, h)
    BY <2>1, <2>4, <2>5
  <2>. HIDE DEF h, Good
  <2>. QED
    BY <2>3, <2>6
<1>3. Nat \subseteq S
  <2>. HIDE DEF S
  <2>. QED
    BY <1>1, <1>2, Induction
<1>. QED
  BY <1>3

(* What is parsed of the first n entries, and what those expand to.        *)
ParsedUpTo(entries) ==
  CHOOSE upTo : upTo = [n \in 0 .. Len(entries) |->
      IF n = 0 THEN NothingParsed ELSE AddFile(upTo[n - 1], entries[n])]

BytesUpTo(entries) ==
  CHOOSE upTo : upTo = [n \in 0 .. Len(entries) |->
      IF n = 0 THEN 0 ELSE upTo[n - 1] + entries[n].size]

Files(entries) == UNION {[names -> {entries[i] : i \in DOMAIN entries}] : names \in SUBSET AssetNames}

Parses(entries) ==
  [valid : BOOLEAN, moduleCount : Nat, totalUncompressedBytes : Nat, files : Files(entries)]

LEMMA FileSet ==
  ASSUME NEW entries, NEW files \in Files(entries)
  PROVE  /\ DOMAIN files \subseteq AssetNames
         /\ \A name \in DOMAIN files : files[name] \in {entries[i] : i \in DOMAIN entries}
         /\ files = [name \in DOMAIN files |-> files[name]]
  BY DEF Files

LEMMA AddFileType ==
  ASSUME NEW entries, IsArchive(entries), NEW i \in DOMAIN entries,
         NEW parsed \in Parses(entries)
  PROVE  AddFile(parsed, entries[i]) \in Parses(entries)
<1>. DEFINE file == entries[i]
            all == {entries[k] : k \in DOMAIN entries}
<1>1. /\ parsed.valid \in BOOLEAN /\ parsed.moduleCount \in Nat
      /\ parsed.totalUncompressedBytes \in Nat /\ parsed.files \in Files(entries)
      /\ parsed = [valid |-> parsed.valid, moduleCount |-> parsed.moduleCount,
                   totalUncompressedBytes |-> parsed.totalUncompressedBytes,
                   files |-> parsed.files]
  BY DEF Parses
<1>2. file.size \in Nat /\ file \in all
  BY DEF IsArchive
<1>3. [parsed EXCEPT !.valid = FALSE] \in Parses(entries)
  BY DEF Parses
<1>4. ASSUME file.name \in AssetNames
      PROVE  [name \in DOMAIN parsed.files \cup {file.name} |->
                 IF name = file.name THEN file ELSE parsed.files[name]] \in Files(entries)
  <2>. DEFINE names == DOMAIN parsed.files \cup {file.name}
              files == [name \in names |-> IF name = file.name THEN file ELSE parsed.files[name]]
  <2>1. DOMAIN parsed.files \subseteq AssetNames
        /\ \A name \in DOMAIN parsed.files : parsed.files[name] \in all
    BY <1>1, FileSet
  <2>2. names \in SUBSET AssetNames
    BY <1>4, <2>1
  <2>3. files \in [names -> all]
    BY <1>2, <2>1
  <2>. HIDE DEF names, files, all
  <2>4. files \in UNION {[S -> all] : S \in SUBSET AssetNames}
    BY <2>2, <2>3
  <2>. QED
    BY <2>4 DEF Files, files, names, all
<1>5. CASE ~parsed.valid \/ ~EntryAllowed(parsed, file) \/ ~ExpandsWithinLimits(parsed, file)
  BY <1>1, <1>3, <1>5 DEF AddFile
<1>6. CASE parsed.valid /\ EntryAllowed(parsed, file) /\ ExpandsWithinLimits(parsed, file)
  <2>. DEFINE count == parsed.moduleCount + (IF file.name \in Modules THEN 1 ELSE 0)
              files == [name \in DOMAIN parsed.files \cup {file.name} |->
                          IF name = file.name THEN file ELSE parsed.files[name]]
  <2>1. AddFile(parsed, file) =
          [valid |-> TRUE, moduleCount |-> count,
           totalUncompressedBytes |-> parsed.totalUncompressedBytes + file.size,
           files |-> files]
    BY <1>6 DEF AddFile
  <2>2. files \in Files(entries)
    BY <1>4, <1>6 DEF EntryAllowed
  <2>3. count \in Nat /\ parsed.totalUncompressedBytes + file.size \in Nat
    BY <1>1, <1>2
  <2>. HIDE DEF files, count
  <2>. QED
    BY <2>1, <2>2, <2>3 DEF Parses
<1>. QED
  BY <1>5, <1>6

LEMMA ParseSteps ==
  ASSUME NEW entries, IsArchive(entries)
  PROVE  LET up == ParsedUpTo(entries)
         IN  /\ up \in [0 .. Len(entries) -> Parses(entries)]
             /\ up[0] = NothingParsed
             /\ \A n \in 1 .. Len(entries) : up[n] = AddFile(up[n - 1], entries[n])
<1>. DEFINE D == Parses(entries)
            N == Len(entries)
            base == NothingParsed
            step == [n \in 1 .. N |-> [x \in D |-> AddFile(x, entries[n])]]
            up == ParsedUpTo(entries)
<1>1. N \in Nat /\ DOMAIN entries = 1 .. N
  BY DEF IsArchive
<1>2. base \in D
  <2>1. <<>> \in [{} -> {entries[i] : i \in DOMAIN entries}]
    OBVIOUS
  <2>2. <<>> \in Files(entries)
    BY <2>1 DEF Files
  <2>. QED
    BY <2>2 DEF Parses, NothingParsed
<1>3. step \in StepsOn(N, D)
  <2>1. \A n \in 1 .. N : \A x \in D : AddFile(x, entries[n]) \in D
    BY <1>1, AddFileType
  <2>. HIDE DEF D, N
  <2>. QED
    BY <2>1 DEF StepsOn
<1>4. PICK g : Iterate(g, N, D, base, step)
  <2>. HIDE DEF D, N, base, step
  <2>. QED
    BY <1>1, <1>2, <1>3, IterateExists
<1>5. \A n \in 1 .. N : n \in 0 .. N /\ n - 1 \in 0 .. N /\ n # 0 /\ 0 \in 0 .. N
  BY <1>1
<1>. HIDE DEF D, N
<1>6. \A n \in 1 .. N : g[n - 1] \in D /\ g[n] = AddFile(g[n - 1], entries[n])
  BY <1>4, <1>5 DEF Iterate
<1>7. g = [n \in 0 .. N |-> IF n = 0 THEN base ELSE AddFile(g[n - 1], entries[n])]
  <2>. DEFINE rhs(n) == IF n = 0 THEN base ELSE AddFile(g[n - 1], entries[n])
  <2>1. ASSUME NEW n \in 0 .. N PROVE g[n] = rhs(n)
    <3>1. CASE n = 0
      BY <1>4, <3>1 DEF Iterate
    <3>2. CASE n \in 1 .. N
      BY <1>5, <1>6, <3>2
    <3>. QED
      BY <1>1, <3>1, <3>2
  <2>2. g = [n \in 0 .. N |-> g[n]]
    BY <1>4 DEF Iterate
  <2>. HIDE DEF rhs
  <2>3. g = [n \in 0 .. N |-> rhs(n)]
    BY <2>1, <2>2
  <2>. QED
    BY <2>3 DEF rhs
<1>8. up = [n \in 0 .. N |-> IF n = 0 THEN base ELSE AddFile(up[n - 1], entries[n])]
  BY <1>7 DEF ParsedUpTo, N
<1>. HIDE DEF up, base
<1>9. up[0] = base /\ \A n \in 1 .. N : up[n] = AddFile(up[n - 1], entries[n])
  BY <1>1, <1>5, <1>8
<1>10. up \in [0 .. N -> D]
  <2>. DEFINE S == {n \in 0 .. N : up[n] \in D}
  <2>1. 0 \in S
    BY <1>1, <1>2, <1>9
  <2>2. ASSUME NEW n \in 0 .. N - 1, n \in S
        PROVE  n + 1 \in S
    <3>1. n + 1 \in 1 .. N /\ (n + 1) - 1 = n /\ n + 1 \in 0 .. N
      BY <1>1
    <3>2. AddFile(up[n], entries[n + 1]) \in D
      BY <1>1, <2>2, <3>1, AddFileType DEF D
    <3>3. up[n + 1] = AddFile(up[n], entries[n + 1])
      BY <1>9, <3>1
    <3>. QED
      BY <3>1, <3>2, <3>3
  <2>3. 0 .. N \subseteq S
    <3>. HIDE DEF S
    <3>. QED
      BY <1>1, <2>1, <2>2, BoundedInduction
  <2>4. \A n \in 0 .. N : up[n] \in D
    BY <2>3
  <2>. QED
    BY <1>8, <2>4
<1>. QED
  BY <1>9, <1>10 DEF up, base, N, D

LEMMA BytesSteps ==
  ASSUME NEW entries, IsArchive(entries)
  PROVE  LET sum == BytesUpTo(entries)
         IN  /\ ExpandedBytes(entries) = sum[Len(entries)]
             /\ sum[0] = 0
             /\ \A n \in 1 .. Len(entries) : sum[n] = sum[n - 1] + entries[n].size
<1>. DEFINE N == Len(entries)
            base == 0
            step == [n \in 1 .. N |-> [x \in Nat |-> x + entries[n].size]]
            sum == BytesUpTo(entries)
<1>1. N \in Nat /\ DOMAIN entries = 1 .. N /\ base \in Nat
  BY DEF IsArchive
<1>2. step \in StepsOn(N, Nat)
  BY <1>1 DEF StepsOn, IsArchive
<1>3. PICK g : Iterate(g, N, Nat, base, step)
  <2>. HIDE DEF N, base, step
  <2>. QED
    BY <1>1, <1>2, IterateExists
<1>4. \A n \in 1 .. N : n \in 0 .. N /\ n - 1 \in 0 .. N /\ n # 0 /\ 0 \in 0 .. N
  BY <1>1
<1>. HIDE DEF N
<1>5. \A n \in 1 .. N : g[n] = g[n - 1] + entries[n].size
  BY <1>3, <1>4 DEF Iterate
<1>6. g = [n \in 0 .. N |-> IF n = 0 THEN 0 ELSE g[n - 1] + entries[n].size]
  <2>. DEFINE rhs(n) == IF n = 0 THEN 0 ELSE g[n - 1] + entries[n].size
  <2>1. ASSUME NEW n \in 0 .. N PROVE g[n] = rhs(n)
    <3>1. CASE n = 0
      BY <1>3, <3>1 DEF Iterate
    <3>2. CASE n \in 1 .. N
      BY <1>4, <1>5, <3>2
    <3>. QED
      BY <1>1, <3>1, <3>2
  <2>2. g = [n \in 0 .. N |-> g[n]]
    BY <1>3 DEF Iterate
  <2>. HIDE DEF rhs
  <2>3. g = [n \in 0 .. N |-> rhs(n)]
    BY <2>1, <2>2
  <2>. QED
    BY <2>3 DEF rhs
<1>7. sum = [n \in 0 .. N |-> IF n = 0 THEN 0 ELSE sum[n - 1] + entries[n].size]
  BY <1>6 DEF BytesUpTo, N
<1>8. ExpandedBytes(entries) = sum[N]
  BY DEF ExpandedBytes, BytesUpTo, N
<1>. HIDE DEF sum
<1>9. sum[0] = 0 /\ \A n \in 1 .. N : sum[n] = sum[n - 1] + entries[n].size
  BY <1>1, <1>4, <1>7
<1>. QED
  BY <1>8, <1>9 DEF sum, N

(* What parseArchive keeps account of, as long as it has not thrown: what  *)
(* the entries so far expand to, their names, and at least their modules.  *)
Accounts(parsed, bytes, names) ==
  parsed.valid =>
      /\ parsed.totalUncompressedBytes = bytes /\ bytes <= MAX_UNCOMPRESSED_BYTES
      /\ DOMAIN parsed.files = names
      /\ IsFiniteSet(names \cap Modules)
      /\ Cardinality(names \cap Modules) <= parsed.moduleCount
      /\ parsed.moduleCount <= MAX_MODULES

LEMMA AddFileAccounts ==
  ASSUME NEW entries, IsArchive(entries), NEW file \in {entries[i] : i \in DOMAIN entries},
         NEW parsed \in Parses(entries), NEW bytes, NEW names, Accounts(parsed, bytes, names)
  PROVE  Accounts(AddFile(parsed, file), bytes + file.size, names \cup {file.name})
<1>. DEFINE next == AddFile(parsed, file)
<1>1. CASE ~parsed.valid \/ ~EntryAllowed(parsed, file) \/ ~ExpandsWithinLimits(parsed, file)
  <2>1. ~next.valid
    BY <1>1 DEF AddFile, Parses
  <2>. QED
    BY <2>1 DEF Accounts
<1>2. CASE parsed.valid /\ EntryAllowed(parsed, file) /\ ExpandsWithinLimits(parsed, file)
  <2>. DEFINE one == IF file.name \in Modules THEN 1 ELSE 0
              modules == names \cap Modules
              more == (names \cup {file.name}) \cap Modules
  <2>1. /\ next.moduleCount = parsed.moduleCount + one
        /\ next.totalUncompressedBytes = parsed.totalUncompressedBytes + file.size
        /\ DOMAIN next.files = DOMAIN parsed.files \cup {file.name}
    BY <1>2 DEF AddFile
  <2>2. next.totalUncompressedBytes <= MAX_UNCOMPRESSED_BYTES
    BY <1>2, <2>1 DEF ExpandsWithinLimits
  <2>3. /\ parsed.totalUncompressedBytes = bytes /\ DOMAIN parsed.files = names
        /\ IsFiniteSet(modules) /\ Cardinality(modules) <= parsed.moduleCount
        /\ parsed.moduleCount <= MAX_MODULES
        /\ parsed.moduleCount \in Nat /\ MAX_MODULES \in Nat
    BY <1>2, ServingAssumption DEF Accounts, Parses, ServingAssumption
  <2>4. next.moduleCount <= MAX_MODULES
    BY <1>2, <2>1, <2>3 DEF EntryAllowed
  <2>5. IsFiniteSet(more) /\ Cardinality(more) <= next.moduleCount
    <3>1. CASE file.name \in Modules
      <4>1. more = modules \cup {file.name}
        BY <3>1
      <4>. HIDE DEF more, modules
      <4>2. /\ IsFiniteSet(more)
            /\ Cardinality(more) = IF file.name \in modules THEN Cardinality(modules)
                                   ELSE Cardinality(modules) + 1
        BY <2>3, <4>1, FS_AddElement
      <4>3. Cardinality(modules) \in Nat
        BY <2>3, FS_CardinalityType
      <4>. QED
        BY <2>1, <2>3, <3>1, <4>2, <4>3
    <3>2. CASE file.name \notin Modules
      <4>1. more = modules
        BY <3>2
      <4>. HIDE DEF more, modules
      <4>. QED
        BY <2>1, <2>3, <3>2, <4>1
    <3>. QED
      BY <3>1, <3>2
  <2>. HIDE DEF one, modules
  <2>6. /\ next.totalUncompressedBytes = bytes + file.size
        /\ bytes + file.size <= MAX_UNCOMPRESSED_BYTES
        /\ DOMAIN next.files = names \cup {file.name}
    BY <2>1, <2>2, <2>3
  <2>. HIDE DEF next
  <2>. QED
    BY <2>4, <2>5, <2>6 DEF Accounts, next
<1>. QED
  BY <1>1, <1>2

(* An archive that parseArchive returns is within the documented limits.   *)
LEMMA ParsedWithinLimits ==
  ASSUME NEW entries, IsArchive(entries), parseArchive(entries).valid
  PROVE  WithinLimits(entries, DOMAIN parseArchive(entries).files \cap Modules)
<1>. DEFINE N == Len(entries)
            up == ParsedUpTo(entries)
            sum == BytesUpTo(entries)
            names(n) == {entries[i].name : i \in 1 .. n}
            last == up[N]
<1>1. N \in Nat /\ 0 \in 0 .. N /\ N \in 0 .. N /\ DOMAIN entries = 1 .. N
  BY DEF IsArchive
<1>2. /\ up \in [0 .. N -> Parses(entries)]
      /\ up[0] = NothingParsed
      /\ \A n \in 1 .. N : up[n] = AddFile(up[n - 1], entries[n])
  BY ParseSteps
<1>3. /\ ExpandedBytes(entries) = sum[N]
      /\ sum[0] = 0
      /\ \A n \in 1 .. N : sum[n] = sum[n - 1] + entries[n].size
  BY BytesSteps
<1>4. /\ DOMAIN parseArchive(entries).files = DOMAIN last.files
      /\ last.valid /\ Manifest \in DOMAIN last.files /\ DOMAIN last.files \cap Modules # {}
  BY DEF parseArchive, ParsedUpTo
<1>. HIDE DEF up, sum, names
<1>5. Accounts(up[0], sum[0], names(0))
  <2>1. names(0) = {} /\ names(0) \cap Modules = {}
    BY DEF names
  <2>2. IsFiniteSet({}) /\ Cardinality({}) = 0
    BY FS_EmptySet
  <2>3. up[0] = NothingParsed /\ sum[0] = 0 /\ MAX_MODULES \in Nat /\ MAX_UNCOMPRESSED_BYTES \in Nat
    BY <1>2, <1>3, ServingAssumption DEF ServingAssumption
  <2>4. Accounts(NothingParsed, 0, {})
    <3>1. {} \cap Modules = {} /\ DOMAIN <<>> = {}
      OBVIOUS
    <3>. QED
      BY <2>2, <2>3, <3>1 DEF Accounts, NothingParsed
  <2>. QED
    BY <2>1, <2>3, <2>4
<1>6. ASSUME NEW n \in 0 .. N - 1, Accounts(up[n], sum[n], names(n))
      PROVE  Accounts(up[n + 1], sum[n + 1], names(n + 1))
  <2>1. n + 1 \in 1 .. N /\ (n + 1) - 1 = n /\ n \in 0 .. N
    BY <1>1
  <2>2. up[n + 1] = AddFile(up[n], entries[n + 1]) /\ sum[n + 1] = sum[n] + entries[n + 1].size
    BY <1>2, <1>3, <2>1
  <2>3. names(n + 1) = names(n) \cup {entries[n + 1].name}
    <3>1. \A i : i \in 1 .. n + 1 <=> i \in 1 .. n \/ i = n + 1
      BY <2>1
    <3>. QED
      BY <3>1 DEF names
  <2>4. up[n] \in Parses(entries) /\ entries[n + 1] \in {entries[i] : i \in DOMAIN entries}
    BY <1>1, <1>2, <2>1
  <2>. DEFINE parsed == up[n]
              file == entries[n + 1]
              bytes == sum[n]
              before == names(n)
  <2>5. parsed \in Parses(entries) /\ Accounts(parsed, bytes, before)
    BY <1>6, <2>4
  <2>6. file \in {entries[i] : i \in DOMAIN entries}
    BY <2>4
  <2>. HIDE DEF parsed, file, bytes, before
  <2>7. Accounts(AddFile(parsed, file), bytes + file.size, before \cup {file.name})
    BY <2>5, <2>6, AddFileAccounts
  <2>. QED
    BY <2>2, <2>3, <2>7 DEF parsed, file, bytes, before
<1>7. Accounts(up[N], sum[N], names(N))
  <2>. DEFINE S == {n \in 0 .. N : Accounts(up[n], sum[n], names(n))}
  <2>1. 0 \in S
    BY <1>1, <1>5
  <2>2. ASSUME NEW n \in 0 .. N - 1, n \in S PROVE n + 1 \in S
    <3>1. n + 1 \in 0 .. N
      BY <1>1
    <3>. QED
      BY <1>6, <2>2, <3>1
  <2>3. 0 .. N \subseteq S
    <3>. HIDE DEF S
    <3>. QED
      BY <1>1, <2>1, <2>2, BoundedInduction
  <2>. QED
    BY <1>1, <2>3
<1>8. /\ names(N) = DOMAIN last.files /\ names(N) \subseteq AssetNames
      /\ IsFiniteSet(names(N) \cap Modules)
      /\ Cardinality(names(N) \cap Modules) <= MAX_MODULES
      /\ sum[N] <= MAX_UNCOMPRESSED_BYTES
  <2>1. last \in Parses(entries) /\ last.moduleCount \in Nat /\ last.files \in Files(entries)
    BY <1>1, <1>2 DEF Parses
  <2>2. DOMAIN last.files \subseteq AssetNames
    BY <2>1, FileSet
  <2>3. Cardinality(names(N) \cap Modules) \in Nat
    BY <1>4, <1>7, FS_CardinalityType DEF Accounts
  <2>. QED
    BY <1>4, <1>7, <2>1, <2>2, <2>3, ServingAssumption DEF Accounts, ServingAssumption
<1>9. {entries[i].name : i \in DOMAIN entries} = (names(N) \cap Modules) \cup {Manifest}
  <2>1. {entries[i].name : i \in DOMAIN entries} = names(N)
    BY <1>1 DEF names
  <2>. QED
    BY <1>4, <1>8, <2>1 DEF AssetNames
<1>10. Cardinality(names(N) \cap Modules) \in 1 .. MAX_MODULES
  <2>. DEFINE modules == names(N) \cap Modules
  <2>1. modules # {}
    BY <1>4, <1>8
  <2>. HIDE DEF modules
  <2>2. IsFiniteSet(modules) /\ Cardinality(modules) <= MAX_MODULES
    BY <1>8 DEF modules
  <2>3. Cardinality(modules) \in Nat /\ Cardinality(modules) # 0
    BY <2>1, <2>2, FS_CardinalityType, FS_EmptySet
  <2>. QED
    BY <2>2, <2>3, ServingAssumption DEF ServingAssumption, modules
<1>. QED
  BY <1>3, <1>4, <1>8, <1>9, <1>10 DEF WithinLimits

-----------------------------------------------------------------------------
(* The archive of a publishing request, from its validation until it is    *)
(* the release of a timestamp for good.                                    *)
Validated ==
  /\ DOMAIN upload = Requests
  /\ \A r \in Requests : pc[r] = "head" => kind[r] = "rollback"
  /\ \A r \in Requests :
        pc[r] = "reserve" /\ kind[r] = "publish" => WithinLimits(upload[r], archive[r])
  /\ \A t \in Stamps : \A r \in used[t] : WithinLimits(upload[r], archive[r])

LEMMA ValidatedStep ==
  ASSUME TypeOK, WriteOrder, Validated, [ServingNext]_servingVars
  PROVE  Validated'
<1>0. /\ pc \in [Requests -> Steps]
      /\ kind \in [Requests -> {"publish", "rollback"}]
      /\ archive \in [Requests -> SUBSET Modules]
      /\ used \in [Stamps -> SUBSET Requests]
      /\ clock \in Stamps
      /\ \A t \in Stamps : \A r \in used[t] : pc[r] \notin {"idle", "head", "reserve"}
  <2>1. TypeOK /\ Provenance
    BY DEF WriteOrder
  <2>. QED
    BY <2>1 DEF TypeOK, Provenance
<1>1. ASSUME NEW r \in Requests, NEW q \in AdminRequests, Post(r, q)
      PROVE  Validated'
  <2>1. pc[r] = "idle" /\ UNCHANGED used
    BY <1>1 DEF Post, PostRelease, PostRollback, BeginPublish, BeginRollback, Refuse
  <2>2. \A t \in Stamps : \A s \in used[t] : s # r
    BY <1>0, <2>1
  <2>3. ASSUME q.path = "/admin/releases", parseArchive(q.entries).valid,
               BeginPublish(r, DOMAIN parseArchive(q.entries).files \cap Modules),
               upload' = [upload EXCEPT ![r] = q.entries]
        PROVE  Validated'
    <3>. DEFINE names == DOMAIN parseArchive(q.entries).files \cap Modules
    <3>1. WithinLimits(q.entries, names)
      BY <2>3, RequestsAssumption, ParsedWithinLimits DEF RequestsAssumption
    <3>. HIDE DEF names
    <3>2. /\ pc' = [pc EXCEPT ![r] = "reserve"]
          /\ kind' = [kind EXCEPT ![r] = "publish"]
          /\ archive' = [archive EXCEPT ![r] = names]
      BY <2>3 DEF BeginPublish, Goto, names
    <3>3. upload'[r] = q.entries /\ archive'[r] = names
      BY <1>0, <2>3, <3>2 DEF Validated
    <3>4. \A s \in Requests : s # r => /\ upload'[s] = upload[s] /\ archive'[s] = archive[s]
                                       /\ pc'[s] = pc[s] /\ kind'[s] = kind[s]
      BY <1>0, <2>3, <3>2 DEF Validated
    <3>5. pc'[r] = "reserve" /\ kind'[r] = "publish"
      BY <1>0, <3>2
    <3>6. \A t \in Stamps : \A s \in used'[t] : WithinLimits(upload'[s], archive'[s])
      BY <1>0, <2>1, <2>2, <3>4 DEF Validated
    <3>. QED
      BY <2>3, <3>1, <3>3, <3>4, <3>5, <3>6 DEF Validated, WithinLimits
  <2>4. ASSUME UNCHANGED <<upload, archive>>,
               \/ pc' = [pc EXCEPT ![r] = "done"] /\ UNCHANGED kind
               \/ pc' = [pc EXCEPT ![r] = "head"] /\ kind' = [kind EXCEPT ![r] = "rollback"]
        PROVE  Validated'
    <3>1. \A s \in Requests : s # r => pc'[s] = pc[s] /\ kind'[s] = kind[s]
      BY <1>0, <2>4
    <3>2. pc'[r] = "done" \/ (pc'[r] = "head" /\ kind'[r] = "rollback")
      BY <1>0, <2>4
    <3>. QED
      BY <1>0, <2>1, <2>4, <3>1, <3>2 DEF Validated, WithinLimits
  <2>5. CASE PostRelease(r, q)
    <3>1. CASE Admitted(q) /\ LengthPermitted(q) /\ parseArchive(q.entries).valid
      BY <2>3, <2>5, <3>1 DEF PostRelease
    <3>2. CASE ~(Admitted(q) /\ LengthPermitted(q) /\ parseArchive(q.entries).valid)
      <4>1. Refuse(r) /\ UNCHANGED upload
        BY <2>5, <3>2 DEF PostRelease
      <4>. QED
        BY <2>4, <4>1 DEF Refuse, Goto, request
    <3>. QED
      BY <3>1, <3>2
  <2>6. CASE PostRollback(r, q)
    <3>1. CASE Admitted(q) /\ q.releaseTimestamp \in Stamps
      <4>1. BeginRollback(r, q.releaseTimestamp) /\ UNCHANGED upload
        BY <2>6, <3>1 DEF PostRollback
      <4>. QED
        BY <2>4, <4>1 DEF BeginRollback, Goto
    <3>2. CASE ~(Admitted(q) /\ q.releaseTimestamp \in Stamps)
      <4>1. Refuse(r) /\ UNCHANGED upload
        BY <2>6, <3>2 DEF PostRollback
      <4>. QED
        BY <2>4, <4>1 DEF Refuse, Goto, request
    <3>. QED
      BY <3>1, <3>2
  <2>. QED
    BY <1>1, <2>5, <2>6 DEF Post
<1>2. CASE Work
  <2>1. UNCHANGED upload
    BY <1>2 DEF Work
  <2>2. ASSUME NEW r \in Requests, Reserve(r)
        PROVE  Validated'
    <3>1. /\ pc[r] = "reserve" /\ UNCHANGED <<kind, archive>>
          /\ \A s \in Requests : s # r => pc'[s] = pc[s]
          /\ pc'[r] \in {"modules", "activate"}
      BY <1>0, <2>2 DEF Reserve, Goto, request
    <3>2. \A t \in Stamps : \A s \in used'[t] :
             s \in used[t] \/ (s = r /\ kind[r] = "publish")
      BY <1>0, <2>2 DEF Reserve
    <3>3. \A t \in Stamps : \A s \in used'[t] : WithinLimits(upload[s], archive[s])
      BY <3>1, <3>2 DEF Validated
    <3>. QED
      BY <2>1, <3>1, <3>3 DEF Validated, WithinLimits
  <2>3. ASSUME NEW r \in Requests, HeadManifest(r)
        PROVE  Validated'
    <3>1. /\ pc[r] = "head" /\ UNCHANGED <<kind, archive, used>>
          /\ \A s \in Requests : s # r => pc'[s] = pc[s]
          /\ pc'[r] \in {"reserve", "done"}
      BY <1>0, <2>3 DEF HeadManifest, Goto, request
    <3>2. kind[r] = "rollback"
      BY <3>1 DEF Validated
    <3>. QED
      BY <2>1, <3>1, <3>2 DEF Validated, WithinLimits
  <2>4. ASSUME UNCHANGED <<kind, archive, used>>,
               \A s \in Requests : pc'[s] \in {pc[s], "manifest", "activate", "unlock", "done"}
        PROVE  Validated'
    BY <1>0, <2>1, <2>4 DEF Validated, WithinLimits
  <2>5. ASSUME NEW r \in Requests,
               \/ Conflict(r) \/ AwaitModules(r) \/ PutManifest(r) \/ PutCurrent(r)
               \/ FailPut(r) \/ Unlock(r) \/ FailUnlock(r) \/ FailBefore(r) \/ Evict(r)
               \/ \E m \in Modules : PutModule(r, m) \/ FailModule(r, m)
        PROVE  /\ UNCHANGED <<kind, archive, used>>
               /\ \A s \in Requests :
                     pc'[s] \in {pc[s], "manifest", "activate", "unlock", "done"}
    BY <1>0, <2>5
    DEF Conflict, AwaitModules, PutManifest, PutCurrent, FailPut, Unlock, FailUnlock,
        FailBefore, Evict, PutModule, FailModule, Goto, request
  <2>6. CASE Tick
    <3>1. UNCHANGED <<kind, archive, used, pc>>
      BY <2>6 DEF Tick, request
    <3>2. \A s \in Requests : pc'[s] \in {pc[s], "manifest", "activate", "unlock", "done"}
      BY <3>1
    <3>. QED
      BY <2>4, <3>1, <3>2
  <2>. QED
    BY <1>2, <2>2, <2>3, <2>4, <2>5, <2>6 DEF Work, Step, Upload
<1>3. CASE UNCHANGED <<vars, upload>>
  BY <1>3 DEF Validated, WithinLimits, vars, request
<1>4. ASSUME NEW c \in Readers, Read(c) PROVE UNCHANGED <<vars, upload>>
  BY <1>4 DEF Read, Fetch, ReadCurrentRelease, ResolveReleaseTimestamp, ReadObject, FailRead
<1>. QED
  BY <1>1, <1>2, <1>3, <1>4 DEF ServingNext, servingVars

(* Whatever release has its manifest in R2 came with an archive within the *)
(* documented limits, of any number of entries and whatever their sizes.   *)
THEOREM ReleasesWithinLimits == ServingSpec => []StoredWithinLimits
<1>1. ServingInit => Validated
  BY DEF ServingInit, Init, Validated
<1>2. TypeOK /\ WriteOrder /\ Validated /\ [ServingNext]_servingVars => Validated'
  BY ValidatedStep
<1>3. WriteOrder /\ Validated => StoredWithinLimits
  BY DEF WriteOrder, Provenance, Validated, StoredWithinLimits
<1>4. ServingSpec => [](TypeOK /\ WriteOrder)
  BY ServingInvariant, PTL
<1>. QED
  BY <1>1, <1>2, <1>3, <1>4, PTL DEF ServingSpec
=============================================================================
