--------------------------- MODULE ReleaseWorker ---------------------------
(***************************************************************************)
(* The assets worker: admin requests that publish a Zipline release or     *)
(* roll back to one, for one Zipline ABI (every key, and the publishing    *)
(* lock, is prefixed by the ABI, so ABIs share nothing).                   *)
(*                                                                         *)
(* R2 and KV are external: each call takes effect at one point and may     *)
(* fail.  Requests run concurrently, in isolates that may be evicted at    *)
(* any await; module uploads of one request are in flight together and     *)
(* outlive the request when one of them fails.                             *)
(***************************************************************************)
EXTENDS Naturals

CONSTANTS
    Requests,   \* admin requests; the archive a request uploads is its own
    Modules,    \* *.zipline asset names
    None,       \* no object, no pointer
    MaxTime     \* bound on the clock, in seconds

ASSUME ConstantsAssumption ==
    /\ None \notin Requests
    /\ None \notin Nat
    /\ MaxTime \in Nat

VARIABLES
    clock,      \* wall clock at the one-second resolution of a timestamp
    manifest,   \* manifest[t]: whose manifest is at releases/<abi>/<t>/
    module,     \* module[t][m]: whose bytes are there under the name m
    lock,       \* the object .publishing/<abi> exists
    current,    \* KV current/<abi>: the timestamp of the active release
    pc,         \* next step of a request
    kind,       \* publish or rollback
    archive,    \* names of the modules in a request's archive
    stamp,      \* the release timestamp a request works on
    inflight,   \* module uploads issued by a request and not finished
    result,     \* the answer a request is going to give
    used,       \* history: the requests that uploaded under a timestamp
    leaked      \* history: a lock object was left behind

store == <<manifest, module>>
request == <<kind, archive>>

vars == <<clock, store, lock, current, pc, request, stamp, inflight, result,
          used, leaked>>

Stamps == 0 .. MaxTime
Steps == {"idle", "head", "reserve", "modules", "manifest", "activate",
          "unlock", "done"}

(* The steps inside the try block: the request has reserved the update.    *)
Holding == {"modules", "manifest", "activate", "unlock"}

TypeOK ==
    /\ clock \in Stamps
    /\ manifest \in [Stamps -> Requests \cup {None}]
    /\ module \in [Stamps -> [Modules -> Requests \cup {None}]]
    /\ lock \in BOOLEAN
    /\ current \in Stamps \cup {None}
    /\ pc \in [Requests -> Steps]
    /\ kind \in [Requests -> {"publish", "rollback"}]
    /\ archive \in [Requests -> SUBSET Modules]
    /\ stamp \in [Requests -> Stamps]
    /\ inflight \in [Requests -> SUBSET Modules]
    /\ result \in [Requests -> {"none", "ok", "error"}]
    /\ used \in [Stamps -> SUBSET Requests]
    /\ leaked \in BOOLEAN

Init ==
    /\ clock = 0
    /\ manifest = [t \in Stamps |-> None]
    /\ module = [t \in Stamps |-> [m \in Modules |-> None]]
    /\ lock = FALSE
    /\ current = None
    /\ pc = [r \in Requests |-> "idle"]
    /\ kind = [r \in Requests |-> "publish"]
    /\ archive = [r \in Requests |-> {}]
    /\ stamp = [r \in Requests |-> 0]
    /\ inflight = [r \in Requests |-> {}]
    /\ result = [r \in Requests |-> "none"]
    /\ used = [t \in Stamps |-> {}]
    /\ leaked = FALSE

Goto(r, step) == pc' = [pc EXCEPT ![r] = step]
Answer(r, a) == result' = [result EXCEPT ![r] = a]

-----------------------------------------------------------------------------
(* POST /admin/releases with an archive that passed every validation.      *)
BeginPublish(r, names) ==
    /\ pc[r] = "idle"
    /\ names # {}
    /\ kind' = [kind EXCEPT ![r] = "publish"]
    /\ archive' = [archive EXCEPT ![r] = names]
    /\ Goto(r, "reserve")
    /\ UNCHANGED <<clock, store, lock, current, stamp, inflight, result, used, leaked>>

(* POST /admin/rollback with a well-formed timestamp.                      *)
BeginRollback(r, t) ==
    /\ pc[r] = "idle"
    /\ kind' = [kind EXCEPT ![r] = "rollback"]
    /\ stamp' = [stamp EXCEPT ![r] = t]
    /\ Goto(r, "head")
    /\ UNCHANGED <<clock, store, lock, current, archive, inflight, result, used, leaked>>

(* Either request fails one of its checks: 405, 401 or 400.                *)
Refuse(r) ==
    /\ pc[r] = "idle"
    /\ Goto(r, "done") /\ Answer(r, "error")
    /\ UNCHANGED <<clock, store, lock, current, request, stamp, inflight, used, leaked>>

(* Mutant: the rollback does not look the manifest up.                     *)
ReleaseAssumed(t) == TRUE

(* The manifest is looked up before the lock is taken: 404 without it.     *)
ReleaseExists(t) == manifest[t] # None

HeadManifest(r) ==
    /\ pc[r] = "head"
    /\ IF ReleaseExists(stamp[r])
       THEN Goto(r, "reserve") /\ UNCHANGED result
       ELSE Goto(r, "done") /\ Answer(r, "error")
    /\ UNCHANGED <<clock, store, lock, current, request, stamp, inflight, used, leaked>>

(* Mutant: the put of the lock object is unconditional.                    *)
LockIgnored == TRUE

(* reserveReleaseUpdate: a put that succeeds only if there is no object.   *)
LockAvailable == ~lock

(* A publish then takes its timestamp and starts every module upload.      *)
Reserve(r) ==
    /\ pc[r] = "reserve"
    /\ LockAvailable
    /\ lock' = TRUE
    /\ IF kind[r] = "publish"
       THEN /\ stamp' = [stamp EXCEPT ![r] = clock]
            /\ used' = [used EXCEPT ![clock] = @ \cup {r}]
            /\ inflight' = [inflight EXCEPT ![r] = archive[r]]
            /\ Goto(r, "modules")
       ELSE /\ Goto(r, "activate")
            /\ UNCHANGED <<stamp, used, inflight>>
    /\ UNCHANGED <<clock, store, current, request, result, leaked>>

(* The object exists: ConflictError, answered with 409.                    *)
Conflict(r) ==
    /\ pc[r] = "reserve"
    /\ ~LockAvailable
    /\ Goto(r, "done") /\ Answer(r, "error")
    /\ UNCHANGED <<clock, store, lock, current, request, stamp, inflight, used, leaked>>

(* An upload of Promise.all lands, also after its request has ended.       *)
PutModule(r, m) ==
    /\ m \in inflight[r]
    /\ module' = [module EXCEPT ![stamp[r]][m] = r]
    /\ inflight' = [inflight EXCEPT ![r] = @ \ {m}]
    /\ UNCHANGED <<clock, manifest, lock, current, pc, request, stamp, result,
                   used, leaked>>

(* Mutant: the uploads are outside the try block.                          *)
FailModuleNoFinally(r, m) ==
    /\ m \in inflight[r]
    /\ inflight' = [inflight EXCEPT ![r] = @ \ {m}]
    /\ IF pc[r] = "modules"
       THEN Goto(r, "done") /\ Answer(r, "error")
       ELSE UNCHANGED <<pc, result>>
    /\ UNCHANGED <<clock, store, lock, current, request, stamp, used, leaked>>

(* An upload fails.  Promise.all rejects at once, the others go on.        *)
FailModule(r, m) ==
    /\ m \in inflight[r]
    /\ inflight' = [inflight EXCEPT ![r] = @ \ {m}]
    /\ IF pc[r] = "modules"
       THEN Goto(r, "unlock") /\ Answer(r, "error")
       ELSE UNCHANGED <<pc, result>>
    /\ UNCHANGED <<clock, store, lock, current, request, stamp, used, leaked>>

(* Mutant: the await is missing.                                           *)
ModulesStarted(r) == TRUE

(* await Promise.all: every upload has succeeded.                          *)
ModulesUploaded(r) == inflight[r] = {}

AwaitModules(r) ==
    /\ pc[r] = "modules"
    /\ ModulesUploaded(r)
    /\ Goto(r, "manifest")
    /\ UNCHANGED <<clock, store, lock, current, request, stamp, inflight,
                   result, used, leaked>>

PutManifest(r) ==
    /\ pc[r] = "manifest"
    /\ manifest' = [manifest EXCEPT ![stamp[r]] = r]
    /\ Goto(r, "activate")
    /\ UNCHANGED <<clock, module, lock, current, request, stamp, inflight,
                   result, used, leaked>>

(* RELEASES.put, the commit point of both handlers.                        *)
PutCurrent(r) ==
    /\ pc[r] = "activate"
    /\ current' = stamp[r]
    /\ Goto(r, "unlock") /\ Answer(r, "ok")
    /\ UNCHANGED <<clock, store, lock, request, stamp, inflight, used, leaked>>

(* The manifest or pointer put throws, with or without having taken effect *)
FailPut(r) ==
    /\ pc[r] \in {"manifest", "activate"}
    /\ \/ UNCHANGED <<manifest, current>>
       \/ /\ pc[r] = "manifest"
          /\ manifest' = [manifest EXCEPT ![stamp[r]] = r]
          /\ UNCHANGED current
       \/ /\ pc[r] = "activate"
          /\ current' = stamp[r]
          /\ UNCHANGED manifest
    /\ Goto(r, "unlock") /\ Answer(r, "error")
    /\ UNCHANGED <<clock, module, lock, request, stamp, inflight, used, leaked>>

(* finally: the lock object is deleted,                                    *)
Unlock(r) ==
    /\ pc[r] = "unlock"
    /\ lock' = FALSE
    /\ Goto(r, "done")
    /\ UNCHANGED <<clock, store, current, request, stamp, inflight, result,
                   used, leaked>>

(* unless the delete throws, deleted or not: the request is answered 500.  *)
FailUnlock(r) ==
    /\ pc[r] = "unlock"
    /\ lock' \in {lock, FALSE}
    /\ leaked' = lock'
    /\ Goto(r, "done") /\ Answer(r, "error")
    /\ UNCHANGED <<clock, store, current, request, stamp, inflight, used>>

(* R2 throws, or the isolate is evicted, before the try block is entered:  *)
(* the put of the lock object may have taken effect, and no finally        *)
(* deletes it.                                                             *)
FailBefore(r) ==
    /\ pc[r] \in {"head", "reserve"}
    /\ lock' \in (IF pc[r] = "reserve" THEN {lock, TRUE} ELSE {lock})
    /\ leaked' = (leaked \/ lock' # lock)
    /\ Goto(r, "done") /\ Answer(r, "error")
    /\ UNCHANGED <<clock, store, current, request, stamp, inflight, used>>

(* The isolate is evicted or the caller disconnects at an await of the try *)
(* block.                                                                  *)
Evict(r) ==
    /\ pc[r] \in Holding
    /\ leaked' = TRUE
    /\ Goto(r, "done") /\ Answer(r, "error")
    /\ UNCHANGED <<clock, store, lock, current, request, stamp, inflight, used>>

Tick ==
    /\ clock < MaxTime
    /\ clock' = clock + 1
    /\ UNCHANGED <<store, lock, current, pc, request, stamp, inflight, result,
                   used, leaked>>

-----------------------------------------------------------------------------
Step(r) ==
    \/ HeadManifest(r)
    \/ Reserve(r)
    \/ Conflict(r)
    \/ AwaitModules(r)
    \/ PutManifest(r)
    \/ PutCurrent(r)
    \/ FailPut(r)
    \/ Unlock(r)

Upload(r) == \E m \in Modules : PutModule(r, m) \/ FailModule(r, m)

Next ==
    \/ \E r \in Requests :
          \/ \E names \in SUBSET Modules : BeginPublish(r, names)
          \/ \E t \in Stamps : BeginRollback(r, t)
          \/ Refuse(r)
          \/ Step(r)
          \/ Upload(r)
          \/ FailUnlock(r)
          \/ FailBefore(r)
          \/ Evict(r)
    \/ Tick

Spec == Init /\ [][Next]_vars

(* An awaited call of a request that is not evicted settles. *)
FairSpec == Spec /\ \A r \in Requests : WF_vars(Step(r)) /\ WF_vars(Upload(r))

-----------------------------------------------------------------------------
(***************************************************************************)
(* Uploads and rollbacks of one ABI are serialized: at most one request is *)
(* between reserveReleaseUpdate and the end of its finally block.          *)
(***************************************************************************)
Serialized ==
    \A r, s \in Requests : pc[r] \in Holding /\ pc[s] \in Holding => r = s

(* Whose bytes a client of the release t finds for each module of it.      *)
content ==
    [t \in Stamps |->
        [m \in IF manifest[t] = None THEN {} ELSE archive[manifest[t]] |-> module[t][m]]]

(***************************************************************************)
(* Both handlers, with all their calls, failures and evictions, implement  *)
(* the contract: clients see whole and immutable releases and a pointer    *)
(* that only moves to a release that is there.                             *)
(***************************************************************************)
Contract == INSTANCE ReleaseContract WITH taken <- used, active <- current

KeepsReleaseContract == Contract!Spec

(***************************************************************************)
(* The active release can be served: its manifest and every module of the  *)
(* archive that manifest came with are in R2, whatever failed or was       *)
(* evicted on the way and whichever release a rollback chose.              *)
(***************************************************************************)
CurrentServable ==
    current # None =>
        /\ manifest[current] # None
        /\ \A m \in archive[manifest[current]] : module[current][m] # None

(***************************************************************************)
(* Every release whose manifest is in R2 holds exactly the uploads of one  *)
(* archive, also against uploads still in flight from failed requests, as  *)
(* long as no two requests took the same one-second timestamp.             *)
(***************************************************************************)
ReleaseIsWhole ==
    \A t \in Stamps, r \in Requests :
        used[t] = {r} /\ manifest[t] # None =>
            manifest[t] = r /\ \A m \in archive[r] : module[t][m] = r

(***************************************************************************)
(* A request about to answer with success still names the active release:  *)
(* nobody else moved the pointer between its put and its answer.           *)
(***************************************************************************)
SuccessIsActive ==
    \A r \in Requests :
        pc[r] = "unlock" /\ result[r] = "ok" => current = stamp[r]

(***************************************************************************)
(* Whatever step fails, the reservation is given back (the finally blocks):*)
(* only an eviction, or a put or delete of the lock object that fails      *)
(* unheard, leaves it behind.                                              *)
(***************************************************************************)
LockReturned == lock ~> (~lock \/ leaked)

(***************************************************************************)
(* The lock object is the reservation of one live request, or left behind  *)
(* by one that is gone: never both, and never there for no reason.         *)
(***************************************************************************)
LockAccounted ==
    /\ lock <=> (leaked \/ \E r \in Requests : pc[r] \in Holding)
    /\ leaked => \A r \in Requests : pc[r] \notin Holding

(***************************************************************************)
(* A lock object left behind has no expiry and no code that removes it:    *)
(* from then on no release is published and no rollback moves the pointer. *)
(***************************************************************************)
LostLockFreezes == [][leaked => leaked' /\ lock' /\ UNCHANGED <<manifest, current>>]_vars
=============================================================================
