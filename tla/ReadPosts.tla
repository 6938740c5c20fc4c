----------------------------- MODULE ReadPosts -----------------------------
(***************************************************************************)
(* ReadPostsRepository: the set of read posts, kept in a table and, once   *)
(* it has been loaded, in a StateFlow the lists show.  Coroutines of the   *)
(* view model load it or mark a post; each may be cancelled while it is    *)
(* suspended, and the process may die between any two steps.               *)
(***************************************************************************)
EXTENDS Naturals

CONSTANTS
    Posts,      \* short ids
    Jobs,       \* coroutines that overlap
    None,       \* no post, no holder
    MaxDeaths   \* bound on process deaths

ASSUME ConstantsAssumption ==
    /\ None \notin Posts \cup Jobs
    /\ MaxDeaths \in Nat

VARIABLES
    table,          \* ReadPosts
    readPosts,      \* _readPosts
    initialized,    \* the flag beside it
    holder,         \* who holds initializationMutex, or None
    pc,             \* the next step of a job
    post,           \* the post a job marks; None: it only initializes
    loaded,         \* what a job's query returned
    deaths          \* counter for the bound

vars == <<table, readPosts, initialized, holder, pc, post, loaded, deaths>>

TypeOK ==
    /\ table \in SUBSET Posts /\ readPosts \in SUBSET Posts
    /\ initialized \in BOOLEAN
    /\ holder \in Jobs \cup {None}
    /\ pc \in [Jobs -> {"idle", "lock", "check", "query", "set", "insert",
                        "update", "unlock"}]
    /\ post \in [Jobs -> Posts \cup {None}]
    /\ loaded \in [Jobs -> SUBSET Posts]
    /\ deaths \in 0 .. MaxDeaths

Init ==
    /\ table = {} /\ readPosts = {} /\ initialized = FALSE
    /\ holder = None
    /\ pc = [j \in Jobs |-> "idle"]
    /\ post = [j \in Jobs |-> None]
    /\ loaded = [j \in Jobs |-> {}]
    /\ deaths = 0

Goto(j, step) == pc' = [pc EXCEPT ![j] = step]

(* The step after initializeLocked: insert, or nothing for initialize.     *)
AfterInit(j) == IF post[j] = None THEN "unlock" ELSE "insert"

-----------------------------------------------------------------------------
(* initialize() or markRead(p) is called.                                  *)
Call(j, p) ==
    /\ pc[j] = "idle"
    /\ post' = [post EXCEPT ![j] = p]
    /\ Goto(j, "lock")
    /\ UNCHANGED <<table, readPosts, initialized, holder, loaded, deaths>>

(* Mutant: there is no mutex.                                              *)
NoMutex == TRUE

MutexFree == holder = None

Lock(j) ==
    /\ pc[j] = "lock"
    /\ MutexFree
    /\ holder' = j
    /\ Goto(j, "check")
    /\ UNCHANGED <<table, readPosts, initialized, post, loaded, deaths>>

(* initializeLocked returns early once it has run.                         *)
CheckInitialized(j) ==
    /\ pc[j] = "check"
    /\ Goto(j, IF initialized THEN AfterInit(j) ELSE "query")
    /\ UNCHANGED <<table, readPosts, initialized, holder, post, loaded, deaths>>

(* selectAllPosts on the read dispatcher.                                  *)
Query(j) ==
    /\ pc[j] = "query"
    /\ loaded' = [loaded EXCEPT ![j] = table]
    /\ Goto(j, "set")
    /\ UNCHANGED <<table, readPosts, initialized, holder, post, deaths>>

(* Back from the dispatcher: the StateFlow is set, then the flag.          *)
SetLoaded(j) ==
    /\ pc[j] = "set"
    /\ readPosts' = loaded[j]
    /\ initialized' = TRUE
    /\ loaded' = [loaded EXCEPT ![j] = {}]
    /\ Goto(j, AfterInit(j))
    /\ UNCHANGED <<table, holder, post, deaths>>

(* markRead: INSERT ... ON CONFLICT DO NOTHING RETURNING id.  With nothing *)
(* returned there is no update.                                            *)
Insert(j) ==
    /\ pc[j] = "insert"
    /\ table' = table \cup {post[j]}
    /\ Goto(j, IF post[j] \in table THEN "unlock" ELSE "update")
    /\ UNCHANGED <<readPosts, initialized, holder, post, loaded, deaths>>

Update(j) ==
    /\ pc[j] = "update"
    /\ readPosts' = readPosts \cup {post[j]}
    /\ Goto(j, "unlock")
    /\ UNCHANGED <<table, initialized, holder, post, loaded, deaths>>

Release(j) ==
    /\ Goto(j, "idle")
    /\ post' = [post EXCEPT ![j] = None]
    /\ loaded' = [loaded EXCEPT ![j] = {}]
    /\ holder' = IF holder = j THEN None ELSE holder

Unlock(j) ==
    /\ pc[j] = "unlock"
    /\ Release(j)
    /\ UNCHANGED <<table, readPosts, initialized, deaths>>

(* Mutants: a cancelled block stops between its two statements; a          *)
(* cancelled job keeps the mutex.                                          *)
CancellableAnywhere == {"lock", "check", "query", "set", "insert", "update"}

CancelKeepingMutex(j) ==
    /\ pc[j] \in {"lock", "query", "set", "insert"}
    /\ Goto(j, "idle")
    /\ post' = [post EXCEPT ![j] = None]
    /\ loaded' = [loaded EXCEPT ![j] = {}]
    /\ UNCHANGED <<table, readPosts, initialized, holder, deaths>>

(* Where a job is suspended: it waits for the mutex or for a dispatcher, or*)
(* to be resumed by one.  The block of insert and update has no suspension *)
(* point.                                                                  *)
Cancellable == {"lock", "query", "set", "insert"}

(* The view model is cleared: withLock releases the mutex.                 *)
Cancel(j) ==
    /\ pc[j] \in Cancellable
    /\ Release(j)
    /\ UNCHANGED <<table, readPosts, initialized, deaths>>

(* The process dies: the table survives.                                   *)
Die ==
    /\ deaths < MaxDeaths
    /\ deaths' = deaths + 1
    /\ readPosts' = {} /\ initialized' = FALSE /\ holder' = None
    /\ pc' = [j \in Jobs |-> "idle"]
    /\ post' = [j \in Jobs |-> None]
    /\ loaded' = [j \in Jobs |-> {}]
    /\ UNCHANGED table

Run(j) ==
    \/ Lock(j)
    \/ CheckInitialized(j)
    \/ Query(j)
    \/ SetLoaded(j)
    \/ Insert(j)
    \/ Update(j)
    \/ Unlock(j)

Next ==
    \/ \E j \in Jobs :
          \/ \E p \in Posts \cup {None} : Call(j, p)
          \/ Run(j)
          \/ Cancel(j)
    \/ Die

Spec == Init /\ [][Next]_vars

(* Started jobs run and the mutex is fair: it queues its waiters.          *)
FairSpec ==
    Spec /\ \A j \in Jobs : SF_vars(Lock(j)) /\ WF_vars(Run(j))

-----------------------------------------------------------------------------
(***************************************************************************)
(* Once loaded, the cache is the table, except for the row whose block is  *)
(* between its insert and its update.                                      *)
(***************************************************************************)
CacheIsTable ==
    initialized =>
        table = readPosts \cup {post[j] : j \in {k \in Jobs : pc[k] = "update"}}

(***************************************************************************)
(* A post that is shown as read stays so for as long as the process lives: *)
(* a load that was overtaken by a mark never takes it back.                *)
(***************************************************************************)
ReadStaysRead == [][deaths' = deaths => readPosts \subseteq readPosts']_vars

(***************************************************************************)
(* The mutex is held by one job, which is between lock and unlock: a job   *)
(* that ends, or is cancelled wherever it is suspended, has given it back. *)
(***************************************************************************)
HeldWhileRunning ==
    \A j \in Jobs : holder = j <=> pc[j] \notin {"idle", "lock"}

(* Nobody waits for the mutex for ever.                                    *)
MutexReturned == \A j \in Jobs : pc[j] = "lock" ~> pc[j] # "lock"
=============================================================================
