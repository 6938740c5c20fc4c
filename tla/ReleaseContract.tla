-------------------------- MODULE ReleaseContract --------------------------
(***************************************************************************)
(* What the assets worker promises for one Zipline ABI, without objects,   *)
(* locks, failing calls and evictions: releases and a pointer to one.      *)
(*                                                                         *)
(* A release appears under its timestamp at once and whole, the manifest   *)
(* together with every module of one archive, and then never changes.      *)
(* The pointer is only moved to a release that is there.  Only a timestamp *)
(* that several requests took, all within its second, may hold a mixture   *)
(* of their uploads, and change while they last.                           *)
(***************************************************************************)
CONSTANTS
    Requests,   \* the requests that may publish
    Modules,    \* the names of modules
    Stamps,     \* the timestamps
    None

VARIABLES
    archive,    \* archive[r]: the names of the modules r wants to publish
    taken,      \* taken[t]: the requests that took t as their timestamp
    manifest,   \* manifest[t]: whose manifest a client finds under t, or None
    content,    \* content[t]: whose bytes it finds for each module of that archive
    active      \* the timestamp that clients are sent to, or None

vars == <<archive, taken, manifest, content, active>>

Init ==
    /\ archive = [r \in Requests |-> {}]
    /\ taken = [t \in Stamps |-> {}]
    /\ manifest = [t \in Stamps |-> None]
    /\ content = [t \in Stamps |-> [m \in {} |-> None]]
    /\ active = None

Fresh(r) == \A t \in Stamps : r \notin taken[t]

Submit(r, names) ==
    /\ names # {} /\ Fresh(r)
    /\ archive' = [archive EXCEPT ![r] = names]
    /\ UNCHANGED <<taken, manifest, content, active>>

Take(r, t) ==
    /\ archive[r] # {} /\ Fresh(r)
    /\ taken' = [taken EXCEPT ![t] = @ \cup {r}]
    /\ UNCHANGED <<archive, manifest, content, active>>

Publish(r, t) ==
    /\ r \in taken[t]
    /\ taken[t] = {r} => manifest[t] = None
    /\ manifest' = [manifest EXCEPT ![t] = r]
    /\ \E files \in [archive[r] -> taken[t]] : content' = [content EXCEPT ![t] = files]
    /\ UNCHANGED <<archive, taken, active>>

Activate(t) ==
    /\ manifest[t] # None
    /\ active' = t
    /\ UNCHANGED <<archive, taken, manifest, content>>

Next ==
    \/ \E r \in Requests, names \in SUBSET Modules : Submit(r, names)
    \/ \E r \in Requests, t \in Stamps : Take(r, t) \/ Publish(r, t)
    \/ \E t \in Stamps : Activate(t)

Spec == Init /\ [][Next]_vars

-----------------------------------------------------------------------------
(***************************************************************************)
(* The release a client is sent to has its manifest and at least a module, *)
(* and no module of it is missing.                                         *)
(***************************************************************************)
ActiveIsComplete ==
    active # None =>
        /\ manifest[active] # None
        /\ DOMAIN content[active] = archive[manifest[active]]
        /\ archive[manifest[active]] # {}

(***************************************************************************)
(* "Each Zipline ABI has its own immutable R2 release tree" (README.md of  *)
(* the worker): a published release never changes as long as no other      *)
(* request takes its timestamp.                                            *)
(***************************************************************************)
ReleasesAreImmutable ==
    [][\A t \in Stamps : manifest[t] # None /\ taken'[t] = {manifest[t]} =>
           manifest'[t] = manifest[t] /\ content'[t] = content[t]]_vars
=============================================================================
