---------------------------- MODULE AssetServing ----------------------------
(***************************************************************************)
(* The fetch handler of the assets worker as a whole, for one Zipline ABI: *)
(* admin requests are validated before they become the requests of         *)
(* ReleaseWorker, and meanwhile GET and HEAD requests resolve the pointer  *)
(* in KV and read objects from R2.                                         *)
(*                                                                         *)
(* KV is external and eventually consistent: a read gives some value that  *)
(* the pointer has had.  Either store may throw.                           *)
(***************************************************************************)
EXTENDS ReleaseWorker, FiniteSets, Sequences

CONSTANTS
    Readers,            \* GET and HEAD requests in progress
    Manifest,           \* the asset name manifest.zipline.json
    AdminPassword,      \* the Worker's secret, None if it is not set
    AdminRequests,      \* what is sent to the admin paths
    Paths,              \* what is asked for outside the admin paths
    MAX_ARCHIVE_BYTES,
    MAX_MODULES,
    MAX_UNCOMPRESSED_BYTES

ASSUME ServingAssumption ==
    /\ Manifest \notin Modules
    /\ MAX_MODULES \in Nat
    /\ MAX_UNCOMPRESSED_BYTES \in Nat

(* The entries of a ZIP archive, each of which expands to some bytes.      *)
IsArchive(entries) ==
    /\ entries \in Seq({entries[i] : i \in DOMAIN entries})
    /\ \A i \in DOMAIN entries : entries[i].size \in Nat

ASSUME RequestsAssumption ==
    \A q \in AdminRequests : q.path = "/admin/releases" => IsArchive(q.entries)

VARIABLES
    upload,     \* upload[r]: the entries of the ZIP archive r has published
    activated,  \* every value the pointer has had
    reader      \* reader[c]: where a GET or HEAD request stands, what it was told

servingVars == <<vars, upload, activated, reader>>

AssetNames == Modules \cup {Manifest}

Idle == [step |-> "idle"]

ServingInit ==
    /\ Init
    /\ upload = [r \in Requests |-> <<>>]
    /\ activated = {None}
    /\ reader = [c \in Readers |-> Idle]

-----------------------------------------------------------------------------
(* Admin requests.  Tokens are compared by their digests: equality.        *)
isAuthorized(token) ==
    token # None /\ AdminPassword # None /\ token = AdminPassword

Admitted(q) == q.method = "POST" /\ isAuthorized(q.token) /\ q.versionValid

(* The declared length is a number, within the limit and that of the body. *)
LengthPermitted(q) ==
    /\ q.contentLength # None
    /\ q.contentLength \in 0 .. MAX_ARCHIVE_BYTES
    /\ q.byteLength = q.contentLength

(* An entry starts: its name, its declared size and the modules so far.    *)
EntryAllowed(parsed, file) ==
    /\ file.name \in AssetNames
    /\ file.originalSize # None
    /\ file.originalSize <= MAX_UNCOMPRESSED_BYTES
    /\ file.name \in Modules => parsed.moduleCount < MAX_MODULES

(* Mutant: what an entry expands to is not added up.                       *)
EachExpandsWithinLimits(parsed, file) ==
    ~file.corrupt /\ file.size <= file.originalSize

(* Its data: no longer than declared, and all together within the limit.   *)
ExpandsWithinLimits(parsed, file) ==
    /\ ~file.corrupt
    /\ file.size <= file.originalSize
    /\ parsed.totalUncompressedBytes + file.size <= MAX_UNCOMPRESSED_BYTES

AddFile(parsed, file) ==
    IF ~parsed.valid THEN parsed
    ELSE IF ~EntryAllowed(parsed, file) THEN [parsed EXCEPT !.valid = FALSE]
    ELSE IF ~ExpandsWithinLimits(parsed, file) THEN [parsed EXCEPT !.valid = FALSE]
    ELSE [valid |-> TRUE,
          moduleCount |-> parsed.moduleCount + (IF file.name \in Modules THEN 1 ELSE 0),
          totalUncompressedBytes |-> parsed.totalUncompressedBytes + file.size,
          files |-> [name \in DOMAIN parsed.files \cup {file.name} |->
                        IF name = file.name THEN file ELSE parsed.files[name]]]

NothingParsed == [valid |-> TRUE, moduleCount |-> 0, totalUncompressedBytes |-> 0, files |-> <<>>]

(* Files of the same name overwrite each other.                            *)
parseArchive(entries) ==
    LET upTo[n \in 0 .. Len(entries)] ==
            IF n = 0 THEN NothingParsed ELSE AddFile(upTo[n - 1], entries[n])
        parsed == upTo[Len(entries)]
        names == DOMAIN parsed.files
    IN  [files |-> parsed.files,
         valid |-> /\ parsed.valid
                   /\ Manifest \in names
                   /\ names \cap Modules # {}
                   /\ parsed.files[Manifest].json]

(* handleAdminRelease up to reserveReleaseUpdate; the first failing check  *)
(* answers 405, 401 or 400, and nothing else happens.                      *)
PostRelease(r, q) ==
    LET archived == parseArchive(q.entries)
    IN  /\ q.path = "/admin/releases"
        /\ IF Admitted(q) /\ LengthPermitted(q) /\ archived.valid
           THEN /\ BeginPublish(r, DOMAIN archived.files \cap Modules)
                /\ upload' = [upload EXCEPT ![r] = q.entries]
           ELSE Refuse(r) /\ UNCHANGED upload

(* handleAdminRollback up to the look at the manifest.                     *)
PostRollback(r, q) ==
    /\ q.path = "/admin/rollback"
    /\ IF Admitted(q) /\ q.releaseTimestamp \in Stamps
       THEN BeginRollback(r, q.releaseTimestamp) /\ UNCHANGED upload
       ELSE Refuse(r) /\ UNCHANGED upload

-----------------------------------------------------------------------------
(* Pathnames: /<area>/<version>[/<stamp>][/<name>].                        *)
parseCurrentReleaseVersion(path) ==
    path.area = "current" /\ path.versionValid /\ path.stamp = None /\ path.name = None

(* Mutant: assets below /current are served as immutable, too.             *)
parseAsImmutable(path) ==
    IF path.versionValid /\ path.name \in AssetNames /\ path.area = "current" /\ path.stamp = None
    THEN {[assetName |-> path.name, cacheControl |-> "immutable", releaseTimestamp |-> None]}
    ELSE {}

(* No asset request, or the only one the path stands for.                  *)
parseAssetRequest(path) ==
    IF ~path.versionValid \/ path.name \notin AssetNames THEN {}
    ELSE IF path.area = "current" /\ path.stamp = None
    THEN {[assetName |-> path.name, cacheControl |-> "no-store", releaseTimestamp |-> None]}
    ELSE IF path.area = "releases" /\ path.stamp \in Stamps
    THEN {[assetName |-> path.name, cacheControl |-> "immutable", releaseTimestamp |-> path.stamp]}
    ELSE {}

(* The object under a key, None if there is none.                          *)
Object(t, name) == IF name = Manifest THEN manifest[t] ELSE module[t][name]

Become(c, state) == reader' = [reader EXCEPT ![c] = state]

(* fetch routes any other request; a finished one may be followed by       *)
(* another.  Methods but GET and HEAD, and unknown paths, are refused.     *)
Fetch(c, path) ==
    /\ reader[c].step \in {"idle", "served"}
    /\ IF path.method \notin {"GET", "HEAD"} THEN Become(c, Idle)
       ELSE IF parseCurrentReleaseVersion(path) THEN Become(c, [step |-> "release"])
       ELSE \/ \E a \in parseAssetRequest(path) :
                  Become(c, IF a.releaseTimestamp = None THEN [step |-> "pointer", asset |-> a]
                            ELSE [step |-> "object", asset |-> a, stamp |-> a.releaseTimestamp])
            \/ parseAssetRequest(path) = {} /\ Become(c, Idle)
    /\ UNCHANGED <<vars, upload, activated>>

(* handleCurrentReleaseRequest: the timestamp as JSON, 503 without one.    *)
ReadCurrentRelease(c) ==
    /\ reader[c].step = "release"
    /\ \E t \in activated :
          Become(c, IF t = None THEN Idle ELSE [step |-> "told", stamp |-> t])
    /\ UNCHANGED <<vars, upload, activated>>

(* resolveReleaseTimestamp of a path below /current, 503 without a pointer.*)
ResolveReleaseTimestamp(c) ==
    /\ reader[c].step = "pointer"
    /\ \E t \in activated :
          Become(c, IF t = None THEN Idle
                    ELSE [step |-> "object", asset |-> reader[c].asset, stamp |-> t])
    /\ UNCHANGED <<vars, upload, activated>>

(* handleAssetRequest: the object and its headers, or 404.                 *)
ReadObject(c) ==
    /\ reader[c].step = "object"
    /\ LET object == Object(reader[c].stamp, reader[c].asset.assetName)
       IN  Become(c, IF object = None THEN Idle
                     ELSE [step |-> "served", asset |-> reader[c].asset,
                           stamp |-> reader[c].stamp, body |-> object])
    /\ UNCHANGED <<vars, upload, activated>>

(* KV or R2 throws: 500.                                                   *)
FailRead(c) ==
    /\ reader[c].step \in {"release", "pointer", "object"}
    /\ Become(c, Idle)
    /\ UNCHANGED <<vars, upload, activated>>

-----------------------------------------------------------------------------
Post(r, q) ==
    /\ PostRelease(r, q) \/ PostRollback(r, q)
    /\ UNCHANGED <<activated, reader>>

Work ==
    /\ \/ \E r \in Requests : Step(r) \/ Upload(r) \/ FailUnlock(r) \/ FailBefore(r) \/ Evict(r)
       \/ Tick
    /\ activated' = activated \cup {current'}
    /\ UNCHANGED <<upload, reader>>

Read(c) ==
    \/ \E path \in Paths : Fetch(c, path)
    \/ ReadCurrentRelease(c)
    \/ ResolveReleaseTimestamp(c)
    \/ ReadObject(c)
    \/ FailRead(c)

ServingNext ==
    \/ \E r \in Requests, q \in AdminRequests : Post(r, q)
    \/ Work
    \/ \E c \in Readers : Read(c)

ServingSpec == ServingInit /\ [][ServingNext]_servingVars

FairServing ==
    ServingSpec /\ \A r \in Requests : WF_vars(Step(r)) /\ WF_vars(Upload(r))

-----------------------------------------------------------------------------
(* What all entries expand to together.                                    *)
ExpandedBytes(entries) ==
    LET upTo[n \in 0 .. Len(entries)] ==
            IF n = 0 THEN 0 ELSE upTo[n - 1] + entries[n].size
    IN  upTo[Len(entries)]

(* An archive and the names of the modules that are uploaded from it.      *)
WithinLimits(entries, modules) ==
    /\ {entries[i].name : i \in DOMAIN entries} = modules \cup {Manifest}
    /\ Cardinality(modules) \in 1 .. MAX_MODULES
    /\ ExpandedBytes(entries) <= MAX_UNCOMPRESSED_BYTES

(***************************************************************************)
(* "The Worker validates the entire archive before writing" (README.md of  *)
(* the worker): whatever release has its manifest in R2 came with an       *)
(* archive within the documented limits, however entries repeat, declare   *)
(* their sizes or expand.                                                  *)
(***************************************************************************)
StoredWithinLimits ==
    \A t \in Stamps : manifest[t] # None =>
        WithinLimits(upload[manifest[t]], archive[manifest[t]])

Servable(t) == manifest[t] # None /\ \A m \in archive[manifest[t]] : module[t][m] # None

(***************************************************************************)
(* A release that was ever active can be read in whole for ever: a client  *)
(* that was told it, even by a stale read of KV, finds its manifest and    *)
(* every module; so does a path below /current whose pointer was resolved  *)
(* before another release was activated.                                   *)
(***************************************************************************)
AnnouncedStaysServable ==
    /\ \A t \in activated \ {None} : Servable(t)
    /\ \A c \in Readers :
          \/ reader[c].step = "told"
          \/ reader[c].step = "object" /\ reader[c].asset.releaseTimestamp = None
          => Servable(reader[c].stamp)

(* What the origin answers to an asset request at once.                    *)
Origin(asset) ==
    LET t == IF asset.releaseTimestamp = None THEN current ELSE asset.releaseTimestamp
    IN  IF t = None THEN None ELSE Object(t, asset.assetName)

(***************************************************************************)
(* "These immutable paths use a one-year cache lifetime" (README.md): an   *)
(* answer marked immutable stays what the origin would answer, whatever is *)
(* published or rolled back to later, as long as no other request took the *)
(* same one-second timestamp.                                              *)
(***************************************************************************)
ImmutableStaysTrue ==
    \A c \in Readers :
        /\ reader[c].step = "served"
        /\ reader[c].asset.cacheControl = "immutable"
        /\ used[reader[c].stamp] = {reader[c].body}
        => Origin(reader[c].asset) = reader[c].body
=============================================================================
