# Claw for lobste.rs: specifications, model checking and proofs

TLA+ specifications of the stateful parts of this repository: the Android
client (`android/`, `common/`, `core/`, `api/`, `database/`), the Cloudflare
worker that serves its downloadable parser (`assets-worker/src`) and the lint plugin
that worker is checked with (`assets-worker/tools/oxlint/anti-slop`). Modules named
`MC*` instantiate a specification for TLC, modules named `*Proofs` hold theorems
checked by TLAPS. Paths below are relative to the repository.

## 1. Inventory

Short names: `A` = `android/src/main/kotlin/dev/msfjarvis/claw/android`,
`C` = `common/src/main/kotlin/dev/msfjarvis/claw/common`,
`N` = `core/src/main/kotlin/dev/msfjarvis/claw/core/network`,
`API` = `api/src/main/kotlin/dev/msfjarvis/claw/api`,
`SQ` = `database/core/src/main/sqldelight/dev/msfjarvis/claw/database/local`.

| Component | State | Operations | Hard behaviour |
|---|---|---|---|
| Daily reminder (`A/reminders`, `A/work/DailySavedPostReminderWorker.kt`, `SQ/DailySavedPostNotification.sq`) | settings, one row per date, WorkManager's unique work | run, select, notify, mark, retry, re-arm, enable, change time, reconcile | worker and main thread race on settings and work; crash between notification and mark; the chain of one-time works must not break |
| Assets worker (`assets-worker/src/index.ts`) | R2 objects, R2 lock object, KV pointer | validate, publish, rollback, serve | overlapping requests, parallel uploads that outlive a failure, eviction with the lock held, one-second timestamps; archives at their limits; reads of a stale pointer and year-long cache lifetimes while releases change |
| Anti-slop lint plugin (`assets-worker/tools/oxlint/anti-slop`) | the type environment its rules share, kept between files | visit a node, renew the environment | names resolved by spelling through aliases of aliases, shadowing, cycles, rules that must agree |
| Session (`N/LobstersCookieJar.kt`, `N/SessionExpiryInterceptor.kt`, `C/login`, `SQ/SessionCookie.sq`) | one row: cookies and user name | load, save, clear and retry, login, logout, challenge cookie | read-modify-write without a transaction on OkHttp's threads; a login racing a request that is under way |
| Saved posts (`A/viewmodel/SavedPostsRepository.kt`, `A/work/SavedPostUpdaterWorker.kt`, `DataTransferRepository.kt`) | `SavedPost` table, flows of it | toggle, import, export, refresh | the refresh writes back a snapshot that may be stale |
| Read posts (`A/viewmodel/ReadPostsRepository.kt`) | table, cached set, initialized flag | initialize, mark read | lazily loaded cache, cancellation of the load |
| Tag filters (`C/tags`, `API/AuthenticatedLobstersApi.kt`) | server's list, `TagBlocks` table, draft | load, edit, save, discard, expiry clean-up | edits during a save, logout between load and save, remote success then local failure |
| Comments (`C/comments`) | tree of nodes with expansion and unread flags, votes | build, collapse, mark unread, vote, reply | long sequences of collapses; optimistic votes; a retried reply |
| Zipline parser (`A/zipline`, `API/converters`) | loaded service, embedded fallback, single thread | load, fall back, parse, evict, close | load racing close and eviction, download failures |
| Retry-After (`N/RetryAfterInterceptor.kt`) | none across calls | retry once after a delay | boundaries of the header's value; retried inside, or around, the session's own retry |
| Paging, search, navigation (`A/paging`, `A/ui/lists`, `A/ui/navigation`) | page keys, query, back stacks | load, refresh, search, navigate | refresh keys, results of an old query |
| In-app updates (`android/src/gplay`) | the guard of one flow, a channel of requests, a shared flow of prompts | check, resume, offer, launch, result, install listener, complete | late and reordered answers, an activity recreated or gone between a request and its flow |
| Login and challenge web views, widgets, telemetry, HTML renderer, theme, build logic | mostly none | | rendering and I/O |

How they interact: view models on the main thread call repositories, which
switch to the database write dispatcher (`limitedParallelism(1)`); workers run
in the same process and use the same repositories and settings; OkHttp calls
the cookie jar and the interceptors on its own threads; WorkManager's own
database, the SQLite tables and the shared preferences survive the process.

What makes each component correct:

- reminder: one post per date; a recorded delivery was shown and is not
  repeated; the chain of works lives as long as reminders are enabled;
- assets worker: the pointer always names a complete release; updates are
  serialized; the lock comes back; only archives within the limits are stored;
  what a client was ever told stays readable, and an answer cached as immutable
  stays what the origin would answer;
- lint plugin: names are read lexically, whatever file came before; what is
  reported is what the types mean and what the values can be traced to;
- session: merging keeps unrelated cookies; only a login logs in; expiry ends
  the session it found expired; a call ends whatever the server answers;
- saved posts: a refresh brings every row it could fetch up to date, saves none and
  takes none back to an older version; rows keep their identity;
- read posts: the cache equals the table once loaded, and a read post stays read;
- tag filters: what is loaded or saved is what the table and the account hold;
  an anonymous page never replaces the account's filters; unsaved edits are not
  lost;
- comments: the tree is the thread, what is visible follows what is collapsed,
  what is unread follows what earlier visits remembered; votes settle to what
  the server holds;
- in-app updates: the user faces one update flow at a time, and the guard that
  says so is released by the flow that holds it.

## 2. Modules

### ReminderContract and DailyReminder

`ReminderContract` is the abstract specification: a ledger with one entry per
date, with the steps `Choose`, `Show`, `Record` and `Reopen`.

`DailyReminder` models the code. `pc`, `workDay`, `sel` and `workOp` are the
locals of `DailySavedPostReminderWorker.doWork` and of `deliver`; `row` and
`delivered` are the table; `work` and `due` WorkManager's unique work; `ui`,
`uiOp` and `resuming` the main thread inside `scheduleNext`; `retiming` and `deleting` the
`setReminderTime` coroutines, of which several may be suspended at once; `up` whether the
process lives. Every `suspend` call, SQL transaction and WorkManager call is one action. `schedule`
is two steps because it reads the settings before it calls WorkManager. The
action `FailStep` is the `retry` result of each of the three steps of `deliver`,
`StopWork` WorkManager's stop, `EndOvertaken` the cancellation of a run that
`REPLACE` or `cancel` overtook. `shown`, `reopened` and `overlapped` are history
variables; no guard of the code reads them.

`Contract == INSTANCE ReminderContract WITH chosen <- row, recorded <- delivered`
is the refinement mapping and `KeepsContract` the claim that the code implements
the ledger.

### ReleaseContract, ReleaseWorker and AssetServing

`ReleaseContract` is the abstract specification of the release protocol: a release
appears whole, in one step, under a timestamp that its request took (`Take`,
`Publish`), never changes unless several requests took that timestamp, and the
pointer moves to releases only (`Activate`). There are no objects, locks, failures
or evictions in it. `ReleaseWorker` implements it with
`Contract == INSTANCE ReleaseContract WITH taken <- used, active <- current`, where
`content`, what a client finds below a timestamp, is read off the objects in R2: as
long as there is no manifest there is nothing to find.

`ReleaseWorker` is the core of the admin handlers for one ABI: every key and the
lock have the ABI as prefix. Each R2 or KV call is an action that takes effect at
one point; `FailPut`, `FailModule` and `FailUnlock` are calls that throw, with or
without having taken effect, `FailBefore` one that throws before the reservation;
`Refuse` is an answer before anything happens; `Evict` is the end of an isolate at
any `await`. The uploads of `Promise.all` are the set `inflight`, which outlives the
request. The timestamp is the clock in seconds.

`AssetServing` extends it to the whole `fetch` handler. `PostRelease` and
`PostRollback` are the handlers up to the reservation: method, token, version,
declared length, the archive parser entry by entry (`parseArchive`, which takes
the entries through `AddFile` with the limits and the overwriting of repeated names) and the
timestamp's pattern; a request that passes becomes `BeginPublish` or
`BeginRollback` of `ReleaseWorker`. `Fetch`, `ReadCurrentRelease`,
`ResolveReleaseTimestamp` and `ReadObject` are the `GET` and `HEAD` routes, one
action per `await`. KV is eventually consistent: a read gives any value the pointer
has had (`activated`). `ServingSpec => Spec` is the refinement: serving takes no
step that the release protocol does not know.

### SessionCookies

`saveFromResponse` is three actions, `ReadUser`, `ReadJar` and `SaveMerged`: its
three SQL statements. The interceptor is `CheckExpiry` and `ClearAndRetry`. A
response is a change of cookies (`SetCookies`) and whether redirects ended at the
login page. `Login`, `Logout` and `SaveAnubisCookie` are on the main thread and
exclude each other (`mainSave`); the challenge dialog's save goes through the same three
statements and returns to the dialog.

`RetryAfterInterceptor` is `CheckRetryAfter`. Interceptors are injected as a set, so
`order` chooses which one is the inner; `Pass` hands a response outwards, and a
second `proceed` of the outer runs the inner from its start (`retried`, `waited`).
Headers are numbers of seconds or dates around the limit (`parseRetryAfter`).

### SavedPosts

`saved` is the `SavedPost` table, a row being the story it describes, that
story's version and its comments URL: a page of a story, or the anchor on the home page
that a details page gives (`Url`). `savedPostRefreshUrl` chooses the request from the URL in the
snapshot (`todo`), `refreshedSavedPost` keeps or drops its answer.
`toggleSave`, the export and the import of a backup are one transaction each and
one action each (`ToggleSave`, `ExportPosts`, `ImportPosts`). The worker's
`doWork` is `Snapshot`, one `Fetch` or `FetchFails` per row and `SaveRefreshed`:
the seconds between requests are where the user's taps interleave. `StopRefresh`
is WorkManager stopping the run or the death of the process. `Fetch` may be
answered with any story, because the site redirects merged and removed stories.
`tapped` (the rows the user wrote since the snapshot) and `due` (the versions the refresh
has to bring) are history variables.

### ReadPosts

`table` is the `ReadPosts` table, `readPosts` the `StateFlow` and `initialized`
its flag, `holder` the mutex. A job is one coroutine, calling `initialize`
(`post[j] = None`) or `markRead`; each suspension point is a boundary between
two actions, and `Cancel` ends a job only where the code can be suspended.
`Die` drops everything but the table.

### TagFilters

`state`, `tagBlocks`, `initialBlocks`, `isDirty` and `isSaving` are the view
model's fields, `table` the `TagBlocks` table, `remote` the filters of the account
and of the anonymous session. `pc` walks `loadTagsInternal` and `persistDraft`
assignment by assignment, since `save` runs on the IO dispatcher while the main
thread edits; `setDraft`'s two assignments are two actions on either thread
(`EditBlocks`, `EditDirty`; `SaveBlocks`, `SaveDirty`). `made` tells blocks apart
that are equal in every field, because `TagBlock` defines no `equals`.
`SessionChanges` is a login, a logout or an expired session between any two steps.

### InAppUpdates

The guard's three fields are `latestCheckId`, `hasRequestedUpdate` and
`isFlowInFlight`; `startUpdateEvents` is the channel, `received` the request its
collector was resumed with, `flow` the one Play shows. `Answer` is the success
listener, split as the code's `when`: `ResumeUpdate`, `PromptRestart`,
`OfferUpdate`, `NothingToDo`. `Recreate` and `OnCleared` are the ends of the
activity with and without a successor, `StartAgain` a new process. Play is external:
checks are answered in any order, with anything, or never, and a flow ends with any
result. The module has no finite instance beside it; its properties are theorems.

### The lint plugin

`LintSyntax` is what Oxlint hands to the rules: a syntax tree, as a function from
paths to nodes, and its variables. `TypeNames` is which declaration a type's name is:
the environment the rules make of a file, the lookup in it, and TypeScript's own reading
(`LexicalAlias`). `TypeAliasResolution` and `DictionaryTypes` are the shared files of the
same names: matching through aliases with substitution, the classification of
dictionaries. `TypeRules`, `ValueRules`, `AssertionRules`, `AssertionChains` and
`ArrayRules` are the ten rules that follow names through a file. A rule maps a node to
its reports. `DictionaryTypes` counts the calls left on the stack, since these functions
need not come to an end; a rule that throws ends its file (`Throw`).

`LintWalk` is the linter: it opens one file after the other and goes through the nodes in
source order. `visiting` is the node whose handlers are called next and `Following` the
node after it. The environment of the rules lives on until `VisitProgram` renews it. Its
specification `Walk` fixes what two rules say of a node, the one on chains of assertions
and the one on copies of an accumulator (`VerdictsHere`), and lets every other rule say
anything, or throw anywhere. `AntiSlop` is the plugin at work: in its `Next` all ten
rules say what they do (`Verdicts`). Its steps are steps of `AnyRules`, with `Verdicts(n)`
for `said`, since the part of `Verdicts(n)` under these two rules' names is
`VerdictsHere(n)`; so what is proved of `Walk` holds of `Spec`.

The rules on arrays follow a variable from const to const and stop when they meet one
again (`visited`). Here the expressions they come to are a sequence (`TracedBack`, and
`behind` in `isKnownArrayExpression`), of which as many are looked at as the file has
nodes: by then one of them has come twice.

`TypeMeaning` is the reference definition: TypeScript's reading of names, with
closures instead of the rules' substitutions by spelling. The properties compare the
rules with it and with definitions of what a value can be traced to. `LintFiles`
builds syntax trees and `MCAntiSlop` the files of the run.

### CommentTree

`rootNodes` is the tree in preorder with levels: `addChild` only appends at its
right edge (`RightEdge`). That is enough only because the site lists a comment's
replies, and theirs, right after it: `ThreadAssumption` says so of `Thread`, and
with any other list `addChild` drops the comment whose parent is no longer on the
edge. `createListNode`, `updateListNode` and `listItems` of
`CommentsHandler`, the page's effects (`Effects`), the load, the remembered comments
(`GetSeenComments`, `RememberComments`) and the comings and goings of the page
(`Open`, `Close`, `Die`) are one action each. The site (`Post`) adds comments to the
thread between visits. `VisibleIsExpanded` and `TreeIsThread` compare the handler's
incremental result with a definition by ancestors.

## 3. Runs

| Run | What it shows | Bounds |
|---|---|---|
| `reminder` | the delivery implements the contract; a recorded date is not shown again; the chain of works is unbroken; an interrupted delivery is finished on its date; stale work of a disabled reminder dies out | 2 posts, 2 days of 2 slots, 2 changes, 2 faults |
| `release` | the handlers implement the release contract; serialized updates, whole releases, successful answers name the active release, only archives within the limits are stored, announced releases stay readable, immutable answers stay true; the lock comes back unless leaked | 2 admin requests over every kind of archive and body, 1 reader, 2 modules, 2 seconds |
| `session` | merging keeps the rest, no name without cookies, only a login logs in; a call ends although every answer may redirect to the login page and ask to wait | 2 calls, 2 names, 1 login, headers around the limit, both orders |
| `session_delta` (violated) | overlapping saves lose cookies | 2 calls, 2 names, no login |
| `saved_posts` | a refresh mixes no stories up, takes no row back, and brings every row it could fetch up to date, whatever URL the row holds | 2 recent stories and an old one, 2 versions, 3 taps, 1 stop |
| `saved_posts_resurrect` (violated) | a refresh saves a post that was removed meanwhile | 2 stories |
| `read_posts` | the cache is the table, read posts stay read, nobody waits for the mutex for ever | 3 jobs, 2 posts, 1 process death |
| `tag_filters` | the draft's origin is what is stored, the account agrees, an anonymous page is not stored, temporary blocks survive a load; a save ends | 2 tags, 1 new block and any removals, 2 saves, 2 faults |
| `tag_filters_unsaved` (violated) | an edit during a save is not stored and not marked as unsaved | 1 tag, 2 edits, 1 save |
| `comment_tree` | tree, visibility, unread marks, remembered comments and collapsed replies | 5 comments on 3 levels, 3 visits, 2 toggles |
| `comment_tree_collapse` (violated) | a deep collapsed comment is expanded by a new visit | the same, 2 visits |
| `lint` | names are lexical whatever came before; unknown aliases and widened values are reported exactly, unsafe dictionaries too but in parentheses; an assertion that takes back an erased type is reported if the type was known; chains are reported once; copies by array methods in a reducer are those of the accumulator | some 3700 generated files, alone and two after each other |

Why the bounds are enough:

- reminder: two posts tell a replaced selection from a kept one, two days a
  delivery that crosses midnight from one that does not; two faults are a failing
  retry of a failed step; two changes are a disabling and an enabling, or a disabling
  and a new time, around one run. The safety properties are theorems for any bounds.
- release: two requests are a holder and one that overtakes it with uploads still in
  flight; two modules make a partial upload; two seconds give both equal and
  different timestamps, and a release to roll back to. The archives are at each limit
  and one beyond it: a module too many, an entry that expands to more than it
  declares, repeated names, entries that exceed the limit only together; the bodies
  miss one check each. One reader sees every pair of its own read and a write; readers
  do not touch each other. The theorems of section 4 cover any number of each.
- session: two calls are the overlap of one save with another or with a login;
  two names are a mentioned and an unmentioned cookie, of which a response changes one
  at a time; one login leaves a logout or an expiry to overlap with it. The headers are
  each form at zero, at the limit and beyond it.
- lint: an alias of an alias with every kind of body, and a use of it at every place a
  rule looks at; two bindings made from one another, or from one outside the function,
  and an assertion; chains of two to four assertions, const and others; a reducer with
  every way of standing for the accumulator. Two files after each other are enough for
  a stale environment. No file needs the depth at which `TypeMeaning` stops, and
  `StackLimit` is met only where the functions never end.
- saved posts: two stories are a row and the story it is wrongly answered with,
  the old one is never in a snapshot; rows come from a list or from the details page;
  two versions are a stale and a fresh row;
  three taps save, remove and save again.
- read posts: three jobs are a loader, a marker and a waiter; a death makes a
  second load of a table that is not empty.
- tag filters: a tag that is edited and one that is only loaded; removing the new
  block, or one that was loaded, overlaps its save; a failed save can be repeated;
  two faults are a login after the block was stored and the restart that loads
  the account's filters over it, or a lost answer and a changed session.
- comments: the third level is the first that is not a direct reply to a root,
  the last root moves the right edge; the second visit finds unread comments, the
  third finds the tree that the second one left.

`CHECK_DEADLOCK FALSE` is set where the system or its bounded environment stops:
the reminder's clock, requests that all ended, files that are all linted, and the
taps, saves, visits and restarts that are used up. In `SessionCookies` and `ReadPosts` a call can always
begin, and deadlock is checked.

Runs with liveness use no symmetry. Each property of a passing run is also
checked against a mutant of the module, a definition changed as a plausible bug in
the code would change it; the mutants stand before the definitions they replace.

### Fairness

- `DailyReminder`: weak fairness of the worker and of the main thread: WorkManager
  runs what is due and a coroutine resumes. Nothing is assumed of the user, of
  faults or of the clock.
- `AssetServing` (`FairServing`): weak fairness per admin request of its own steps and of its uploads:
  an awaited call settles. Nothing forces a new request or forbids an eviction.
- `SessionCookies`: weak fairness per call: OkHttp's timeouts and the interceptor's
  bounded sleep end the wait.
- `ReadPosts`: strong fairness of taking the mutex, which queues its waiters, and
  weak fairness of a started job. Nothing forces a call or forbids a cancellation.
- `TagFilters`: weak fairness of the load and of the save, where a failing request
  counts as progress: HTTP calls have timeouts. No request is assumed to succeed.

### What the violated runs say

- `UnrelatedCookiesSurvive`: the merge is documented and tested to preserve
  unrelated cookies; two overlapping saves do not.
- `RefreshOnlyUpdates`: the refresh is documented to update saved posts; it writes
  every row of its snapshot back, also one the user removed while it was fetching.
- `UnsavedIsDirty`: leaving the tag screen asks before unsaved changes are lost;
  `persistDraft` marks the draft as clean over an edit made since it read it.
- `CollapsedPersists`: the changelog promises that collapsed comments survive
  navigation; a node below a direct reply is copied without `isExpanded`.

Two more observations are listed as hazards without a run, since they follow from
single lines: the session that expiry clears may be that of a login completed
meanwhile (`SessionExpiryInterceptor.kt:31`), and after a failed load the stored
tag blocks filter nothing (`TagFilterViewModel.kt:133`). That two publishes in one
second share a release tree is why `ReleaseIsWhole` speaks of timestamps taken once.

## 4. Proofs

`AssetServingProofs`, for any requests, modules, readers, archives, paths, limits
and clock bound, begins with `ReleaseWorker`: `TypeCorrect`; `Serialization` from the
invariant `Exclusive`, which adds to `Serialized` that a holder's lock object exists;
`ReservationAccounted` (the lock object is a live request's reservation or was left
behind) and from it `LostReservationFreezes`: the code gives the object no expiry and
nothing else deletes it, so once it is left behind nothing is published;
`SuccessNamesTheActive`, because only the holder moves the pointer;
`ActiveReleaseServable` and `ReleasesAreWhole` from `WriteOrder`, which says where
the objects under a timestamp come from (`Provenance`, `UploadsAtStamp`) and what
each step has behind it (`ModulesFirst`, `ManifestLast`, `PointerLast`). The last
two do not need the lock: nothing is deleted from a release tree, so the order of
the writes is enough.

`WorkerKeepsReleaseContract` is the refinement of `ReleaseContract`, by
`ReleaseSimulation` under `WriteOrder` and `Submitted` (what takes a timestamp has a
module to publish). The put of the manifest is the step `Publish`. The hard case is an
upload that lands below a published timestamp: if one request took the timestamp, the
bytes there are that request's already (`SoleContent`) and clients see no step; if
several did, it is one more `Publish` of the mixture (`PutPublishes`). From the
contract's own steps (`ContractStep`) follow `ActiveReleaseComplete` and
`PublishedReleasesImmutable`.

For the whole Worker: `ServingIsReleaseWorker`, the refinement, so that every
invariant above, and the contract, holds of it; `AnnouncedReleasesStay` and
`ImmutableAnswersStay` from `ObjectsStay` (no step takes an object back; only a
request that took a timestamp writes below it) and from what a reader in progress was
told (`Told`, `Served`). `ReleasesWithinLimits`: `ParsedWithinLimits` shows by
induction over the entries what `parseArchive` keeps account of (`Accounts`: the bytes
so far, the names so far, at least as many modules counted as there are names of
modules), and `Validated` carries it from the validation, through the reservation, to
whatever timestamp the request takes. `RequestsAssumption` says of an archive only
that it is a finite sequence whose entries expand to some number of bytes.

`SessionCookiesProofs`, for any calls, cookies, users and headers: `DelayBounded`;
`TypeCorrect`; `NamedUserHasCookies`, `SaveMerges` and `LoginLogsIn` from one
invariant: what a save has read is still in the row, unless `touched` says that
another actor wrote since. `CallsWindDown` is what `CallEnds` rests on: `WorkLeft`, the
proceeds both interceptors have in hand and the steps of one request, falls with every
step of a call (`StepWindsDown`, in either order of the interceptors) and is moved by
nobody else (`Movers`); it needs `ClearsOnce`, a session check in its second proceed
clears nothing.

`TagFiltersProofs`, for any tags, clock and bounds: `TypeCorrect`; `OriginIsStored`
from `Origin` (what was stored is first the draft in hand and then the origin of
the edits); `AnonymousKeptOut` and `LoadKeepsTemporary` from `LoadInHand`, what a
load knows between its page and its transaction; `AccountAgrees` from
`AccountHeld`, which follows the account's filters from the page through the draft
into the table, as long as the session held and no answer was lost. All of them
rest on `OneAtATime`: a load and a save never run together, since there is nothing
to save before the load has ended; `save` itself looks at the draft only. From it
`SavingIsRunning` follows too, the safety half of `SaveEnds`.

`AppStateProofs` holds the theorems of two view models' state. In-app updates, for any
number of checks: `TypeCorrect` of its state (`UpdatesTypeCorrect`), `NeverTwoFlows` and `FlightHasFlow`
from `Guarded`, at most one request in channel, collector and flow together;
`LostBlocksUpdates`: a guard whose flow is gone stays so in that view model.

Read posts, in the same module, for any posts and jobs: `TypeCorrect`; `CacheCorrect` and
`NothingUnread` from mutual exclusion strengthened with what the holder knows: what
it loaded is still the table when it stores it. `MutexHeldByRunning`, the safety half of
`MutexReturned`: whoever holds the mutex is in its block, cancelled jobs are not.

`DailyReminderProofs`, for any posts, days, slots and bounds: `TypeCorrect` (with
`HasSelection`, since only the check of the selection makes the notified post a
post); `ChainHolds` from `Chain`, which says what a scheduling call in hand knows
of `isEnabled`; `DeliveryKeepsContract`, by `StepSimulation` under the invariant
`Ledger` (what the worker has in hand is the row, unless a time change deleted
it); `NoRepeat` from the same invariant; `OnePost` and `RecordedAfterShown` from
the contract's own steps (`ContractStep`).

`SavedPostsProofs`, for any stories and bounds: `TypeCorrect`; `RowsKeepIdentity`
from `OwnRows`, which extends the identity of rows to the backup and to the list
the refresh will write; `RefreshBringsUpToDate` and `RefreshKeepsVersions` from
`InOrder`: no row of the table, of a backup or of the refresh's list is newer than the
story on the site
(`NeverNewer`), until the refresh writes, a row nobody tapped since the snapshot
is not newer than what the refresh has for it (`CatchesUp`), and what the refresh still
owes a row lies ahead of it or in its list (`StillDue`).

`CommentTreeProofs`, for any thread and bounds: `TypeCorrect`; `TreeIsTheThread`,
`VisibleNodesAreExpanded`, `UnreadIsTheNew` and `TopLevelsStayCollapsed` from
`PageInvariant`. Its core is `TreeGrows`: when a list in thread order is taken comment
by comment, the next comment's parent is on the right edge, so the node is appended one
level below it, and its level is the number of the comments above it (`LevelIsDepth`).
`UnderIsAnswer` turns positions and levels into the relation between comments: the
nodes between which no shallower one stands are those on the chain of parents.
`ListedIsThread` shows that a part of the thread that is closed under parents, which is
what the site has at any time, is in thread order too.

`LintProofs`, for any files, is about `Walk`. Of the files it assumes what the parser's
grammar gives (`IsSyntaxTree`): a finite tree of child positions whose one `Program` is
the root, parentheses around one expression, an assertion of one expression, no
type *parameters* on a `Program` or on a type reference, whose angle brackets hold
arguments, and nothing else in its scope that has the name of a const (a redeclaration,
which the parser refuses). The run evaluates these for every file. `NoneAssumption` says that a missing child is not the root.

- `NamesLookedUpLexically` (`NamesAreLexical`). `WalkInvariant` says that the walk is at
  a node of its file or done, and that past the `Program` node the environment is that of
  this file (`EnvironmentIsOfFile`). It needs `visiting` to be `<<>>` when a file is opened,
  so that no other node is visited with the environment of the last file. Then
  `ResolvesLexically`: the nearest scope among the bindings that carry the name is the
  nearest that declares it, and a type parameter in between makes the lookup give up.
- `ChainsReportedOnce` (`ChainReportedOnce`). The third part of the invariant is
  `VisitedAreReported`: the two rules' reports so far are what they say of the nodes before
  `visiting`. To carry it over a step one has to know that nothing lies between a node and
  its `Following` in source order (`FollowingIsNext`), and that after the last node nothing
  is left. The rest is about one tree: the two loops of the rule, through the parents
  (`OutermostIsTop`) and through the expressions (`LoopFollowsChain`), meet the same
  assertions, those between which there are only parentheses, so that one verdict is given
  for a chain, at its top (`OneVerdictOfChain`).
- `CopiesOfAccumulatorReported` (`CopiesAreOfTheAccumulator`). The rule goes inwards, from
  the variable that is copied to what its const was initialised with; the property goes
  outwards, from the accumulator to the consts that stand for it. `StandInsAreTracedBack`
  shows, by induction over the steps, that they meet: one more round of stand-ins is one
  more step of the trace (`TracedFromBehind`). This needs that a const is its variable's
  only definition (`ConstIsAlone`): of a variable with a const among several definitions
  the rule would follow the const and the property would not.

`AssetServingProofs`, `CommentTreeProofs` and `LintProofs` are about data of any size, and
functions defined from one element to the next: `Picked`, `Tree`, `parseArchive` and
`ExpandedBytes` are recursive functions over prefixes; `Inwards`, `TracedBack` and
`StandIns` are ones over the turns of a loop. A set of numbers that holds zero and with each
number the next one holds all (`Induction`), since the numbers outside it have no least
one; `IterateExists` builds, by that induction, the function a recursive definition
asks for, without which nothing is known of it.

Only model-checked: all liveness, since the prover reaches neither `ENABLED` nor
fairness, and four properties of the lint plugin: `UnknownAliasesReported`,
`UnsafeDictionariesReported`, `EstablishedValuesStayKnown` and `ErasedTypesNotTakenBack`.
They compare operators that recurse over types under substitution, or over the calls
and consts between which a value is passed on; those are `RECURSIVE`, which no theorem
of these provers can speak of. Of the liveness properties, what is
safety in them is proved: that a lock, a flag or a mutex is held by someone who runs,
and that a call has a bounded number of steps left. Only proved, not listed in a run:
those, `InAppUpdates` and the types of each proved module.

## 5. Not modelled, and why

Of the modelled components:

- Daylight saving in `DailyReminder`: the offset is constant.
- `SharedPreferences.apply` is taken as durable, and a run that was overtaken is
  cancelled at its next suspension point within the same slot.
- R2 and KV: a call takes effect before it is answered, or throws with or without
  effect. Header and path syntax is abstracted to what the patterns accept; response
  headers but `Cache-Control` are left out. With a fresh KV read an activation is
  observed on the next request, as the worker's README says (`assets-worker/README.md:20`);
  the model does not assume one.
- Cookie attributes, and the separate saves of the hops of one redirected call.
- Filters changed on the site by another client while the tag screen is open.
- Authors, scores and links of comments; the text of posts and comments.
- The text of lint reports. `UnknownAliasesReported`, `UnsafeDictionariesReported` and
  `EstablishedValuesStayKnown` ask for `Hygienic` files, in which no name is declared
  twice and no alias or built-in is used in its own argument (`Record` within an argument
  of `Record`, say): in others the rules' substitutions
  by spelling can mistake one type for another. `type X<T> = Box<T | null>` over
  `type Box<T> = Record<string, T>` makes the classifier recurse for ever, which is the
  action `Throw`. A dictionary in parentheses is excused from `UnsafeDictionariesReported`: the rule
  takes the parenthesised type for a dictionary that encloses this one, but visits no
  parentheses itself (`no-unsafe-dictionary-type.ts:95-98`).
  `CopiesAreOfTheAccumulator` speaks of the copying array methods, not of `Array.from` and
  `Object.assign`.

Components left out:

- Comment votes and replies: each tap is a coroutine that ends in one POST and drops
  its result. Neither code nor docs promise anything about two of them, so a property
  would hold the code to a wish. What a reply adds to a thread is `CommentTree`'s `Post`.
- Zipline parser client: the load, its hashes, signatures and caches are the library's;
  the client adds one load under a mutex and a second attempt from the embedded copy.
  What its requests may be answered is `AssetServing`.
- Paging, navigation, search: the libraries call back one at a time on one thread; a
  page key is one expression of the page's number.
- Widgets and telemetry read tables that are modelled, or report.
- Web views: how they find a page or a cookie; their outcome is `Login` and
  `SaveAnubisCookie`.
- The remaining lint rules compare one node with fixed names, texts or comments: a
  definition of what they should report would be the rule again. `require-readable-spacing`
  and what it brings along under `vendor/` is third-party code.
- Parsers, rendering, theming, build logic, benchmarks and scripts keep no state.

In-app updates, what the model makes plain: the guard lives in the view model, though
comments speak of the process, so a second activity asks again; cancelling a *resumed*
flow leaves `hasRequestedUpdate` unset, and the user may be asked again at once
(`InAppUpdateViewModel.kt:107-109`); a request whose collector is cancelled between its
receipt and its run is lost, although the channel is there to avoid drops (`:90-91`), and
`LostBlocksUpdates` says what follows.

## 6. Plan

Done: `ReminderContract`, `DailyReminder`, `ReleaseContract`, `ReleaseWorker`, `AssetServing`,
`SessionCookies` with `Retry-After`, `SavedPosts`, `ReadPosts`, `TagFilters`,
`CommentTree`, `InAppUpdates`, the lint plugin, and the proofs of section 4.

What is left:

1. The reminder's delay across a change of the zone's offset, against a reference
   definition of the next reminder time.
2. A contract for votes (the icon settles to what the server holds), once the code
   reconciles the two.
