----------------------------- MODULE SavedPosts -----------------------------
(***************************************************************************)
(* The saved posts: the user's taps, import and export of a backup, and    *)
(* SavedPostUpdaterWorker, which takes a snapshot of the recent rows,      *)
(* fetches their details one by one, seconds apart, and writes what it got *)
(* back in one transaction.                                                *)
(*                                                                         *)
(* A row's content is the story it describes, that story's version (its    *)
(* title, tags, comment count) and its comments URL: a page of a story, or *)
(* the anchor on the home page that a details page gives.  The server is   *)
(* external: stories change, a request may fail, the page of a story may   *)
(* be answered with another (a merged story), the home page with any.      *)
(***************************************************************************)
EXTENDS Naturals

CONSTANTS
    Stories,        \* short ids
    Recent,         \* those created in the last 30 days
    None,           \* no row, no answer
    MaxVersion,     \* bound on a story's changes
    MaxTaps,        \* bound on taps and imports
    MaxStops        \* bound on stopped refreshes

(* https://lobste.rs/s/<story>/<slug>; with no story, the home page and,   *)
(* for a slug, its #comments anchor.  Slugs: the story's title, the "c" of *)
(* savedPostRefreshUrl.                                                    *)
Url(story, slug) == [story |-> story, slug |-> slug]
StorySlugs == {"title", "c"}
Urls == [story : Stories \cup {None}, slug : StorySlugs \cup {"comments"}]
HomeAnchor == Url(None, "comments")

ASSUME ConstantsAssumption ==
    /\ Recent \subseteq Stories
    /\ None \notin Stories \cup Urls
    /\ None \notin [story : Stories, version : Nat, url : Urls]
    /\ MaxVersion \in Nat /\ MaxTaps \in Nat /\ MaxStops \in Nat

VARIABLES
    server,     \* the current version of each story
    saved,      \* the table: saved[s] is s's row, or None
    backup,     \* the last exported file
    pc,         \* the worker: idle or fetch
    todo,       \* the snapshot's rows not fetched yet: their comments URLs
    updated,    \* updatedPosts: what the refresh will write
    tapped,     \* history: rows the user wrote since the snapshot
    due,        \* history: the versions the refresh has to bring at least
    taps, stops \* counters for the bounds

vars == <<server, saved, backup, pc, todo, updated, tapped, due, taps, stops>>

Versions == 0 .. MaxVersion
Rows == [story : Stories, version : Versions, url : Urls]
Tables == [Stories -> Rows \cup {None}]
Empty == [s \in Stories |-> None]
NothingDue == [s \in Stories |-> 0]

TypeOK ==
    /\ server \in [Stories -> Versions]
    /\ saved \in Tables /\ backup \in Tables /\ updated \in Tables
    /\ pc \in {"idle", "fetch"}
    /\ todo \in [Stories -> Urls \cup {None}]
    /\ tapped \in SUBSET Stories /\ due \in [Stories -> Versions]
    /\ taps \in 0 .. MaxTaps /\ stops \in 0 .. MaxStops

Init ==
    /\ server = [s \in Stories |-> 0]
    /\ saved = Empty /\ backup = Empty
    /\ pc = "idle" /\ todo = Empty /\ updated = Empty
    /\ tapped = {} /\ due = NothingDue
    /\ taps = 0 /\ stops = 0

Tap ==
    /\ taps < MaxTaps
    /\ taps' = taps + 1

(* insertOrReplacePost for each row that is given, in one transaction.     *)
Upsert(rows) ==
    saved' = [s \in Stories |-> IF rows[s] # None THEN rows[s] ELSE saved[s]]

-----------------------------------------------------------------------------
(* toggleSave: the row is deleted, or inserted as the screen shows it: a   *)
(* list with the story's page for the URL, the details page with an anchor.*)
ToggleSave(s, version, url) ==
    /\ Tap
    /\ version <= server[s]
    /\ saved' = [saved EXCEPT ![s] =
                   IF @ # None THEN None
                   ELSE [story |-> s, version |-> version, url |-> url]]
    /\ tapped' = tapped \cup {s}
    /\ UNCHANGED <<server, backup, pc, todo, updated, due, stops>>

(* exportPostsAsJson *)
ExportPosts ==
    /\ backup # saved
    /\ backup' = saved
    /\ UNCHANGED <<server, saved, pc, todo, updated, tapped, due, taps, stops>>

(* importPosts: the whole file is decoded, then saved.                     *)
ImportPosts ==
    /\ Tap
    /\ backup # Empty
    /\ Upsert(backup)
    /\ tapped' = tapped \cup {s \in Stories : backup[s] # None}
    /\ UNCHANGED <<server, backup, pc, todo, updated, due, stops>>

-----------------------------------------------------------------------------
TakeSnapshot ==
    /\ pc = "idle"
    /\ \E s \in Recent : saved[s] # None
    /\ todo' = [s \in Stories |->
                  IF s \in Recent /\ saved[s] # None THEN saved[s].url ELSE None]
    /\ due' = [s \in Stories |->
                  IF s \in Recent /\ saved[s] # None THEN server[s] ELSE 0]
    /\ pc' = "fetch"
    /\ tapped' = {}
    /\ UNCHANGED <<server, saved, backup, taps, stops>>

(* Mutant: updatedPosts outlives a run that was stopped.                   *)
SnapshotKeepingList == TakeSnapshot /\ UNCHANGED updated

(* getPostIdsFromLastNDays; with nothing to do the run ends at once.       *)
Snapshot == TakeSnapshot /\ updated' = Empty

(* Mutant: the stored URL is requested as it is.                           *)
StoredUrl(s, url) == url

(* savedPostRefreshUrl: a page of this very story is requested as stored,  *)
(* any other URL is replaced.                                              *)
savedPostRefreshUrl(s, url) ==
    IF url.story = s /\ url.slug \in StorySlugs THEN url ELSE Url(s, "c")

(* Mutant: without the check of the story.                                 *)
RefreshedAnyStory(s, requestUrl, answer) == [answer EXCEPT !.url = requestUrl]

(* refreshedSavedPost: details of another story are dropped, and the URL   *)
(* is the request's, not the anchor the page gives.                        *)
refreshedSavedPost(s, requestUrl, answer) ==
    IF answer.story = s THEN [answer EXCEPT !.url = requestUrl] ELSE None

(* getPostDetails for one row of the snapshot, answered with story t.  The *)
(* refresh is excused when the row's own page is another story's.          *)
Fetch(s, t) ==
    /\ pc = "fetch" /\ todo[s] # None
    /\ todo' = [todo EXCEPT ![s] = None]
    /\ LET requestUrl == savedPostRefreshUrl(s, todo[s])
           answer == [story |-> t, version |-> server[t], url |-> HomeAnchor]
       IN  /\ updated' = [updated EXCEPT ![s] = refreshedSavedPost(s, requestUrl, answer)]
           /\ due' = IF requestUrl.story = s /\ t # s
                     THEN [due EXCEPT ![s] = 0] ELSE due
    /\ UNCHANGED <<server, saved, backup, pc, tapped, taps, stops>>

(* The request fails: the row is left as it is.                            *)
FetchFails(s) ==
    /\ pc = "fetch" /\ todo[s] # None
    /\ todo' = [todo EXCEPT ![s] = None]
    /\ due' = [due EXCEPT ![s] = 0]
    /\ UNCHANGED <<server, saved, backup, pc, updated, tapped, taps, stops>>

(* savePosts(updatedPosts), after the last answer.                         *)
SaveRefreshed ==
    /\ pc = "fetch" /\ todo = Empty
    /\ Upsert(updated)
    /\ pc' = "idle" /\ updated' = Empty /\ due' = NothingDue
    /\ UNCHANGED <<server, backup, todo, tapped, taps, stops>>

(* The run is stopped or the process dies.                                 *)
StopRefresh ==
    /\ pc = "fetch" /\ stops < MaxStops
    /\ stops' = stops + 1
    /\ pc' = "idle" /\ todo' = Empty /\ due' = NothingDue
    /\ UNCHANGED <<server, saved, backup, updated, tapped, taps>>

(* A story changes on the server: a comment, an edit.                      *)
StoryChanges(s) ==
    /\ server[s] < MaxVersion
    /\ server' = [server EXCEPT ![s] = @ + 1]
    /\ UNCHANGED <<saved, backup, pc, todo, updated, tapped, due, taps, stops>>

Refresh ==
    \/ Snapshot
    \/ \E s, t \in Stories : Fetch(s, t)
    \/ \E s \in Stories : FetchFails(s)
    \/ SaveRefreshed

User ==
    \/ \E s \in Stories, v \in Versions :
          \E url \in {Url(s, "title"), HomeAnchor} : ToggleSave(s, v, url)
    \/ ExportPosts
    \/ ImportPosts

Next ==
    \/ Refresh
    \/ User
    \/ StopRefresh
    \/ \E s \in Stories : StoryChanges(s)

Spec == Init /\ [][Next]_vars

(* The write at the end of a refresh.                                      *)
Saving == pc = "fetch" /\ pc' = "idle" /\ stops' = stops

-----------------------------------------------------------------------------
(***************************************************************************)
(* A row describes the story it is stored under, whatever the server       *)
(* answers and however taps, imports and refreshes interleave.             *)
(***************************************************************************)
RowIdentity == \A s \in Stories : saved[s] # None => saved[s].story = s

(***************************************************************************)
(* A refresh never takes a row back to an older version, except a row the  *)
(* user wrote between the snapshot and the write.                          *)
(***************************************************************************)
RefreshNeverRegresses ==
    [][Saving => \A s \in Stories \ tapped :
          saved[s] # None /\ saved'[s] # None
              => saved'[s].version >= saved[s].version]_vars

(***************************************************************************)
(* What was saved when the refresh started is, at its end, at least as new *)
(* as the story was then, whatever URL the row holds and whatever became   *)
(* of the other requests (SavedPostUpdaterWorker.kt:32-37, 56).  Excepted  *)
(* are rows whose own request failed, or whose page turned out to be       *)
(* another story's, and rows the user wrote meanwhile.                     *)
(***************************************************************************)
RefreshCatchesUp ==
    [][Saving => \A s \in Stories \ tapped :
          saved[s] # None => saved'[s] # None /\ saved'[s].version >= due[s]]_vars

(***************************************************************************)
(* A refresh keeps saved posts up to date (SavedPostUpdaterWorker.kt:32-37)*)
(* and saves none.  The code writes back rows the user removed while it    *)
(* was fetching: the snapshot may be minutes old.                          *)
(***************************************************************************)
RefreshOnlyUpdates ==
    [][Saving => \A s \in Stories : saved'[s] # None => saved[s] # None]_vars
=============================================================================
