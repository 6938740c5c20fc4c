-------------------------- MODULE SavedPostsProofs --------------------------
(***************************************************************************)
(* Proofs about SavedPosts, for any stories, versions and bounds.          *)
(***************************************************************************)
EXTENDS SavedPosts, TLAPS

(* A row is stored under its own story, in the table, in a backup and in   *)
(* what a refresh has collected.                                           *)
OwnRows(rows) == \A s \in Stories : rows[s] # None => rows[s].story = s
RowsKept == OwnRows(saved) /\ OwnRows(backup) /\ OwnRows(updated)

(* No record is the constant None.                                         *)
LEMMA RowNotNone == \A r \in Rows : r # None
<1>. SUFFICES ASSUME NEW r \in Rows PROVE r # None
  OBVIOUS
<1>1. r \in [story : Stories, version : Nat, url : Urls]
  BY ConstantsAssumption DEF Rows, Versions, ConstantsAssumption
<1>. QED
  BY <1>1, ConstantsAssumption DEF ConstantsAssumption

(* insertOrReplacePost of typed rows leaves a typed table, and no row of   *)
(* it is lost.                                                             *)
LEMMA UpsertKeeps ==
  ASSUME NEW rows \in Tables, saved \in Tables, Upsert(rows)
  PROVE  /\ saved' \in Tables
         /\ \A s \in Stories : saved[s] # None => saved'[s] # None
         /\ \A s \in Stories : saved'[s] = rows[s] \/ saved'[s] = saved[s]
         /\ OwnRows(saved) /\ OwnRows(rows) => OwnRows(saved')
  BY DEF Upsert, Tables, OwnRows

(* The URLs that taps, pages and requests give are typed, and a request is *)
(* always for a page of its row's story.                                   *)
LEMMA UrlTypes ==
  /\ HomeAnchor \in Urls
  /\ \A s \in Stories : Url(s, "title") \in Urls
  /\ \A s \in Stories, url \in Urls :
        savedPostRefreshUrl(s, url) \in Urls /\ savedPostRefreshUrl(s, url).story = s
  BY DEF HomeAnchor, Url, Urls, StorySlugs, savedPostRefreshUrl

(* What a request brings back is a row of the requested story, or nothing. *)
LEMMA RefreshedIsOwn ==
  ASSUME NEW s \in Stories, NEW t \in Stories, NEW v \in Versions, NEW url \in Urls
  PROVE  LET answer == [story |-> t, version |-> v, url |-> HomeAnchor]
             r == refreshedSavedPost(s, url, answer)
         IN  IF t = s THEN r \in Rows /\ r # None /\ r.story = s /\ r.version = v
                      ELSE r = None
<1>. DEFINE answer == [story |-> t, version |-> v, url |-> HomeAnchor]
            r == refreshedSavedPost(s, url, answer)
<1>1. t = s => r \in Rows /\ r.story = s /\ r.version = v
  BY DEF refreshedSavedPost, Rows
<1>2. t # s => r = None
  BY DEF refreshedSavedPost
<1>3. t = s => r # None
  BY <1>1, RowNotNone
<1>. QED
  BY <1>1, <1>2, <1>3

(* What Fetch leaves, without its LETs.                                    *)
LEMMA FetchEffect ==
  ASSUME TypeOK, NEW s \in Stories, NEW t \in Stories, Fetch(s, t)
  PROVE  /\ updated' \in Tables
         /\ \A q \in Stories \ {s} : updated'[q] = updated[q] /\ todo'[q] = todo[q]
                                       /\ due'[q] = due[q]
         /\ t = s => /\ updated'[s] # None
                     /\ updated'[s].story = s /\ updated'[s].version = server[s]
                     /\ due' = due
         /\ t # s => updated'[s] = None /\ due'[s] = 0
         /\ due' \in [Stories -> Versions]
         /\ todo' \in [Stories -> Urls \cup {None}]
<1>. DEFINE requestUrl == savedPostRefreshUrl(s, todo[s])
            answer == [story |-> t, version |-> server[t], url |-> HomeAnchor]
            row == refreshedSavedPost(s, requestUrl, answer)
<1>1. todo[s] \in Urls
  BY DEF Fetch, TypeOK
<1>2. requestUrl \in Urls /\ requestUrl.story = s
  BY <1>1, UrlTypes
<1>3. server[t] \in Versions
  BY DEF TypeOK
<1>4. IF t = s THEN row \in Rows /\ row # None /\ row.story = s /\ row.version = server[t]
              ELSE row = None
  BY <1>2, <1>3, RefreshedIsOwn
<1>5. updated' = [updated EXCEPT ![s] = row]
  BY DEF Fetch
<1>6. due' = IF t # s THEN [due EXCEPT ![s] = 0] ELSE due
  BY <1>2 DEF Fetch
<1>7. todo' = [todo EXCEPT ![s] = None]
  BY DEF Fetch
<1>8. 0 \in Versions
  BY ConstantsAssumption DEF Versions, ConstantsAssumption
<1>. HIDE DEF row, requestUrl, answer
<1>9. updated' \in Tables
  BY <1>4, <1>5 DEF TypeOK, Tables
<1>. QED
  BY <1>4, <1>5, <1>6, <1>7, <1>8, <1>9 DEF TypeOK, Tables

(* What TakeSnapshot leaves.                                               *)
LEMMA SnapshotEffect ==
  ASSUME TypeOK, TakeSnapshot
  PROVE  /\ todo' \in [Stories -> Urls \cup {None}]
         /\ due' \in [Stories -> Versions]
         /\ \A s \in Stories : due'[s] = 0 \/ (due'[s] = server[s] /\ todo'[s] # None)
<1>1. \A s \in Stories : saved[s] # None => saved[s].url \in Urls /\ saved[s].url # None
  BY ConstantsAssumption DEF TypeOK, Tables, Rows, ConstantsAssumption
<1>2. 0 \in Versions
  BY ConstantsAssumption DEF Versions, ConstantsAssumption
<1>. QED
  BY <1>1, <1>2 DEF TakeSnapshot, TypeOK

LEMMA InitType == Init => TypeOK
<1>. SUFFICES ASSUME Init PROVE TypeOK
  OBVIOUS
<1>1. server \in [Stories -> Versions]
  BY ConstantsAssumption DEF Init, Versions, ConstantsAssumption
<1>2. saved \in Tables /\ backup \in Tables /\ updated \in Tables
  BY DEF Init, Empty, Tables
<1>3. todo \in [Stories -> Urls \cup {None}] /\ due \in [Stories -> Versions]
  BY ConstantsAssumption DEF Init, Empty, NothingDue, Versions, ConstantsAssumption
<1>. QED
  BY <1>1, <1>2, <1>3, ConstantsAssumption DEF Init, TypeOK, ConstantsAssumption

LEMMA StepType == TypeOK /\ [Next]_vars => TypeOK'
<1>. SUFFICES ASSUME TypeOK, [Next]_vars PROVE TypeOK'
  OBVIOUS
<1>. USE ConstantsAssumption DEF ConstantsAssumption
<1>1. ASSUME NEW s \in Stories, NEW v \in Versions, NEW u \in {Url(s, "title"), HomeAnchor},
             ToggleSave(s, v, u)
      PROVE  TypeOK'
  <2>0. u \in Urls
    BY UrlTypes
  <2>1. saved' \in Tables
    BY <1>1, <2>0 DEF ToggleSave, TypeOK, Tables, Rows
  <2>. QED
    BY <1>1, <2>1 DEF ToggleSave, Tap, TypeOK
<1>2. CASE ExportPosts
  BY <1>2 DEF ExportPosts, TypeOK
<1>3. CASE ImportPosts
  <2>1. saved' \in Tables
    BY <1>3, UpsertKeeps DEF ImportPosts, TypeOK
  <2>. QED
    BY <1>3, <2>1 DEF ImportPosts, Tap, TypeOK
<1>4. CASE Snapshot
  <2>1. todo' \in [Stories -> Urls \cup {None}] /\ due' \in [Stories -> Versions]
    BY <1>4, SnapshotEffect DEF Snapshot
  <2>2. updated' \in Tables
    BY <1>4 DEF Snapshot, Empty, Tables
  <2>. QED
    BY <1>4, <2>1, <2>2 DEF Snapshot, TakeSnapshot, TypeOK
<1>5. ASSUME NEW s \in Stories, NEW t \in Stories, Fetch(s, t)
      PROVE  TypeOK'
  BY <1>5, FetchEffect DEF Fetch, TypeOK
<1>6. ASSUME NEW s \in Stories, FetchFails(s)
      PROVE  TypeOK'
  <2>1. todo' \in [Stories -> Urls \cup {None}] /\ due' \in [Stories -> Versions]
    BY <1>6 DEF FetchFails, TypeOK, Versions
  <2>. QED
    BY <1>6, <2>1 DEF FetchFails, TypeOK
<1>7. CASE SaveRefreshed
  <2>1. saved' \in Tables
    BY <1>7, UpsertKeeps DEF SaveRefreshed, TypeOK
  <2>2. updated' \in Tables /\ due' \in [Stories -> Versions]
    BY <1>7 DEF SaveRefreshed, Empty, Tables, NothingDue, Versions
  <2>. QED
    BY <1>7, <2>1, <2>2 DEF SaveRefreshed, TypeOK
<1>8. CASE StopRefresh
  <2>1. todo' \in [Stories -> Urls \cup {None}] /\ due' \in [Stories -> Versions]
    BY <1>8 DEF StopRefresh, Empty, NothingDue, Versions
  <2>. QED
    BY <1>8, <2>1 DEF StopRefresh, TypeOK
<1>9. ASSUME NEW s \in Stories, StoryChanges(s)
      PROVE  TypeOK'
  <2>1. server' \in [Stories -> Versions]
    BY <1>9 DEF StoryChanges, TypeOK, Versions
  <2>. QED
    BY <1>9, <2>1 DEF StoryChanges, TypeOK
<1>10. CASE UNCHANGED vars
  BY <1>10 DEF vars, TypeOK
<1>. QED
  BY <1>1, <1>2, <1>3, <1>4, <1>5, <1>6, <1>7, <1>8, <1>9, <1>10
     DEF Next, Refresh, User

LEMMA InitKept == Init => RowsKept
  BY DEF Init, RowsKept, OwnRows, Empty

LEMMA StepKept ==
  TypeOK /\ RowsKept /\ [Next]_vars => RowsKept'
<1>. SUFFICES ASSUME TypeOK, RowsKept, [Next]_vars
              PROVE  RowsKept'
  OBVIOUS
<1>1. ASSUME NEW s \in Stories, NEW v \in Versions, NEW u \in {Url(s, "title"), HomeAnchor},
             ToggleSave(s, v, u)
      PROVE  RowsKept'
  <2>1. OwnRows(saved')
    BY <1>1 DEF ToggleSave, TypeOK, Tables, RowsKept, OwnRows
  <2>. QED
    BY <1>1, <2>1 DEF ToggleSave, RowsKept, OwnRows
<1>2. CASE ExportPosts
  BY <1>2 DEF ExportPosts, RowsKept, OwnRows
<1>3. CASE ImportPosts
  <2>1. OwnRows(saved')
    BY <1>3, UpsertKeeps DEF ImportPosts, TypeOK, RowsKept
  <2>. QED
    BY <1>3, <2>1 DEF ImportPosts, RowsKept, OwnRows
<1>4. CASE Snapshot
  BY <1>4 DEF Snapshot, TakeSnapshot, Empty, RowsKept, OwnRows
<1>5. ASSUME NEW s \in Stories, NEW t \in Stories, Fetch(s, t)
      PROVE  RowsKept'
  <2>1. updated'[s] # None => updated'[s].story = s
    BY <1>5, FetchEffect
  <2>2. \A q \in Stories \ {s} : updated'[q] = updated[q]
    BY <1>5, FetchEffect
  <2>3. OwnRows(updated')
    BY <2>1, <2>2 DEF RowsKept, OwnRows
  <2>. QED
    BY <1>5, <2>3 DEF Fetch, RowsKept, OwnRows
<1>6. ASSUME NEW s \in Stories, FetchFails(s)
      PROVE  RowsKept'
  BY <1>6 DEF FetchFails, RowsKept, OwnRows
<1>7. CASE SaveRefreshed
  <2>1. OwnRows(saved')
    BY <1>7, UpsertKeeps DEF SaveRefreshed, TypeOK, RowsKept
  <2>. QED
    BY <1>7, <2>1 DEF SaveRefreshed, Empty, RowsKept, OwnRows
<1>8. CASE StopRefresh
  BY <1>8 DEF StopRefresh, RowsKept, OwnRows
<1>9. ASSUME NEW s \in Stories, StoryChanges(s)
      PROVE  RowsKept'
  BY <1>9 DEF StoryChanges, RowsKept, OwnRows
<1>10. CASE UNCHANGED vars
  BY <1>10 DEF vars, RowsKept, OwnRows
<1>. QED
  BY <1>1, <1>2, <1>3, <1>4, <1>5, <1>6, <1>7, <1>8, <1>9, <1>10
     DEF Next, Refresh, User

(* The only step that ends a refresh without stopping it is its write.     *)
LEMMA SavingIsWrite ==
  ASSUME TypeOK, [Next]_vars, Saving
  PROVE  SaveRefreshed
<1>. USE DEF Saving
<1>1. ~ StopRefresh
  BY ConstantsAssumption DEF StopRefresh, TypeOK, ConstantsAssumption
<1>2. ~ UNCHANGED vars
  BY DEF vars
<1>3. ~ User
  BY DEF User, ToggleSave, ExportPosts, ImportPosts
<1>4. \A s \in Stories : ~ StoryChanges(s)
  BY DEF StoryChanges
<1>5. ~ Snapshot /\ \A s, t \in Stories : ~ Fetch(s, t) /\ ~ FetchFails(s)
  BY DEF Snapshot, TakeSnapshot, Fetch, FetchFails
<1>. QED
  BY <1>1, <1>2, <1>3, <1>4, <1>5 DEF Next, Refresh

-----------------------------------------------------------------------------
(* No copy of a row is newer than the story on the server, and while a     *)
(* refresh runs, what it has collected is no older than the row it will    *)
(* replace, unless the user has written that row since the snapshot; what  *)
(* is due is still to be fetched, or has been collected.                   *)
NotNewer(rows, now) ==
    \A s \in Stories : rows[s] # None => rows[s].version <= now[s]
NeverNewer ==
    NotNewer(saved, server) /\ NotNewer(backup, server) /\ NotNewer(updated, server)
CatchesUp ==
    pc = "fetch" => \A s \in Stories \ tapped :
        updated[s] # None /\ saved[s] # None => saved[s].version <= updated[s].version
StillDue ==
    \A s \in Stories : due[s] # 0 =>
        /\ due[s] <= server[s]
        /\ todo[s] # None \/ (updated[s] # None /\ due[s] <= updated[s].version)
InOrder == NeverNewer /\ CatchesUp /\ StillDue

LEMMA InitInOrder == Init => InOrder
  BY DEF Init, InOrder, NeverNewer, NotNewer, CatchesUp, StillDue, Empty, NothingDue

(* The versions of typed tables are numbers.                               *)
LEMMA VersionsAreNumbers ==
  ASSUME NEW rows \in Tables, NEW s \in Stories, rows[s] # None
  PROVE  rows[s].version \in Nat
  BY ConstantsAssumption DEF Tables, Rows, Versions, ConstantsAssumption

(* A story that changes on the server leaves every copy behind it.         *)
LEMMA ChangeKeepsOrder ==
  ASSUME TypeOK, NEW q \in Stories, StoryChanges(q), NEW rows \in Tables,
         NotNewer(rows, server)
  PROVE  NotNewer(rows, server')
<1>. SUFFICES ASSUME NEW s \in Stories, rows[s] # None
              PROVE  rows[s].version <= server'[s]
  BY DEF NotNewer
<1>1. rows[s].version \in Nat /\ rows[s].version <= server[s]
  BY VersionsAreNumbers DEF NotNewer
<1>2. server[s] \in Nat /\ (server'[s] = server[s] \/ server'[s] = server[s] + 1)
  BY ConstantsAssumption DEF StoryChanges, TypeOK, Versions, ConstantsAssumption
<1>. QED
  BY <1>1, <1>2

LEMMA StepInOrder == TypeOK /\ InOrder /\ [Next]_vars => InOrder'
<1>. SUFFICES ASSUME TypeOK, InOrder, [Next]_vars PROVE InOrder'
  OBVIOUS
<1>1. ASSUME NEW s \in Stories, NEW v \in Versions, NEW u \in {Url(s, "title"), HomeAnchor},
             ToggleSave(s, v, u)
      PROVE  InOrder'
  <2>1. NotNewer(saved', server)
    BY <1>1 DEF ToggleSave, TypeOK, Tables, InOrder, NeverNewer, NotNewer
  <2>2. CatchesUp'
    BY <1>1 DEF ToggleSave, TypeOK, Tables, InOrder, CatchesUp
  <2>. QED
    BY <1>1, <2>1, <2>2 DEF ToggleSave, InOrder, NeverNewer, StillDue
<1>2. CASE ExportPosts
  BY <1>2 DEF ExportPosts, InOrder, NeverNewer, CatchesUp, StillDue
<1>3. CASE ImportPosts
  <2>1. NotNewer(saved', server)
    BY <1>3, UpsertKeeps DEF ImportPosts, TypeOK, InOrder, NeverNewer, NotNewer
  <2>2. CatchesUp'
    BY <1>3 DEF ImportPosts, Upsert, InOrder, CatchesUp
  <2>. QED
    BY <1>3, <2>1, <2>2 DEF ImportPosts, InOrder, NeverNewer, StillDue
<1>4. CASE Snapshot
  <2>1. NeverNewer' /\ CatchesUp'
    BY <1>4 DEF Snapshot, TakeSnapshot, Empty, InOrder, NeverNewer, NotNewer, CatchesUp
  <2>2. \A s \in Stories : server[s] \in Nat
    BY ConstantsAssumption DEF TypeOK, Versions, ConstantsAssumption
  <2>3. StillDue'
    BY <1>4, <2>2, SnapshotEffect DEF Snapshot, TakeSnapshot, StillDue
  <2>. QED
    BY <2>1, <2>3 DEF InOrder
<1>5. ASSUME NEW s \in Stories, NEW t \in Stories, Fetch(s, t)
      PROVE  InOrder'
  <2>1. updated'[s] = None \/ updated'[s].version = server[s]
    BY <1>5, FetchEffect
  <2>2. \A q \in Stories \ {s} : updated'[q] = updated[q] /\ todo'[q] = todo[q]
                                  /\ due'[q] = due[q]
    BY <1>5, FetchEffect
  <2>3. server[s] \in Nat /\ due[s] \in Nat
    BY ConstantsAssumption DEF TypeOK, Versions, ConstantsAssumption
  <2>4. NotNewer(updated', server)
    BY <2>1, <2>2, <2>3 DEF InOrder, NeverNewer, NotNewer
  <2>5. CatchesUp'
    BY <1>5, <2>1, <2>2 DEF Fetch, InOrder, NeverNewer, NotNewer, CatchesUp
  <2>6. due'[s] = 0 \/ (updated'[s] # None /\ updated'[s].version = server[s]
                       /\ due'[s] = due[s])
    BY <1>5, FetchEffect
  <2>7. server' = server
    BY <1>5 DEF Fetch
  <2>8. StillDue'
    BY <2>2, <2>3, <2>6, <2>7 DEF InOrder, StillDue
  <2>. QED
    BY <1>5, <2>4, <2>5, <2>8 DEF Fetch, InOrder, NeverNewer
<1>6. ASSUME NEW s \in Stories, FetchFails(s)
      PROVE  InOrder'
  <2>1. StillDue'
    BY <1>6 DEF FetchFails, TypeOK, InOrder, StillDue
  <2>. QED
    BY <1>6, <2>1 DEF FetchFails, InOrder, NeverNewer, CatchesUp
<1>7. CASE SaveRefreshed
  <2>1. NotNewer(saved', server)
    BY <1>7, UpsertKeeps DEF SaveRefreshed, TypeOK, InOrder, NeverNewer, NotNewer
  <2>2. NotNewer(updated', server)
    BY <1>7 DEF SaveRefreshed, Empty, NotNewer
  <2>. QED
    BY <1>7, <2>1, <2>2
       DEF SaveRefreshed, InOrder, NeverNewer, CatchesUp, StillDue, NothingDue
<1>8. CASE StopRefresh
  BY <1>8 DEF StopRefresh, InOrder, NeverNewer, CatchesUp, StillDue, NothingDue
<1>9. ASSUME NEW s \in Stories, StoryChanges(s)
      PROVE  InOrder'
  <2>1. NeverNewer'
    BY <1>9, ChangeKeepsOrder DEF StoryChanges, TypeOK, InOrder, NeverNewer
  <2>2. \A q \in Stories : due[q] \in Nat /\ server[q] \in Nat
    BY ConstantsAssumption DEF TypeOK, Versions, ConstantsAssumption
  <2>3. \A q \in Stories : server'[q] >= server[q]
    BY <1>9, <2>2 DEF StoryChanges, TypeOK
  <2>4. \A q \in Stories : server'[q] \in Nat
    BY <1>9, <2>2 DEF StoryChanges, TypeOK
  <2>5. StillDue'
    BY <1>9, <2>2, <2>3, <2>4 DEF StoryChanges, InOrder, StillDue
  <2>. QED
    BY <1>9, <2>1, <2>5 DEF StoryChanges, InOrder, CatchesUp
<1>10. CASE UNCHANGED vars
  BY <1>10 DEF vars, InOrder, NeverNewer, CatchesUp, StillDue
<1>. QED
  BY <1>1, <1>2, <1>3, <1>4, <1>5, <1>6, <1>7, <1>8, <1>9, <1>10
     DEF Next, Refresh, User

-----------------------------------------------------------------------------
(* The types of the table, the backup and the refresh's locals hold for    *)
(* any stories and bounds.                                                 *)
THEOREM TypeCorrect == Spec => []TypeOK
<1>. QED
  BY InitType, StepType, PTL DEF Spec

(* Whatever the server answers, a row describes the story it is stored     *)
(* under (refreshedSavedPost's check).                                     *)
THEOREM RowsKeepIdentity == Spec => []RowIdentity
<1>1. RowsKept => RowIdentity
  BY DEF RowsKept, OwnRows, RowIdentity
<1>. QED
  BY <1>1, TypeCorrect, InitKept, StepKept, PTL DEF Spec

(* A saved row is at least as new, at the end of a refresh, as the story   *)
(* was at its start, whatever URL it was saved with: what is due is still  *)
(* to be fetched or collected, and a request is for the row's own page.    *)
THEOREM RefreshBringsUpToDate == Spec => RefreshCatchesUp
<1>1. TypeOK /\ InOrder /\ [Next]_vars =>
        [Saving => \A s \in Stories \ tapped :
            saved[s] # None => saved'[s] # None /\ saved'[s].version >= due[s]]_vars
  <2>. SUFFICES ASSUME TypeOK, InOrder, [Next]_vars, Saving,
                       NEW s \in Stories \ tapped, saved[s] # None
                PROVE  saved'[s] # None /\ saved'[s].version >= due[s]
    OBVIOUS
  <2>1. SaveRefreshed
    BY SavingIsWrite
  <2>2. saved' \in Tables /\ saved'[s] # None
    BY <2>1, UpsertKeeps DEF SaveRefreshed, TypeOK
  <2>3. saved'[s].version \in Nat /\ due[s] \in Nat
    <3>1. \A r \in Rows : r.version \in Nat
      BY ConstantsAssumption DEF Rows, Versions, ConstantsAssumption
    <3>2. saved'[s] \in Rows
      BY <2>2 DEF Tables
    <3>. QED
      BY <3>1, <3>2, ConstantsAssumption DEF TypeOK, Versions, ConstantsAssumption
  <2>4. CASE due[s] = 0
    BY <2>2, <2>3, <2>4
  <2>5. CASE due[s] # 0
    <3>1. todo[s] = None
      BY <2>1 DEF SaveRefreshed, Empty
    <3>2. updated[s] # None /\ due[s] <= updated[s].version
      BY <2>5, <3>1 DEF InOrder, StillDue
    <3>3. saved'[s] = updated[s]
      BY <2>1, <3>2 DEF SaveRefreshed, Upsert
    <3>. QED
      BY <2>2, <2>3, <3>2, <3>3
  <2>. QED
    BY <2>4, <2>5
<1>2. Spec => []InOrder
  BY TypeCorrect, InitInOrder, StepInOrder, PTL DEF Spec
<1>. QED
  BY <1>1, <1>2, TypeCorrect, PTL DEF Spec, RefreshCatchesUp

(* A refresh takes no row back to an older version of its story, except    *)
(* one the user wrote while it was fetching (SavedPostUpdaterWorker saves   *)
(* seconds or minutes after its snapshot).                                 *)
THEOREM RefreshKeepsVersions == Spec => RefreshNeverRegresses
<1>1. TypeOK /\ InOrder /\ [Next]_vars =>
        [Saving => \A s \in Stories \ tapped :
            saved[s] # None /\ saved'[s] # None
                => saved'[s].version >= saved[s].version]_vars
  <2>. SUFFICES ASSUME TypeOK, InOrder, [Next]_vars, Saving,
                       NEW s \in Stories \ tapped, saved[s] # None, saved'[s] # None
                PROVE  saved'[s].version >= saved[s].version
    OBVIOUS
  <2>1. SaveRefreshed
    BY SavingIsWrite
  <2>2. saved[s].version \in Nat
    BY VersionsAreNumbers DEF TypeOK
  <2>3. CASE updated[s] = None
    <3>1. saved'[s] = saved[s]
      BY <2>1, <2>3 DEF SaveRefreshed, Upsert
    <3>. QED
      BY <3>1, <2>2
  <2>4. CASE updated[s] # None
    <3>1. saved'[s] = updated[s]
      BY <2>1, <2>4 DEF SaveRefreshed, Upsert
    <3>2. updated[s].version \in Nat
      BY <2>4, VersionsAreNumbers DEF TypeOK
    <3>. QED
      BY <2>1, <2>4, <3>1, <3>2, <2>2 DEF SaveRefreshed, InOrder, CatchesUp
  <2>. QED
    BY <2>3, <2>4
<1>2. Spec => []InOrder
  BY TypeCorrect, InitInOrder, StepInOrder, PTL DEF Spec
<1>. QED
  BY <1>1, <1>2, TypeCorrect, PTL DEF Spec, RefreshNeverRegresses
=============================================================================
