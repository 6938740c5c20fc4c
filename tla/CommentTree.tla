---------------------------- MODULE CommentTree ----------------------------
(***************************************************************************)
(* The comments page of one post: CommentsHandler turns the flat list of   *)
(* comments into a tree, keeps what is collapsed and what is unread, and   *)
(* lists the visible nodes; CommentsViewModel keeps it while the page      *)
(* comes and goes; PostComments holds the comments seen on earlier visits. *)
(*                                                                         *)
(* addChild only ever appends at the right edge of the tree, so the tree   *)
(* is kept as the sequence of its nodes in preorder with their levels.     *)
(***************************************************************************)
EXTENDS Naturals, SequencesExt

CONSTANTS
    Thread,         \* all comments of the post there will be, as the site lists them
    Parent,         \* the comment each one answers, or None
    None,
    MaxVisits,      \* bound on openings of the page
    MaxToggles      \* bound on collapsing and expanding

Comments == ToSet(Thread)

ASSUME ConstantsAssumption ==
    /\ Thread \in Seq(Comments) /\ Thread # <<>> /\ IsInjective(Thread)
    /\ Parent \in [Comments -> Comments \cup {None}] /\ None \notin Comments
    /\ MaxVisits \in Nat /\ MaxToggles \in Nat

(* A reply follows the comment it answers, with only replies to that       *)
(* comment, near or far, between the two.                                  *)
InThreadOrder(comments) ==
    \A i \in DOMAIN comments : Parent[comments[i]] # None =>
        \E p \in 1 .. i - 1 :
            /\ comments[p] = Parent[comments[i]]
            /\ \A k \in p + 1 .. i - 1 :
                  \E q \in p .. k - 1 : comments[q] = Parent[comments[k]]

ASSUME ThreadAssumption == InThreadOrder(Thread)

VARIABLES
    posted,         \* the comments the site has
    table,          \* PostComments: commentIds, or None
    writes,         \* rememberComments calls on the write dispatcher
    open,           \* the page is on the screen
    loading,        \* loadPostDetails is running
    details,        \* the comments of postDetails, or None: loading or an error
    seenState,      \* SeenCommentsState: Loading, NoBaseline or the seen ids
    pending,        \* the page's effects have yet to run for their keys
    rootNodes,      \* the tree
    collapsedCommentIds,
    listItems,      \* the nodes shown
    visits, toggles     \* counters for the bounds

page == <<open, loading, details, seenState, pending>>
handler == <<rootNodes, collapsedCommentIds, listItems>>
counters == <<visits, toggles>>
vars == <<posted, table, writes, page, handler, counters>>

Nodes == [id : Comments, level : Nat \ {0}, isExpanded : BOOLEAN, isUnread : BOOLEAN]

Loading == [kind |-> "Loading", ids |-> {}]

(* The elements of s at the positions P, in their order.                   *)
Picked(s, P) ==
    LET upTo[n \in 0 .. Len(s)] ==
            IF n = 0 THEN <<>>
            ELSE IF n \in P THEN Append(upTo[n - 1], s[n])
            ELSE upTo[n - 1]
    IN  upTo[Len(s)]

Listed(S) == Picked(Thread, {i \in DOMAIN Thread : Thread[i] \in S})

TypeOK ==
    /\ posted \subseteq Comments
    /\ table = None \/ table \subseteq Comments
    /\ writes \in Seq(SUBSET Comments)
    /\ open \in BOOLEAN /\ loading \in BOOLEAN /\ pending \in BOOLEAN
    /\ details = None \/ details \in Seq(Comments)
    /\ seenState \in [kind : {"Loading", "NoBaseline", "BaselineLoaded"},
                     ids : SUBSET Comments]
    /\ rootNodes \in Seq(Nodes) /\ listItems \in Seq(Nodes)
    /\ collapsedCommentIds \subseteq Comments
    /\ visits \in 0 .. MaxVisits /\ toggles \in 0 .. MaxToggles

Init ==
    /\ posted = {Thread[1]}
    /\ table = None /\ writes = <<>>
    /\ open = FALSE /\ loading = FALSE /\ details = None
    /\ seenState = Loading /\ pending = FALSE
    /\ rootNodes = <<>> /\ collapsedCommentIds = {} /\ listItems = <<>>
    /\ visits = 0 /\ toggles = 0

-----------------------------------------------------------------------------
(* CommentsHandler.                                                        *)

IsUnread(c, seen) == seen.kind = "BaselineLoaded" /\ c \notin seen.ids

(* Mutant: the walk looks at the last node only.                           *)
LastNode(nodes) == {i \in DOMAIN nodes : i = Len(nodes)}

(* The nodes addChild walks from the last root: each the last child of the *)
(* one before.                                                             *)
RightEdge(nodes) ==
    {i \in DOMAIN nodes : \A j \in i + 1 .. Len(nodes) :
                              nodes[j].level > nodes[i].level}

(* A child of the root is added as it was made; one further down is copied *)
(* on the way, without isExpanded.  With no parent on the edge it is lost. *)
AddNode(nodes, c, collapsed, seen) ==
    LET node(level, isExpanded) ==
            [id |-> c, level |-> level, isExpanded |-> isExpanded,
             isUnread |-> IsUnread(c, seen)]
        at == {i \in RightEdge(nodes) : nodes[i].id = Parent[c]}
    IN  IF Parent[c] = None THEN Append(nodes, node(1, c \notin collapsed))
        ELSE IF at = {} THEN nodes
        ELSE LET i == CHOOSE i \in at : TRUE
             IN  Append(nodes, node(nodes[i].level + 1,
                                    nodes[i].level > 1 \/ c \notin collapsed))

Tree(comments, collapsed, seen) ==
    LET upTo[n \in 0 .. Len(comments)] ==
            IF n = 0 THEN <<>> ELSE AddNode(upTo[n - 1], comments[n], collapsed, seen)
    IN  upTo[Len(comments)]

(* A node is under another when it follows it with only deeper nodes       *)
(* between.                                                                *)
Under(nodes, j, i) ==
    i < j /\ \A k \in i + 1 .. j : nodes[k].level > nodes[i].level

(* Mutant: only the replies themselves are hidden, not what is under them. *)
VisibleToReplies(nodes) ==
    Picked(nodes, {j \in DOMAIN nodes : \A i \in DOMAIN nodes :
                      Under(nodes, j, i) /\ nodes[j].level = nodes[i].level + 1
                          => nodes[i].isExpanded})

(* updateVisibleNodes                                                      *)
Visible(nodes) ==
    Picked(nodes, {j \in DOMAIN nodes : \A i \in DOMAIN nodes :
                      Under(nodes, j, i) => nodes[i].isExpanded})

Collapsed(nodes) == {nodes[i].id : i \in {j \in DOMAIN nodes : ~nodes[j].isExpanded}}

-----------------------------------------------------------------------------
(* The page is entered: it loads, and reads what was seen.                 *)
Open ==
    /\ ~open /\ visits < MaxVisits
    /\ open' = TRUE /\ visits' = visits + 1
    /\ loading' = TRUE /\ seenState' = Loading /\ pending' = FALSE
    /\ UNCHANGED <<posted, table, writes, details, handler, toggles>>

(* SeenCommentsState.from                                                  *)
SeenFrom(ids) == IF ids = None THEN [kind |-> "NoBaseline", ids |-> {}]
                 ELSE [kind |-> "BaselineLoaded", ids |-> ids]

(* Mutant: the page's effects are not run again for a new seenState.       *)
GetSeenCommentsUnkeyed ==
    /\ open /\ seenState.kind = "Loading"
    /\ seenState' = SeenFrom(table)
    /\ UNCHANGED <<posted, table, writes, open, loading, details, pending, handler,
                   counters>>

GetSeenComments ==
    /\ open /\ seenState.kind = "Loading"
    /\ seenState' = SeenFrom(table)
    /\ pending' = TRUE
    /\ UNCHANGED <<posted, table, writes, open, loading, details, handler, counters>>

(* The effects are keyed on the whole post: they run again when another    *)
(* part of it than the comments has changed, too.                          *)
LoadPostDetails(otherPart) ==
    /\ open /\ loading
    /\ loading' = FALSE
    /\ details' = Listed(posted)
    /\ pending' = (pending \/ details' # details \/ otherPart)
    /\ UNCHANGED <<posted, table, writes, open, seenState, handler, counters>>

LoadFails ==
    /\ open /\ loading
    /\ loading' = FALSE /\ details' = None /\ pending' = TRUE
    /\ UNCHANGED <<posted, table, writes, open, seenState, handler, counters>>

(* The page's effects, in order: createListNode, updateUnreadStatus, and   *)
(* the visit is remembered.                                                *)
Effects ==
    /\ open /\ pending /\ details # None /\ seenState.kind # "Loading"
    /\ pending' = FALSE
    /\ rootNodes' = Tree(details, collapsedCommentIds, seenState)
    /\ listItems' = Visible(rootNodes')
    /\ writes' = Append(writes, ToSet(details))
    /\ UNCHANGED <<posted, table, open, loading, details, seenState,
                   collapsedCommentIds, counters>>

(* Mutant: syncCollapsedState is not called.                               *)
UpdateListNodeOnly(n) ==
    /\ open /\ details # None /\ seenState.kind # "Loading"
    /\ toggles < MaxToggles
    /\ toggles' = toggles + 1
    /\ rootNodes' = [i \in DOMAIN rootNodes |->
                        IF rootNodes[i].id = n.id
                        THEN [rootNodes[i] EXCEPT !.isExpanded = ~n.isExpanded]
                        ELSE rootNodes[i]]
    /\ listItems' = Visible(rootNodes')
    /\ UNCHANGED <<posted, table, writes, page, collapsedCommentIds, visits>>

(* updateListNode, of a comment on the screen.                             *)
UpdateListNode(n) ==
    /\ open /\ details # None /\ seenState.kind # "Loading"
    /\ toggles < MaxToggles
    /\ toggles' = toggles + 1
    /\ rootNodes' = [i \in DOMAIN rootNodes |->
                        IF rootNodes[i].id = n.id
                        THEN [rootNodes[i] EXCEPT !.isExpanded = ~n.isExpanded]
                        ELSE rootNodes[i]]
    /\ collapsedCommentIds' = Collapsed(rootNodes')
    /\ listItems' = Visible(rootNodes')
    /\ UNCHANGED <<posted, table, writes, page, visits>>

(* rememberComments, one call after the other.                             *)
RememberComments ==
    /\ writes # <<>>
    /\ table' = Head(writes) /\ writes' = Tail(writes)
    /\ UNCHANGED <<posted, page, handler, counters>>

(* The page is left: a load that runs is cancelled, the view model stays.  *)
Close ==
    /\ open
    /\ open' = FALSE /\ loading' = FALSE /\ pending' = FALSE
    /\ seenState' = Loading
    /\ UNCHANGED <<posted, table, writes, details, handler, counters>>

Die ==
    /\ open' = FALSE /\ loading' = FALSE /\ pending' = FALSE
    /\ seenState' = Loading /\ details' = None
    /\ rootNodes' = <<>> /\ collapsedCommentIds' = {} /\ listItems' = <<>>
    /\ writes' = <<>>
    /\ UNCHANGED <<posted, table, counters>>

Post(c) ==
    /\ c \notin posted /\ Parent[c] \in posted \cup {None}
    /\ posted' = posted \cup {c}
    /\ UNCHANGED <<table, writes, page, handler, counters>>

Next ==
    \/ Open \/ GetSeenComments \/ LoadFails
    \/ \E otherPart \in BOOLEAN : LoadPostDetails(otherPart)
    \/ Effects \/ RememberComments \/ Close \/ Die
    \/ \E n \in ToSet(listItems) : UpdateListNode(n)
    \/ \E c \in Comments : Post(c)

Spec == Init /\ [][Next]_vars

-----------------------------------------------------------------------------
Ancestors[c \in Comments] ==
    IF Parent[c] = None THEN {} ELSE {Parent[c]} \cup Ancestors[Parent[c]]

Shown == open /\ ~pending /\ details # None /\ seenState.kind # "Loading"

(***************************************************************************)
(* The tree is the thread: no comment is lost or moved, and each one's     *)
(* indent is the length of its chain of parents.                           *)
(***************************************************************************)
TreeIsThread ==
    Shown =>
        /\ Len(rootNodes) = Len(details)
        /\ \A i \in DOMAIN rootNodes :
              /\ rootNodes[i].id = details[i]
              /\ rootNodes[i].level = Cardinality(Ancestors[details[i]]) + 1

(***************************************************************************)
(* A node is on the screen exactly when none of the comments it answers,   *)
(* near or far, is collapsed.                                              *)
(***************************************************************************)
VisibleIsExpanded ==
    \A i \in DOMAIN rootNodes :
        rootNodes[i] \in ToSet(listItems)
            <=> Ancestors[rootNodes[i].id] \cap Collapsed(rootNodes) = {}

(***************************************************************************)
(* What is marked unread on this visit is what earlier visits did not      *)
(* remember, and nothing on the first one (CHANGELOG.md:160), also when    *)
(* the tree is older than the visit.                                       *)
(***************************************************************************)
UnreadIsNew ==
    Shown => \A i \in DOMAIN rootNodes :
        rootNodes[i].isUnread
            <=> seenState.kind # "NoBaseline" /\ rootNodes[i].id \notin seenState.ids

StaysCollapsed(top) ==
    toggles' = toggles /\ rootNodes' # <<>> =>
        \A i \in DOMAIN rootNodes :
            ~rootNodes[i].isExpanded /\ rootNodes[i].level <= top
                => rootNodes[i].id \in Collapsed(rootNodes')

(***************************************************************************)
(* Only the user, or the end of the process, expands a collapsed root or a *)
(* collapsed reply to a root.                                              *)
(***************************************************************************)
TopStaysCollapsed == [][StaysCollapsed(2)]_vars

(***************************************************************************)
(* "Collapsed comments state are now persisted across navigation events"   *)
(* (CHANGELOG.md:183), of comments at any level.  addChild copies a node   *)
(* that is not a direct reply to the root without isExpanded.              *)
(***************************************************************************)
CollapsedPersists == [][StaysCollapsed(Len(Thread))]_vars
=============================================================================
