-------------------------- MODULE SessionCookies --------------------------
(***************************************************************************)
(* The single stored session: the cookie jar OkHttp calls on its own       *)
(* threads, the session-expiry and Retry-After interceptors around each    *)
(* call, and the screens that log in, log out and solve an Anubis          *)
(* challenge.                                                              *)
(*                                                                         *)
(* Each store access (get, getUsername, set, clear) is one SQL statement   *)
(* on the one row of SessionCookie; saveFromResponse makes three of them   *)
(* with no transaction around them.  The server is external: a response    *)
(* may issue or expire cookies, come from the login page and be rate       *)
(* limited; what nothing but an interceptor asks of it is chosen where it  *)
(* asks.  The interceptors are injected as a set: either may be the outer. *)
(***************************************************************************)
EXTENDS Integers

CONSTANTS
    Calls,      \* HTTP calls, and challenge dialogs, that can overlap
    Names,      \* cookie names
    Values,     \* cookie values
    Users,      \* lobste.rs user names
    None,       \* no cookie of that name, no user name
    Expired,    \* a cookie the server deletes
    SetCookies, \* what responses do to the cookies
    RetryAfters,    \* Retry-After headers, with the status they come with
    MAX_RETRY_DELAY_SECONDS,
    MaxLogins   \* bound on completed logins

ASSUME ConstantsAssumption ==
    /\ None \notin Values \cup Users /\ Expired \notin Values
    /\ None # Expired
    /\ SetCookies \subseteq [Names -> Values \cup {None, Expired}]
    /\ MAX_RETRY_DELAY_SECONDS \in Nat
    /\ RetryAfters \subseteq [status : Nat, kind : {"seconds", "date", "other"}, value : Int]
    /\ MaxLogins \in Nat

VARIABLES
    jar,        \* SessionCookie.value; no cookie at all: there is no row
    user,       \* SessionCookie.username
    pc,         \* the next step of a call
    delta,      \* cookies the response of a call changes
    name,       \* what saveFromResponse read from the row: the user name
    cur,        \*   and the cookies
    retried,    \* SessionExpiryInterceptor is in its second proceed,
    waited,     \* RetryAfterInterceptor is in its second proceed
    order,      \* the interceptors' checks of a response, inner one first
    mainSave,   \* the dialog saving on the main thread, if any
    logins,     \* completed logins
    touched     \* history: another actor wrote between a save's reads
                \*   and its write

row == <<jar, user>>
local == <<delta, name, cur, retried, waited>>
vars == <<row, pc, local, order, mainSave, logins, touched>>

Jars == [Names -> Values \cup {None}]
Deltas == [Names -> Values \cup {None, Expired}]
NoCookies == [n \in Names |-> None]

Saving == {"readJar", "write"}
Orders == {<<"check", "limit">>, <<"limit", "check">>}

TypeOK ==
    /\ jar \in Jars /\ user \in Users \cup {None}
    /\ pc \in [Calls -> {"idle", "load", "wire", "readUser", "readJar",
                         "write", "check", "clear", "limit"}]
    /\ delta \in [Calls -> Deltas]
    /\ name \in [Calls -> Users \cup {None}]
    /\ cur \in [Calls -> Jars]
    /\ retried \in [Calls -> BOOLEAN] /\ waited \in [Calls -> BOOLEAN]
    /\ order \in Orders
    /\ mainSave \in SUBSET Calls
    /\ logins \in 0 .. MaxLogins
    /\ touched \in [Calls -> BOOLEAN]

Init ==
    /\ jar = NoCookies /\ user = None
    /\ pc = [c \in Calls |-> "idle"]
    /\ delta = [c \in Calls |-> NoCookies]
    /\ name = [c \in Calls |-> None]
    /\ cur = [c \in Calls |-> NoCookies]
    /\ retried = [c \in Calls |-> FALSE]
    /\ waited = [c \in Calls |-> FALSE]
    /\ order \in Orders
    /\ mainSave = {}
    /\ logins = 0
    /\ touched = [c \in Calls |-> FALSE]

Goto(c, step) == pc' = [pc EXCEPT ![c] = step]

(* The locals of saveFromResponse are gone. *)
EndSave(c) ==
    /\ delta' = [delta EXCEPT ![c] = NoCookies]
    /\ name' = [name EXCEPT ![c] = None]
    /\ cur' = [cur EXCEPT ![c] = NoCookies]

(* The call is over. *)
Return(c) ==
    /\ Goto(c, "idle")
    /\ EndSave(c)
    /\ retried' = [retried EXCEPT ![c] = FALSE]
    /\ waited' = [waited EXCEPT ![c] = FALSE]

(* An interceptor returns the response: its locals are gone, and the outer *)
(* one or the caller goes on.                                              *)
Pass(c, check) ==
    IF check = order[2] THEN Return(c)
    ELSE /\ Goto(c, order[2])
         /\ retried' = [retried EXCEPT ![c] = @ /\ check # "check"]
         /\ waited' = [waited EXCEPT ![c] = @ /\ check # "limit"]
         /\ UNCHANGED <<delta, name, cur>>

(* The row is written: every other save in progress has read a stale row.  *)
Written(c) ==
    touched' = [x \in Calls |-> IF x = c THEN FALSE
                                ELSE touched[x] \/ pc[x] \in Saving]

StoreClear == jar' = NoCookies /\ user' = None

(* set, with a cookie string that holds at least one cookie                *)
StoreSet(cookies, u) == jar' = cookies /\ user' = u

-----------------------------------------------------------------------------
(* A request to lobste.rs is made.                                         *)
Begin(c) ==
    /\ pc[c] = "idle"
    /\ Goto(c, "load")
    /\ UNCHANGED <<row, local, order, mainSave, logins, touched>>

(* loadForRequest: the request carries the stored cookies.                 *)
LoadForRequest(c) ==
    /\ pc[c] = "load"
    /\ Goto(c, "wire")
    /\ UNCHANGED <<row, local, order, mainSave, logins, touched>>

(* The response changes cookies: the jar sees it before any interceptor.   *)
Respond(c, d) ==
    /\ pc[c] = "wire"
    /\ delta' = [delta EXCEPT ![c] = d]
    /\ Goto(c, IF d = NoCookies THEN order[1] ELSE "readUser")
    /\ UNCHANGED <<row, name, cur, retried, waited, order, mainSave, logins, touched>>

(* No response: an IOException ends the call.                              *)
FailCall(c) ==
    /\ pc[c] = "wire"
    /\ Return(c)
    /\ UNCHANGED <<row, order, mainSave, logins, touched>>

(* saveFromResponse, first statement: the user name,                       *)
ReadUser(c) ==
    /\ pc[c] = "readUser"
    /\ name' = [name EXCEPT ![c] = user]
    /\ Goto(c, "readJar")
    /\ UNCHANGED <<row, delta, cur, retried, waited, order, mainSave,
                   logins, touched>>

(* second statement: the stored cookies,                                   *)
ReadJar(c) ==
    /\ pc[c] = "readJar"
    /\ cur' = [cur EXCEPT ![c] = jar]
    /\ Goto(c, "write")
    /\ UNCHANGED <<row, delta, name, retried, waited, order, mainSave,
                   logins, touched>>

(* Mutant: a response replaces the stored cookies.                        *)
ReplaceCookies(current, incoming) ==
    [n \in Names |-> IF incoming[n] = Expired THEN None ELSE incoming[n]]

(* mergeCookies: incoming cookies win by name, expired ones are dropped.   *)
MergeCookies(current, incoming) ==
    [n \in Names |-> IF incoming[n] = None THEN current[n]
                     ELSE IF incoming[n] = Expired THEN None
                     ELSE incoming[n]]

(* Mutant: an empty jar is stored under the name instead of cleared.       *)
StoreAlways(merged, u) == StoreSet(merged, u)

(* third statement: the merged cookies under the name read at first.       *)
StoreMerged(merged, u) ==
    IF merged = NoCookies THEN StoreClear ELSE StoreSet(merged, u)

(* The response then goes to the interceptors; the dialog's save is done.  *)
SaveMerged(c) ==
    /\ pc[c] = "write"
    /\ StoreMerged(MergeCookies(cur[c], delta[c]), name[c])
    /\ Written(c)
    /\ mainSave' = mainSave \ {c}
    /\ IF c \in mainSave THEN Return(c)
       ELSE Goto(c, order[1]) /\ EndSave(c) /\ UNCHANGED <<retried, waited>>
    /\ UNCHANGED <<order, logins>>

(* SessionExpiryInterceptor looks at the final URL and at the store.  The  *)
(* second proceed is returned as it is.                                    *)
SessionExpired(c, toLogin) == toLogin /\ ~retried[c] /\ jar # NoCookies

CheckExpiry(c, toLogin) ==
    /\ pc[c] = "check"
    /\ IF SessionExpired(c, toLogin) THEN Goto(c, "clear") /\ UNCHANGED local
                                     ELSE Pass(c, "check")
    /\ UNCHANGED <<row, order, mainSave, logins, touched>>

(* The stored cookie is cleared and the request is made once more, through *)
(* RetryAfterInterceptor again if that is the inner one.                   *)
ClearAndRetry(c) ==
    /\ pc[c] = "clear"
    /\ StoreClear
    /\ Written(c)
    /\ Goto(c, "load")
    /\ EndSave(c)
    /\ retried' = [retried EXCEPT ![c] = TRUE]
    /\ waited' = [waited EXCEPT ![c] = @ /\ order[2] = "limit"]
    /\ UNCHANGED <<order, mainSave, logins>>

(* parseRetryAfter: seconds, or the whole seconds until a date.            *)
AtMost(seconds) ==
    IF seconds > MAX_RETRY_DELAY_SECONDS THEN MAX_RETRY_DELAY_SECONDS ELSE seconds

parseRetryAfter(header) ==
    IF header.kind = "seconds" \/ (header.kind = "date" /\ header.value > 0)
    THEN AtMost(header.value) ELSE 0

shouldRetry(status) == status \in {429, 503}

AsksToWait(header) ==
    header # None /\ shouldRetry(header.status) /\ parseRetryAfter(header) > 0

(* Mutant: the second answer may ask to wait again.                        *)
WaitsAgain(c, header) == AsksToWait(header)

(* RetryAfterInterceptor waits once; the second proceed is returned.       *)
Waits(c, header) == AsksToWait(header) /\ ~waited[c]

(* It sleeps on the call's thread and proceeds again, through the session  *)
(* check from its start if that is the inner one.                          *)
CheckRetryAfter(c, header) ==
    /\ pc[c] = "limit"
    /\ IF Waits(c, header)
       THEN /\ Goto(c, "load")
            /\ waited' = [waited EXCEPT ![c] = TRUE]
            /\ retried' = [retried EXCEPT ![c] = @ /\ order[2] = "check"]
            /\ UNCHANGED <<delta, name, cur>>
       ELSE Pass(c, "limit")
    /\ UNCHANGED <<row, order, mainSave, logins, touched>>

-----------------------------------------------------------------------------
(* saveAnubisCookie: the dialog saves the one clearance cookie it found    *)
(* through a jar of its own, on the main thread.                           *)
SaveAnubisCookie(c, n, v) ==
    /\ pc[c] = "idle" /\ mainSave = {}
    /\ mainSave' = {c}
    /\ delta' = [delta EXCEPT ![c] = [NoCookies EXCEPT ![n] = v]]
    /\ Goto(c, "readUser")
    /\ UNCHANGED <<row, name, cur, retried, waited, order, logins, touched>>

(* Mutant: any page of the login WebView is taken for a completed login.   *)
LoginOnAnyPage(cookies, u) ==
    /\ mainSave = {}
    /\ cookies # NoCookies
    /\ StoreSet(cookies, u)
    /\ touched' = [x \in Calls |-> touched[x] \/ pc[x] \in Saving]
    /\ UNCHANGED <<pc, local, order, mainSave, logins>>

(* The login page finished as an authenticated page: saveCookie.           *)
Login(cookies, u) ==
    /\ logins < MaxLogins /\ mainSave = {}
    /\ cookies # NoCookies
    /\ StoreSet(cookies, u)
    /\ logins' = logins + 1
    /\ touched' = [x \in Calls |-> touched[x] \/ pc[x] \in Saving]
    /\ UNCHANGED <<pc, local, order, mainSave>>

(* logout; the WebView's own cookies are outside the model                 *)
Logout ==
    /\ jar # NoCookies /\ mainSave = {}
    /\ StoreClear
    /\ touched' = [x \in Calls |-> touched[x] \/ pc[x] \in Saving]
    /\ UNCHANGED <<pc, local, order, mainSave, logins>>

Handle(c) ==
    \/ LoadForRequest(c)
    \/ \E d \in SetCookies : Respond(c, d)
    \/ FailCall(c)
    \/ ReadUser(c)
    \/ ReadJar(c)
    \/ SaveMerged(c)
    \/ \E toLogin \in BOOLEAN : CheckExpiry(c, toLogin)
    \/ ClearAndRetry(c)
    \/ \E header \in RetryAfters \cup {None} : CheckRetryAfter(c, header)

Next ==
    \/ \E c \in Calls :
          \/ Begin(c)
          \/ Handle(c)
          \/ \E n \in Names, v \in Values : SaveAnubisCookie(c, n, v)
    \/ \E cookies \in Jars, u \in Users : Login(cookies, u)
    \/ Logout

Spec == Init /\ [][Next]_vars

(* Calls have timeouts and their threads run: each started call goes on.   *)
FairSpec == Spec /\ \A c \in Calls : WF_vars(Handle(c))

-----------------------------------------------------------------------------
(***************************************************************************)
(* A screen never shows a logged-in user whose cookies are gone: whatever  *)
(* saves, expiries and logins interleave, a stored name has a cookie.      *)
(***************************************************************************)
UserHasCookies == user # None => jar # NoCookies

(***************************************************************************)
(* A save that no other write overlaps merges: cookies the response does   *)
(* not mention, and the user name, stay as they are.                       *)
(***************************************************************************)
SaveKeepsTheRest ==
    [][\A c \in Calls :
          pc[c] = "write" /\ pc'[c] # "write" /\ ~touched[c] =>
              /\ \A n \in Names : delta[c][n] = None => jar'[n] = jar[n]
              /\ user' # None => user' = user]_vars

(***************************************************************************)
(* A user name appears in the store by a login only.  The one exception is *)
(* a save that had read the name before another actor removed or replaced  *)
(* it.                                                                     *)
(***************************************************************************)
OnlyLoginLogsIn ==
    [][user' \in Users /\ user' # user =>
          \/ logins' = logins + 1
          \/ \E c \in Calls : pc[c] = "write" /\ pc'[c] # "write" /\ touched[c]]_vars

(* Each interceptor proceeds at most twice and sleeps at most once: no call *)
(* goes on forever, even if every answer comes from the login page and     *)
(* asks to wait, and whichever interceptor the other one retries.          *)
CallEnds == \A c \in Calls : pc[c] = "load" ~> pc[c] = "idle"

(* What is left of a call: the proceed the outer interceptor has in hand,  *)
(* then the inner one's, which each proceed of the outer one renews, then  *)
(* the steps of one request and its answer.                                *)
AtOuter(step, checks) == step = checks[2] \/ (step = "clear" /\ checks[2] = "check")
Proceeded(check, r, w) == IF check = "check" THEN r ELSE w

StepsLeft(step, checks) ==
    CASE step = "idle"     -> 0
      [] step = "clear"    -> IF AtOuter(step, checks) THEN 1 ELSE 3
      [] step = checks[2]  -> 2
      [] step = checks[1]  -> 4
      [] step = "write"    -> 5
      [] step = "readJar"  -> 6
      [] step = "readUser" -> 7
      [] step = "wire"     -> 8
      [] step = "load"     -> 9

Work(step, r, w, checks) ==
    IF step = "idle" THEN 0
    ELSE StepsLeft(step, checks)
           + (IF AtOuter(step, checks) \/ Proceeded(checks[1], r, w) THEN 0 ELSE 7)
           + (IF Proceeded(checks[2], r, w) THEN 0 ELSE 16)

WorkLeft(c) == Work(pc[c], retried[c], waited[c], order)

LongestCall == 32

(***************************************************************************)
(* Why a call ends: every step of it leaves less to do, and nothing that   *)
(* other calls, logins or logouts do gives it more, so that it has at most *)
(* LongestCall steps of its own whatever it is answered.                   *)
(***************************************************************************)
CallWindsDown ==
    [][\A c \in Calls :
          \/ pc[c] = "idle"
          \/ UNCHANGED <<pc[c], retried[c], waited[c]>>
          \/ WorkLeft(c)' < WorkLeft(c) /\ WorkLeft(c) <= LongestCall]_vars

(***************************************************************************)
(* What mergeCookies is documented to ensure (LobstersCookieJar.kt:73-78)  *)
(* and its test asks for: a delta never drops an unrelated cookie.  Two    *)
(* overlapping responses break it: the read and the write are not atomic.  *)
(***************************************************************************)
UnrelatedCookiesSurvive ==
    [][\A c \in Calls, n \in Names :
          pc[c] = "write" /\ pc'[c] # "write" /\ delta[c][n] = None =>
              (jar[n] # None => jar'[n] # None)]_vars
=============================================================================
