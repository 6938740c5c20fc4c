------------------------ MODULE SessionCookiesProofs ------------------------
(***************************************************************************)
(* Proofs about SessionCookies for any calls, cookies, users, headers and  *)
(* logins, and either order of the interceptors.  What a save read is      *)
(* still in the row when it writes, unless touched says that another actor *)
(* wrote in between; the rest follows from that.                           *)
(***************************************************************************)
EXTENDS SessionCookies, TLAPS

-----------------------------------------------------------------------------
(* Whatever header a server sends, the sleep is within the limit, and its  *)
(* type is that of TimeUnit.sleep's argument.                              *)
THEOREM DelayBounded ==
    ASSUME NEW header \in RetryAfters
    PROVE  /\ parseRetryAfter(header) \in Int
           /\ parseRetryAfter(header) <= MAX_RETRY_DELAY_SECONDS
<1>1. /\ header.value \in Int
      /\ MAX_RETRY_DELAY_SECONDS \in Nat
  BY ConstantsAssumption DEF ConstantsAssumption
<1> QED BY <1>1 DEF parseRetryAfter, AtMost

-----------------------------------------------------------------------------
LEMMA InitTypes == ASSUME Init PROVE TypeOK
<1>1. NoCookies \in Jars /\ NoCookies \in Deltas
  BY DEF NoCookies, Jars, Deltas
<1>2. logins \in 0 .. MaxLogins
  BY ConstantsAssumption DEF ConstantsAssumption, Init
<1> QED BY <1>1, <1>2 DEF Init, TypeOK

LEMMA MergeTypes ==
    ASSUME NEW current \in Jars, NEW incoming \in Deltas
    PROVE  MergeCookies(current, incoming) \in Jars
  BY DEF Jars, Deltas, MergeCookies

(* The end of a save: the dialog is done, a call goes to its interceptors. *)
LEMMA SaveEnds ==
    ASSUME NEW c \in Calls, SaveMerged(c)
    PROVE  /\ pc[c] = "write" /\ order' = order /\ EndSave(c)
           /\ \/ pc' = [pc EXCEPT ![c] = order[1]] /\ UNCHANGED <<retried, waited>>
              \/ Return(c)
  BY DEF SaveMerged, Return, Goto

LEMMA StepTypes == ASSUME TypeOK, [Next]_vars PROVE TypeOK'
<1> USE DEF TypeOK, Goto, local, row
<1>n. NoCookies \in Jars /\ NoCookies \in Deltas /\ SetCookies \subseteq Deltas
  BY ConstantsAssumption DEF ConstantsAssumption, NoCookies, Jars, Deltas
<1>o. order[1] \in {"check", "limit"} /\ order[2] \in {"check", "limit"}
  BY DEF Orders
<1>1. ASSUME NEW c \in Calls, Begin(c) \/ LoadForRequest(c) PROVE TypeOK'
  BY <1>1 DEF Begin, LoadForRequest
<1>2. ASSUME NEW c \in Calls, NEW d \in SetCookies, Respond(c, d) PROVE TypeOK'
  <2>1. CASE d = NoCookies
    BY <1>2, <1>n, <1>o, <2>1 DEF Respond
  <2>2. CASE d # NoCookies
    BY <1>2, <1>n, <2>2 DEF Respond
  <2> QED BY <2>1, <2>2
<1>3. ASSUME NEW c \in Calls, FailCall(c) PROVE TypeOK'
  BY <1>3, <1>n DEF FailCall, Return, EndSave
<1>4. ASSUME NEW c \in Calls, ReadUser(c) PROVE TypeOK'
  BY <1>4 DEF ReadUser
<1>5. ASSUME NEW c \in Calls, ReadJar(c) PROVE TypeOK'
  BY <1>5 DEF ReadJar
<1>6. ASSUME NEW c \in Calls, SaveMerged(c) PROVE TypeOK'
  <2>1. MergeCookies(cur[c], delta[c]) \in Jars
    BY MergeTypes
  <2>2. jar' \in Jars /\ user' \in Users \cup {None}
    BY <1>6, <1>n, <2>1 DEF SaveMerged, StoreMerged, StoreClear, StoreSet
  <2>3. touched' \in [Calls -> BOOLEAN]
    BY <1>6 DEF SaveMerged, Written
  <2>4. /\ logins' = logins /\ order' = order
        /\ mainSave' \in SUBSET Calls
    BY <1>6 DEF SaveMerged
  <2>5. CASE pc' = [pc EXCEPT ![c] = order[1]] /\ UNCHANGED <<retried, waited>>
    BY <1>6, <1>n, <1>o, <2>2, <2>3, <2>4, <2>5, SaveEnds DEF EndSave
  <2>6. CASE Return(c)
    BY <1>6, <1>n, <2>2, <2>3, <2>4, <2>6 DEF Return, EndSave
  <2> QED BY <1>6, <2>5, <2>6, SaveEnds
<1>7. ASSUME NEW c \in Calls, NEW check \in {"check", "limit"}, Pass(c, check),
             UNCHANGED <<row, order, mainSave, logins, touched>>
      PROVE  TypeOK'
  <2>1. CASE check = order[2]
    BY <1>7, <1>n, <2>1 DEF Pass, Return, EndSave
  <2>2. CASE check # order[2]
    BY <1>7, <1>o, <2>2 DEF Pass
  <2> QED BY <2>1, <2>2
<1>8. ASSUME NEW c \in Calls, NEW toLogin \in BOOLEAN, CheckExpiry(c, toLogin) PROVE TypeOK'
  <2>1. CASE SessionExpired(c, toLogin)
    BY <1>8, <2>1 DEF CheckExpiry
  <2>2. CASE ~SessionExpired(c, toLogin)
    BY <1>7, <1>8, <2>2 DEF CheckExpiry
  <2> QED BY <2>1, <2>2
<1>9. ASSUME NEW c \in Calls, ClearAndRetry(c) PROVE TypeOK'
  <2>1. touched' \in [Calls -> BOOLEAN]
    BY <1>9 DEF ClearAndRetry, Written
  <2>2. waited' \in [Calls -> BOOLEAN]
    BY <1>9, Zenon DEF ClearAndRetry
  <2> QED BY <1>9, <1>n, <2>1, <2>2 DEF ClearAndRetry, StoreClear, EndSave
<1>10. ASSUME NEW c \in Calls, NEW header \in RetryAfters \cup {None}, CheckRetryAfter(c, header)
       PROVE  TypeOK'
  <2>1. CASE Waits(c, header)
    <3>1. retried' \in [Calls -> BOOLEAN]
      BY <1>10, <2>1, Zenon DEF CheckRetryAfter
    <3> QED BY <1>10, <2>1, <3>1 DEF CheckRetryAfter
  <2>2. CASE ~Waits(c, header)
    BY <1>7, <1>10, <2>2 DEF CheckRetryAfter
  <2> QED BY <2>1, <2>2
<1>11. ASSUME NEW c \in Calls, NEW n \in Names, NEW v \in Values, SaveAnubisCookie(c, n, v)
       PROVE  TypeOK'
  <2>1. [NoCookies EXCEPT ![n] = v] \in Deltas
    BY DEF NoCookies, Deltas
  <2> QED BY <1>11, <2>1 DEF SaveAnubisCookie
<1>12. ASSUME NEW cookies \in Jars, NEW u \in Users, Login(cookies, u) PROVE TypeOK'
  <2>1. logins' \in 0 .. MaxLogins
    BY <1>12, ConstantsAssumption DEF ConstantsAssumption, Login
  <2>2. touched' \in [Calls -> BOOLEAN]
    BY <1>12 DEF Login
  <2> QED BY <1>12, <2>1, <2>2 DEF Login, StoreSet
<1>13. CASE Logout
  <2>1. touched' \in [Calls -> BOOLEAN]
    BY <1>13 DEF Logout
  <2> QED BY <1>13, <1>n, <2>1 DEF Logout, StoreClear
<1>14. CASE UNCHANGED vars
  BY <1>14 DEF vars
<1> QED
  BY <1>1, <1>2, <1>3, <1>4, <1>5, <1>6, <1>8, <1>9, <1>10, <1>11, <1>12, <1>13, <1>14
  DEF Next, Handle

(* Cookies, names and the locals of every call keep their types.           *)
THEOREM TypeCorrect == Spec => []TypeOK
  BY InitTypes, StepTypes, PTL DEF Spec

-----------------------------------------------------------------------------
(* What a save has read is what the row holds, as long as nobody else has  *)
(* written since its reads began.                                          *)
FreshReads ==
    \A c \in Calls : ~touched[c] =>
        /\ pc[c] \in Saving => name[c] = user
        /\ pc[c] = "write" => cur[c] = jar

Session == UserHasCookies /\ FreshReads

LEMMA SessionStep ==
    ASSUME TypeOK, Session, [Next]_vars
    PROVE  Session'
<1> USE DEF TypeOK, Session, UserHasCookies, FreshReads, Saving, Goto, local, row
<1>o. order[1] \in {"check", "limit"} /\ order[2] \in {"check", "limit"}
  BY DEF Orders
<1>1. ASSUME NEW c \in Calls, Begin(c) \/ LoadForRequest(c) PROVE Session'
  BY <1>1 DEF Begin, LoadForRequest
<1>2. ASSUME NEW c \in Calls, NEW d \in SetCookies, Respond(c, d) PROVE Session'
  BY <1>2, <1>o DEF Respond
<1>3. ASSUME NEW c \in Calls, FailCall(c) PROVE Session'
  BY <1>3 DEF FailCall, Return, EndSave
<1>4. ASSUME NEW c \in Calls, ReadUser(c) PROVE Session'
  BY <1>4 DEF ReadUser
<1>5. ASSUME NEW c \in Calls, ReadJar(c) PROVE Session'
  BY <1>5 DEF ReadJar
<1>6. ASSUME NEW c \in Calls, SaveMerged(c) PROVE Session'
  <2>1. UserHasCookies'
    BY <1>6 DEF SaveMerged, StoreMerged, StoreClear, StoreSet
  <2>2. \A x \in Calls : touched'[x] = IF x = c THEN FALSE ELSE touched[x] \/ pc[x] \in Saving
    BY <1>6, Zenon DEF SaveMerged, Written
  <2>3. pc' = [pc EXCEPT ![c] = order[1]] \/ pc' = [pc EXCEPT ![c] = "idle"]
    BY <1>6, SaveEnds DEF Return
  <2>4. FreshReads'
    BY <1>o, <2>2, <2>3
  <2> QED BY <2>1, <2>4
<1>7. ASSUME NEW c \in Calls, NEW check \in {"check", "limit"}, Pass(c, check),
             UNCHANGED <<row, order, mainSave, logins, touched>>
      PROVE  Session'
  <2>1. CASE check = order[2]
    BY <1>7, <2>1 DEF Pass, Return, EndSave
  <2>2. CASE check # order[2]
    BY <1>7, <1>o, <2>2 DEF Pass
  <2> QED BY <2>1, <2>2
<1>8. ASSUME NEW c \in Calls, NEW toLogin \in BOOLEAN, CheckExpiry(c, toLogin) PROVE Session'
  <2>1. CASE SessionExpired(c, toLogin)
    BY <1>8, <2>1 DEF CheckExpiry
  <2>2. CASE ~SessionExpired(c, toLogin)
    BY <1>7, <1>8, <2>2 DEF CheckExpiry
  <2> QED BY <2>1, <2>2
<1>9. ASSUME NEW c \in Calls, ClearAndRetry(c) PROVE Session'
  <2>1. UserHasCookies'
    BY <1>9 DEF ClearAndRetry, StoreClear
  <2>2. \A x \in Calls : touched'[x] = IF x = c THEN FALSE ELSE touched[x] \/ pc[x] \in Saving
    BY <1>9, Zenon DEF ClearAndRetry, Written
  <2>3. pc' = [pc EXCEPT ![c] = "load"]
    BY <1>9 DEF ClearAndRetry
  <2>4. FreshReads'
    BY <2>2, <2>3
  <2> QED BY <2>1, <2>4
<1>10. ASSUME NEW c \in Calls, NEW header \in RetryAfters \cup {None}, CheckRetryAfter(c, header)
       PROVE  Session'
  <2>1. CASE Waits(c, header)
    BY <1>10, <2>1 DEF CheckRetryAfter
  <2>2. CASE ~Waits(c, header)
    BY <1>7, <1>10, <2>2 DEF CheckRetryAfter
  <2> QED BY <2>1, <2>2
<1>11. ASSUME NEW c \in Calls, NEW n \in Names, NEW v \in Values, SaveAnubisCookie(c, n, v)
       PROVE  Session'
  BY <1>11 DEF SaveAnubisCookie
<1>12. ASSUME \A x \in Calls : touched'[x] = (touched[x] \/ pc[x] \in Saving), UNCHANGED pc
       PROVE  FreshReads'
  BY <1>12
<1>13. ASSUME NEW cookies \in Jars, NEW u \in Users, Login(cookies, u) PROVE Session'
  <2>1. UserHasCookies' /\ UNCHANGED pc
    BY <1>13 DEF Login, StoreSet
  <2>2. \A x \in Calls : touched'[x] = (touched[x] \/ pc[x] \in Saving)
    BY <1>13, Zenon DEF Login
  <2> QED BY <1>12, <2>1, <2>2
<1>14. CASE Logout
  <2>1. UserHasCookies' /\ UNCHANGED pc
    BY <1>14 DEF Logout, StoreClear
  <2>2. \A x \in Calls : touched'[x] = (touched[x] \/ pc[x] \in Saving)
    BY <1>14, Zenon DEF Logout
  <2> QED BY <1>12, <2>1, <2>2
<1>15. CASE UNCHANGED vars
  BY <1>15 DEF vars
<1> QED
  BY <1>1, <1>2, <1>3, <1>4, <1>5, <1>6, <1>8, <1>9, <1>10, <1>11, <1>13, <1>14, <1>15
  DEF Next, Handle

LEMMA SessionInvariant == Spec => [](TypeOK /\ Session)
<1>1. Init => Session
  BY DEF Init, Session, UserHasCookies, FreshReads, Saving
<1> QED BY <1>1, InitTypes, StepTypes, SessionStep, PTL DEF Spec

(* Whatever saves, expiries, logins and logouts overlap, the row never     *)
(* holds a user name without a cookie.                                     *)
THEOREM NamedUserHasCookies == Spec => []UserHasCookies
  BY SessionInvariant, PTL DEF Session

-----------------------------------------------------------------------------
(* Only its own SaveMerged ends the write of a call, and the user name is  *)
(* written by that, by a login, and by what clears the row.                *)
LEMMA Writers ==
    ASSUME TypeOK, [Next]_vars
    PROVE  /\ \A c \in Calls : pc[c] = "write" /\ pc'[c] # "write" => SaveMerged(c)
           /\ \/ user' = user \/ user' = None \/ logins' = logins + 1
              \/ \E c \in Calls : SaveMerged(c)
<1> USE DEF Goto
<1>0. pc \in [Calls -> {"idle", "load", "wire", "readUser", "readJar",
                        "write", "check", "clear", "limit"}]
  BY DEF TypeOK
<1>1. ASSUME NEW c \in Calls,
             \/ Begin(c) \/ LoadForRequest(c) \/ FailCall(c) \/ ReadUser(c) \/ ReadJar(c)
             \/ \E d \in SetCookies : Respond(c, d)
             \/ \E toLogin \in BOOLEAN : CheckExpiry(c, toLogin)
             \/ \E header \in RetryAfters \cup {None} : CheckRetryAfter(c, header)
             \/ \E n \in Names, v \in Values : SaveAnubisCookie(c, n, v)
      PROVE  /\ pc[c] # "write" /\ user' = user
             /\ \A x \in Calls : x # c => pc'[x] = pc[x]
  <2>1. pc[c] # "write" /\ user' = user
    BY <1>1 DEF Begin, LoadForRequest, FailCall, ReadUser, ReadJar, Respond, CheckExpiry,
                CheckRetryAfter, SaveAnubisCookie, row
  <2>2. \E step : pc' = [pc EXCEPT ![c] = step]
    BY <1>1 DEF Begin, LoadForRequest, FailCall, ReadUser, ReadJar, Respond, CheckExpiry,
                CheckRetryAfter, SaveAnubisCookie, Pass, Return
  <2> QED BY <1>0, <2>1, <2>2
<1>2. ASSUME NEW c \in Calls, ClearAndRetry(c)
      PROVE  pc[c] # "write" /\ user' = None /\ \A x \in Calls : x # c => pc'[x] = pc[x]
  BY <1>0, <1>2 DEF ClearAndRetry, StoreClear
<1>3. ASSUME NEW c \in Calls, SaveMerged(c)
      PROVE  \A x \in Calls : x # c => pc'[x] = pc[x]
  BY <1>0, <1>3, SaveEnds DEF Return
<1>4. ASSUME NEW cookies \in Jars, NEW u \in Users, Login(cookies, u)
      PROVE  logins' = logins + 1 /\ pc' = pc
  BY <1>4 DEF Login
<1>5. CASE Logout \/ UNCHANGED vars
  BY <1>5 DEF Logout, StoreClear, vars, row
<1>6. CASE \E cookies \in Jars, u \in Users : Login(cookies, u)
  BY <1>4, <1>6
<1>7. ASSUME NEW c \in Calls,
             \/ Begin(c) \/ Handle(c)
             \/ \E n \in Names, v \in Values : SaveAnubisCookie(c, n, v)
      PROVE  /\ \A x \in Calls : pc[x] = "write" /\ pc'[x] # "write" => SaveMerged(x)
             /\ user' = user \/ user' = None \/ SaveMerged(c)
  BY <1>1, <1>2, <1>3, <1>7 DEF Handle
<1> QED BY <1>5, <1>6, <1>7 DEF Next

(* A response changes exactly the cookies it mentions, and no user name,   *)
(* if no other write to the row overlaps its save.                         *)
THEOREM SaveMerges == Spec => SaveKeepsTheRest
<1>1. ASSUME TypeOK, Session, [Next]_vars, NEW c \in Calls,
             pc[c] = "write", pc'[c] # "write", ~touched[c]
      PROVE  /\ \A n \in Names : delta[c][n] = None => jar'[n] = jar[n]
             /\ user' # None => user' = user
  <2> DEFINE merged == MergeCookies(cur[c], delta[c])
  <2>1. SaveMerged(c)
    BY <1>1, Writers
  <2>2. name[c] = user /\ cur[c] = jar
    BY <1>1 DEF Session, FreshReads, Saving
  <2>3. \A n \in Names : delta[c][n] = None => merged[n] = jar[n]
    BY <2>2 DEF MergeCookies
  <2>4. jar' = merged /\ user' \in {None, user}
    BY <2>1, <2>2 DEF SaveMerged, StoreMerged, StoreClear, StoreSet
  <2> QED BY <2>3, <2>4
<1>2. TypeOK /\ Session /\ [Next]_vars =>
         \A c \in Calls :
            pc[c] = "write" /\ pc'[c] # "write" /\ ~touched[c] =>
                /\ \A n \in Names : delta[c][n] = None => jar'[n] = jar[n]
                /\ user' # None => user' = user
  BY <1>1
<1> QED BY <1>2, SessionInvariant, PTL DEF Spec, SaveKeepsTheRest

(* A user is logged in by a login, or by a save that had read the name     *)
(* before another actor changed the row.                                   *)
THEOREM LoginLogsIn == Spec => OnlyLoginLogsIn
<1>1. TypeOK /\ Session /\ [Next]_vars =>
         (user' \in Users /\ user' # user =>
            \/ logins' = logins + 1
            \/ \E c \in Calls : pc[c] = "write" /\ pc'[c] # "write" /\ touched[c])
  <2> SUFFICES ASSUME TypeOK, Session, [Next]_vars, user' \in Users, user' # user,
                      logins' # logins + 1
               PROVE  \E c \in Calls : pc[c] = "write" /\ pc'[c] # "write" /\ touched[c]
    OBVIOUS
  <2>1. user' # None
    BY ConstantsAssumption DEF ConstantsAssumption
  <2>2. PICK c \in Calls : SaveMerged(c)
    BY <2>1, Writers
  <2>3. /\ pc[c] = "write" /\ pc'[c] \in {order[1], "idle"}
        /\ user' = name[c]
    BY <2>1, <2>2, SaveEnds
       DEF SaveMerged, StoreMerged, StoreClear, StoreSet, Return, Goto, TypeOK
  <2>4. pc'[c] # "write"
    BY <2>3 DEF TypeOK, Orders
  <2>5. touched[c]
    BY <2>3 DEF Session, FreshReads, Saving, TypeOK
  <2> QED BY <2>3, <2>4, <2>5
<1> QED BY <1>1, SessionInvariant, PTL DEF Spec, OnlyLoginLogsIn
-----------------------------------------------------------------------------
(* The session check decides to clear only in its first proceed.           *)
ClearsOnce == \A c \in Calls : pc[c] = "clear" => ~retried[c]

(* A call is where it was, with its proceeds.                              *)
Same(c) == UNCHANGED <<pc[c], retried[c], waited[c]>>

LEMMA Movers ==
    ASSUME TypeOK, [Next]_vars, NEW x \in Calls
    PROVE  \/ Same(x) \/ Begin(x) \/ Handle(x)
           \/ \E n \in Names, v \in Values : SaveAnubisCookie(x, n, v)
<1> USE DEF Same, Goto
<1>0. /\ pc \in [Calls -> {"idle", "load", "wire", "readUser", "readJar",
                           "write", "check", "clear", "limit"}]
      /\ retried \in [Calls -> BOOLEAN] /\ waited \in [Calls -> BOOLEAN]
  BY DEF TypeOK
<1>1. ASSUME NEW c \in Calls, c # x,
             \/ Begin(c) \/ LoadForRequest(c) \/ FailCall(c) \/ ReadUser(c) \/ ReadJar(c)
             \/ SaveMerged(c) \/ ClearAndRetry(c)
             \/ \E d \in SetCookies : Respond(c, d)
             \/ \E toLogin \in BOOLEAN : CheckExpiry(c, toLogin)
             \/ \E header \in RetryAfters \cup {None} : CheckRetryAfter(c, header)
             \/ \E n \in Names, v \in Values : SaveAnubisCookie(c, n, v)
      PROVE  Same(x)
  <2>1. \E v : pc' = [pc EXCEPT ![c] = v]
    BY <1>1 DEF Begin, LoadForRequest, FailCall, ReadUser, ReadJar, SaveMerged, ClearAndRetry,
                Respond, CheckExpiry, CheckRetryAfter, SaveAnubisCookie, Pass, Return
  <2>2. retried' = retried \/ \E v : retried' = [retried EXCEPT ![c] = v]
    BY <1>1 DEF Begin, LoadForRequest, FailCall, ReadUser, ReadJar, SaveMerged, ClearAndRetry,
                Respond, CheckExpiry, CheckRetryAfter, SaveAnubisCookie, Pass, Return, local
  <2>3. waited' = waited \/ \E v : waited' = [waited EXCEPT ![c] = v]
    BY <1>1 DEF Begin, LoadForRequest, FailCall, ReadUser, ReadJar, SaveMerged, ClearAndRetry,
                Respond, CheckExpiry, CheckRetryAfter, SaveAnubisCookie, Pass, Return, local
  <2> QED BY <1>0, <1>1, <2>1, <2>2, <2>3
<1>2. CASE Logout \/ UNCHANGED vars \/ \E cookies \in Jars, u \in Users : Login(cookies, u)
  BY <1>2 DEF Logout, Login, vars, local
<1>3. ASSUME NEW c \in Calls,
             \/ Begin(c) \/ Handle(c)
             \/ \E n \in Names, v \in Values : SaveAnubisCookie(c, n, v)
      PROVE  \/ Same(x) \/ Begin(x) \/ Handle(x)
             \/ \E n \in Names, v \in Values : SaveAnubisCookie(x, n, v)
  <2>1. CASE c = x
    BY <1>3, <2>1
  <2>2. CASE c # x
    BY <1>1, <1>3, <2>2 DEF Handle
  <2> QED BY <2>1, <2>2
<1> QED BY <1>2, <1>3 DEF Next

LEMMA ClearsOnceStep ==
    ASSUME TypeOK, ClearsOnce, [Next]_vars
    PROVE  ClearsOnce'
<1> SUFFICES ASSUME NEW c \in Calls, pc'[c] = "clear"
             PROVE  ~retried'[c]
  BY DEF ClearsOnce
<1>0. /\ pc \in [Calls -> {"idle", "load", "wire", "readUser", "readJar",
                           "write", "check", "clear", "limit"}]
      /\ order[1] \in {"check", "limit"} /\ order[2] \in {"check", "limit"}
  BY DEF TypeOK, Orders
<1>1. CASE Same(c)
  BY <1>1 DEF Same, ClearsOnce
<1>2. CASE \/ Begin(c) \/ LoadForRequest(c) \/ FailCall(c) \/ ReadUser(c) \/ ReadJar(c)
           \/ SaveMerged(c) \/ ClearAndRetry(c)
           \/ \E d \in SetCookies : Respond(c, d)
           \/ \E header \in RetryAfters \cup {None} : CheckRetryAfter(c, header)
           \/ \E n \in Names, v \in Values : SaveAnubisCookie(c, n, v)
  BY <1>0, <1>2 DEF Begin, LoadForRequest, FailCall, ReadUser, ReadJar, SaveMerged,
                    ClearAndRetry, Respond, CheckRetryAfter, SaveAnubisCookie, Pass,
                    Return, Goto
<1>3. ASSUME NEW toLogin \in BOOLEAN, CheckExpiry(c, toLogin)
      PROVE  ~retried'[c]
  <2>1. SessionExpired(c, toLogin)
    BY <1>0, <1>3 DEF CheckExpiry, Pass, Return, Goto
  <2> QED BY <1>3, <2>1 DEF CheckExpiry, SessionExpired, local
<1> QED BY <1>1, <1>2, <1>3, Movers DEF Handle

(* What one pass through the inner interceptor, or the outer one, is worth *)
LEMMA WorkAt ==
    ASSUME NEW r \in BOOLEAN, NEW w \in BOOLEAN, NEW checks \in Orders
    PROVE  LET inner == IF Proceeded(checks[1], r, w) THEN 0 ELSE 7
               outer == IF Proceeded(checks[2], r, w) THEN 0 ELSE 16
           IN  /\ Work("idle", r, w, checks) = 0
               /\ Work("clear", r, w, checks) =
                     IF checks[2] = "check" THEN 1 + outer ELSE 3 + inner + outer
               /\ Work(checks[2], r, w, checks) = 2 + outer
               /\ Work(checks[1], r, w, checks) = 4 + inner + outer
               /\ Work("write", r, w, checks) = 5 + inner + outer
               /\ Work("readJar", r, w, checks) = 6 + inner + outer
               /\ Work("readUser", r, w, checks) = 7 + inner + outer
               /\ Work("wire", r, w, checks) = 8 + inner + outer
               /\ Work("load", r, w, checks) = 9 + inner + outer
<1>1. /\ checks[1] \in {"check", "limit"} /\ checks[2] \in {"check", "limit"}
      /\ checks[1] # checks[2]
  BY DEF Orders
<1> QED BY <1>1 DEF Work, StepsLeft, AtOuter

LEMMA StepWindsDown ==
    ASSUME TypeOK, ClearsOnce, NEW c \in Calls, Handle(c)
    PROVE  WorkLeft(c)' < WorkLeft(c) /\ WorkLeft(c) <= LongestCall
<1> DEFINE r == retried[c]
           w == waited[c]
           inner(a, b) == IF Proceeded(order[1], a, b) THEN 0 ELSE 7
           outer(a, b) == IF Proceeded(order[2], a, b) THEN 0 ELSE 16
<1>0. /\ pc \in [Calls -> {"idle", "load", "wire", "readUser", "readJar",
                           "write", "check", "clear", "limit"}]
      /\ retried \in [Calls -> BOOLEAN] /\ waited \in [Calls -> BOOLEAN]
      /\ order[1] \in {"check", "limit"} /\ order[2] \in {"check", "limit"}
      /\ order[1] # order[2] /\ order \in Orders
  BY DEF TypeOK, Orders
<1>q. order' = order
  BY DEF Handle, LoadForRequest, FailCall, ReadUser, ReadJar, SaveMerged, ClearAndRetry,
         Respond, CheckExpiry, CheckRetryAfter
<1>w. /\ WorkLeft(c) = Work(pc[c], r, w, order)
      /\ WorkLeft(c)' = Work(pc'[c], retried'[c], waited'[c], order)
  BY <1>q DEF WorkLeft
<1>v. /\ r \in BOOLEAN /\ w \in BOOLEAN
      /\ inner(r, w) \in {0, 7} /\ outer(r, w) \in {0, 16}
  BY <1>0
<1>1. WorkLeft(c) <= LongestCall
  BY <1>0, <1>v, <1>w, WorkAt DEF LongestCall
(* A step of the same proceed.                                             *)
<1>2. CASE \/ LoadForRequest(c) \/ ReadUser(c) \/ ReadJar(c)
           \/ SaveMerged(c) /\ pc' = [pc EXCEPT ![c] = order[1]]
                           /\ UNCHANGED <<retried, waited>>
           \/ \E d \in SetCookies : Respond(c, d)
  <2>1. UNCHANGED <<retried[c], waited[c]>>
    BY <1>2 DEF LoadForRequest, ReadUser, ReadJar, Respond, local
  <2>2. <<pc[c], pc'[c]>> \in {<<"load", "wire">>, <<"readUser", "readJar">>,
            <<"readJar", "write">>, <<"write", order[1]>>, <<"wire", order[1]>>,
            <<"wire", "readUser">>}
    BY <1>0, <1>2, SaveEnds DEF LoadForRequest, ReadUser, ReadJar, Respond, Goto
  <2> QED BY <1>1, <1>v, <1>w, <1>0, <2>1, <2>2, WorkAt
(* The end of the call.                                                    *)
<1>3. ASSUME Return(c), pc[c] \in {"wire", "write", order[2]}
      PROVE  WorkLeft(c)' < WorkLeft(c)
  <2>1. pc'[c] = "idle" /\ retried'[c] \in BOOLEAN /\ waited'[c] \in BOOLEAN
    BY <1>0, <1>3 DEF Return, Goto
  <2> QED BY <1>0, <1>3, <1>v, <1>w, <2>1, WorkAt
(* An interceptor returns the response.                                    *)
<1>4. ASSUME NEW check \in {"check", "limit"}, pc[c] = check, Pass(c, check)
      PROVE  WorkLeft(c)' < WorkLeft(c)
  <2>1. CASE check = order[2]
    BY <1>3, <1>4, <2>1 DEF Pass
  <2>2. CASE check = order[1]
    <3>1. pc'[c] = order[2]
      BY <1>0, <1>4, <2>2 DEF Pass, Goto
    <3>2. /\ retried'[c] \in BOOLEAN /\ waited'[c] \in BOOLEAN
          /\ outer(retried'[c], waited'[c]) = outer(r, w)
      BY <1>0, <1>4, <2>2 DEF Pass, Proceeded
    <3> QED BY <1>0, <1>4, <1>v, <1>w, <2>2, <3>1, <3>2, WorkAt
  <2> QED BY <1>0, <2>1, <2>2
(* The session check proceeds again,                                       *)
<1>5. CASE ClearAndRetry(c)
  <2>1. pc[c] = "clear" /\ ~r /\ pc'[c] = "load" /\ retried'[c] = TRUE
    BY <1>0, <1>5 DEF ClearAndRetry, Goto, ClearsOnce
  <2>2. waited'[c] \in BOOLEAN /\ (order[2] = "limit" => waited'[c] = w)
    BY <1>0, <1>5 DEF ClearAndRetry
  <2>b. retried'[c] \in BOOLEAN
    BY <1>0, <1>5, Zenon DEF ClearAndRetry
  <2>3. WorkLeft(c)' = 9 + inner(retried'[c], waited'[c]) + outer(retried'[c], waited'[c])
    BY <1>0, <1>w, <2>1, <2>2, <2>b, WorkAt
  <2>4. CASE order[2] = "check"
    <3>1. /\ outer(r, w) = 16 /\ outer(retried'[c], waited'[c]) = 0
          /\ inner(retried'[c], waited'[c]) \in {0, 7}
      BY <2>1, <2>4 DEF Proceeded
    <3>2. WorkLeft(c) = 1 + outer(r, w)
      BY <1>0, <1>v, <1>w, <2>1, <2>4, WorkAt
    <3> QED BY <1>1, <2>3, <3>1, <3>2
  <2>5. CASE order[2] = "limit"
    <3>1. /\ inner(r, w) = 7 /\ inner(retried'[c], waited'[c]) = 0
          /\ outer(retried'[c], waited'[c]) = outer(r, w)
      BY <1>0, <2>1, <2>2, <2>5 DEF Proceeded
    <3>2. WorkLeft(c) = 3 + inner(r, w) + outer(r, w)
      BY <1>0, <1>v, <1>w, <2>1, <2>5, WorkAt
    <3> QED BY <1>1, <1>v, <2>3, <3>1, <3>2
  <2> QED BY <1>0, <2>4, <2>5
(* or has a cookie to clear first, or passes the response on.              *)
<1>6. ASSUME NEW toLogin \in BOOLEAN, CheckExpiry(c, toLogin)
      PROVE  WorkLeft(c)' < WorkLeft(c)
  <2>1. CASE SessionExpired(c, toLogin)
    <3>1. pc[c] = "check" /\ pc'[c] = "clear" /\ retried'[c] = r /\ waited'[c] = w
      BY <1>0, <1>6, <2>1 DEF CheckExpiry, Goto, local
    <3> QED BY <1>0, <1>v, <1>w, <3>1, WorkAt
  <2>2. CASE ~SessionExpired(c, toLogin)
    BY <1>4, <1>6, <2>2 DEF CheckExpiry
  <2> QED BY <2>1, <2>2
(* The Retry-After check sleeps and proceeds again, or passes it on.       *)
<1>7. ASSUME NEW header \in RetryAfters \cup {None}, CheckRetryAfter(c, header)
      PROVE  WorkLeft(c)' < WorkLeft(c)
  <2>1. CASE Waits(c, header)
    <3>1. pc[c] = "limit" /\ ~w /\ pc'[c] = "load" /\ waited'[c] = TRUE
      BY <1>0, <1>7, <2>1 DEF CheckRetryAfter, Goto, Waits
    <3>2. retried'[c] \in BOOLEAN /\ (order[2] = "check" => retried'[c] = r)
      BY <1>0, <1>7, <2>1 DEF CheckRetryAfter
    <3>b. waited'[c] \in BOOLEAN
      BY <1>0, <1>7, <2>1, Zenon DEF CheckRetryAfter
    <3>3. WorkLeft(c)' = 9 + inner(retried'[c], waited'[c]) + outer(retried'[c], waited'[c])
      BY <1>0, <1>w, <3>1, <3>2, <3>b, WorkAt
    <3>4. CASE order[2] = "limit"
      <4>1. /\ outer(r, w) = 16 /\ outer(retried'[c], waited'[c]) = 0
            /\ inner(retried'[c], waited'[c]) \in {0, 7}
        BY <3>1, <3>4 DEF Proceeded
      <4>2. WorkLeft(c) = 2 + outer(r, w)
        BY <1>0, <1>v, <1>w, <3>1, <3>4, WorkAt
      <4> QED BY <3>3, <4>1, <4>2
    <3>5. CASE order[2] = "check"
      <4>1. /\ inner(r, w) = 7 /\ inner(retried'[c], waited'[c]) = 0
            /\ outer(retried'[c], waited'[c]) = outer(r, w)
        BY <1>0, <3>1, <3>2, <3>5 DEF Proceeded
      <4>2. WorkLeft(c) = 4 + inner(r, w) + outer(r, w)
        BY <1>0, <1>v, <1>w, <3>1, <3>5, WorkAt
      <4> QED BY <1>v, <3>3, <4>1, <4>2
    <3> QED BY <1>0, <3>4, <3>5
  <2>2. CASE ~Waits(c, header)
    BY <1>4, <1>7, <2>2 DEF CheckRetryAfter
  <2> QED BY <2>1, <2>2
<1>8. CASE FailCall(c)
  BY <1>1, <1>3, <1>8 DEF FailCall
<1>9. CASE SaveMerged(c) /\ Return(c)
  BY <1>1, <1>3, <1>9, SaveEnds
<1>10. ASSUME SaveMerged(c)
       PROVE  \/ Return(c)
              \/ pc' = [pc EXCEPT ![c] = order[1]] /\ UNCHANGED <<retried, waited>>
  BY <1>10, SaveEnds
<1> QED BY <1>1, <1>2, <1>5, <1>6, <1>7, <1>8, <1>9, <1>10 DEF Handle

(* Every step a call takes brings its end nearer, however it is answered   *)
(* and whatever other calls do; it has at most LongestCall of them.        *)
THEOREM CallsWindDown == Spec => CallWindsDown
<1>1. Init => ClearsOnce
  BY DEF Init, ClearsOnce
<1>2. TypeOK /\ ClearsOnce /\ [Next]_vars => ClearsOnce'
  BY ClearsOnceStep
<1>3. TypeOK /\ ClearsOnce /\ [Next]_vars =>
         \A c \in Calls :
            \/ pc[c] = "idle"
            \/ UNCHANGED <<pc[c], retried[c], waited[c]>>
            \/ WorkLeft(c)' < WorkLeft(c) /\ WorkLeft(c) <= LongestCall
  <2>1. ASSUME TypeOK, ClearsOnce, [Next]_vars, NEW c \in Calls, pc[c] # "idle", ~Same(c)
        PROVE  WorkLeft(c)' < WorkLeft(c) /\ WorkLeft(c) <= LongestCall
    <3>1. Handle(c)
      BY <2>1, Movers DEF Begin, SaveAnubisCookie
    <3> QED BY <2>1, <3>1, StepWindsDown
  <2> QED BY <2>1 DEF Same
<1> QED BY <1>1, <1>2, <1>3, TypeCorrect, PTL DEF Spec, CallWindsDown
=============================================================================
