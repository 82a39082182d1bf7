------------------------------ MODULE TokenRefresh ------------------------------
(***************************************************************************)
(* Access-token renewal: request and tryRefresh in src/api/http.ts,        *)
(* authFetch in src/api/auth-fetch.ts and the refresh wiring of            *)
(* resolveContext (src/config/resolve.ts).  The requests of one process    *)
(* renew a stored login before they are sent or after a 401, with one      *)
(* refresh in flight per context; a later process starts from the store.   *)
(*                                                                         *)
(* The authorization server is external.  Grant n issues access token n    *)
(* and refresh token n and spends refresh token n - 1; a spent one that is *)
(* sent again revokes the session.                                         *)
(***************************************************************************)
EXTENDS Naturals

CONSTANTS
  Requests, \* the requests of a process
  Copying,  \* those sent with a copy of the context, as MCP calls are
  Grants,   \* bound of the model: the server issues no more
  Restarts  \* bound of the model: processes after the first

ASSUME CopyingAssumption == Copying \subseteq Requests
ASSUME BoundsAssumption == Grants \in Nat \ {0} /\ Restarts \in Nat

VARIABLES
  issued,       \* Server: the latest grant, whose refresh token it accepts
  age,          \* how far each access token is from its expiry
  revoked,      \* Server: a spent refresh token came back
  store,        \* the grant in token.json
  token,        \* ctx.token of each context
  refreshToken, \* refresh.refreshToken, of the object that copies share
  refreshing,   \* the refresh in flight for each context, in the WeakMap
  using,        \* the refresh token each one sent
  pc,           \* where each request stands
  sentToken,    \* the token of its first send, 0 before
  resentToken,  \* the token of its second send, 0 before
  lost,         \* a grant was never stored: its answer, its write or its process was lost
  restarts

serverVars == <<issued, age, revoked>>
processVars == <<token, refreshToken, refreshing, using>>
requestVars == <<pc, sentToken, resentToken>>
vars == <<serverVars, store, processVars, requestVars, lost, restarts>>

\* The context that the copies are made of, which is no request.
Root == "root"
ASSUME RootAssumption == Root \notin Requests

Contexts == {Root} \cup Copying

\* The context a request is sent with.
Ctx(r) == IF r \in Copying THEN r ELSE Root

Tokens == 1 .. Grants

Started(n) ==
  /\ token = [x \in Contexts |-> n]
  /\ refreshToken = n
  /\ refreshing = [x \in Contexts |-> "none"]
  /\ using = [x \in Contexts |-> 0]
  /\ pc = [r \in Requests |-> "idle"]
  /\ sentToken = [r \in Requests |-> 0]
  /\ resentToken = [r \in Requests |-> 0]

Init ==
  /\ issued = 1
  /\ age = [t \in Tokens |-> "fresh"]
  /\ revoked = FALSE
  /\ store = 1
  /\ Started(1)
  /\ lost = FALSE
  /\ restarts = 0

--------------------------------------------------------------------------------
\* Time and the server

\* An issued token comes within EXPIRY_SKEW_MS of its expiry, then passes it.
\* The last one of the model stays fresh.
Age(t) ==
  /\ t <= issued
  /\ t < Grants
  /\ age[t] # "expired"
  /\ age' = [age EXCEPT ![t] = IF @ = "fresh" THEN "expiring" ELSE "expired"]
  /\ UNCHANGED <<issued, revoked, store, processVars, requestVars, lost, restarts>>

\* A request with access token t is let in.
Accepted(t) == age[t] # "expired" /\ ~revoked

\* The refresh grant: the latest refresh token is exchanged, an older one is
\* taken for stolen.
Exchange(x) ==
  /\ refreshing[x] = "sent"
  /\ \/ /\ using[x] = issued /\ ~revoked /\ issued < Grants
        /\ issued' = issued + 1
        /\ revoked' = revoked
        /\ refreshing' = [refreshing EXCEPT ![x] = "granted"]
     \/ /\ using[x] # issued \/ revoked
        /\ issued' = issued
        /\ revoked' = TRUE
        /\ refreshing' = [refreshing EXCEPT ![x] = "failed"]
  /\ UNCHANGED <<age, store, token, refreshToken, using, requestVars, lost, restarts>>

\* The exchange fails on the way there, or on the way back with the grant made.
ExchangeLost(x) ==
  /\ \/ refreshing[x] = "sent" /\ lost' = lost
     \/ refreshing[x] = "granted" /\ lost' = TRUE
  /\ refreshing' = [refreshing EXCEPT ![x] = "failed"]
  /\ UNCHANGED <<serverVars, store, token, refreshToken, using, requestVars, restarts>>

--------------------------------------------------------------------------------
\* tryRefresh, refreshOnce

\* Starts the refresh of context x or joins the one in flight.
Refresh(x) ==
  IF refreshing[x] = "none"
  THEN /\ refreshing' = [refreshing EXCEPT ![x] = "sent"]
       /\ using' = [using EXCEPT ![x] = refreshToken]
  ELSE UNCHANGED <<refreshing, using>>

\* Mutant of Settle: a request is not sent before its token was renewed.
SettleUntilRenewed(x, success) ==
  /\ refreshing' = [refreshing EXCEPT ![x] = "none"]
  /\ pc' = [r \in Requests |->
       CASE Ctx(r) = x /\ pc[r] = "expiring" -> IF success THEN "send" ELSE "begun"
         [] Ctx(r) = x /\ pc[r] = "refused"  -> IF success THEN "resend" ELSE "done"
         [] OTHER                            -> pc[r]]
  /\ UNCHANGED <<using, sentToken, resentToken, restarts>>

\* The callers go on: those before their first send whatever happened, those
\* after a 401 only with a new token.
Settle(x, success) ==
  /\ refreshing' = [refreshing EXCEPT ![x] = "none"]
  /\ pc' = [r \in Requests |->
       CASE Ctx(r) = x /\ pc[r] = "expiring" -> "send"
         [] Ctx(r) = x /\ pc[r] = "refused"  -> IF success THEN "resend" ELSE "done"
         [] OTHER                            -> pc[r]]
  /\ UNCHANGED <<using, sentToken, resentToken, restarts>>

\* Mutant of Persisted: the write keeps the refresh token that was stored.
PersistedOld(n) == store

\* refresh.persist writes the grant to the store.
Persisted(n) == n

\* The grant replaces ctx.token and the refresh token, and is persisted; when
\* persist throws, the caller is told that the refresh failed.
Renewed(x) ==
  /\ refreshing[x] = "granted"
  /\ token' = [token EXCEPT ![x] = using[x] + 1]
  /\ refreshToken' = using[x] + 1
  /\ \/ Settle(x, TRUE) /\ store' = Persisted(using[x] + 1) /\ lost' = lost
     \/ Settle(x, FALSE) /\ store' = store /\ lost' = TRUE
  /\ UNCHANGED serverVars

RefreshFailed(x) ==
  /\ refreshing[x] = "failed"
  /\ Settle(x, FALSE)
  /\ UNCHANGED <<serverVars, store, token, refreshToken, lost>>

--------------------------------------------------------------------------------
\* request, authFetch

Move(r, step) == pc' = [pc EXCEPT ![r] = step]

\* The request begins; a copy of the context has the token of its original.
Begin(r) ==
  /\ pc[r] = "idle"
  /\ Move(r, "begun")
  /\ token' = IF r \in Copying THEN [token EXCEPT ![r] = token[Root]] ELSE token
  /\ UNCHANGED <<serverVars, store, refreshToken, refreshing, using, sentToken,
                 resentToken, lost, restarts>>

\* refreshIfExpiring
Check(r) ==
  /\ pc[r] = "begun"
  /\ IF age[token[Ctx(r)]] = "fresh"
     THEN Move(r, "send") /\ UNCHANGED <<refreshing, using>>
     ELSE Move(r, "expiring") /\ Refresh(Ctx(r))
  /\ UNCHANGED <<serverVars, store, token, refreshToken, sentToken, resentToken, lost,
                 restarts>>

Send(r) ==
  /\ pc[r] = "send"
  /\ sentToken' = [sentToken EXCEPT ![r] = token[Ctx(r)]]
  /\ Move(r, "sending")
  /\ UNCHANGED <<serverVars, store, processVars, resentToken, lost, restarts>>

\* An answer other than 401, or none.
Answered(r) ==
  /\ \/ pc[r] = "sending" /\ Accepted(sentToken[r])
     \/ pc[r] = "resending"
  /\ Move(r, "done")
  /\ UNCHANGED <<serverVars, store, processVars, sentToken, resentToken, lost, restarts>>

\* Mutant of Replaced: a 401 always asks for a refresh.
NeverReplaced(r) == FALSE

\* renewAfter401: another request replaced the token meanwhile.
Replaced(r) == token[Ctx(r)] # sentToken[r]

Refused(r) ==
  /\ pc[r] = "sending"
  /\ ~Accepted(sentToken[r])
  /\ IF Replaced(r)
     THEN Move(r, "resend") /\ UNCHANGED <<refreshing, using>>
     ELSE Move(r, "refused") /\ Refresh(Ctx(r))
  /\ UNCHANGED <<serverVars, store, token, refreshToken, sentToken, resentToken, lost,
                 restarts>>

\* The headers are built for each send.
ResendToken(r) == token[Ctx(r)]

\* The second send; its answer is final.
Resend(r) ==
  /\ pc[r] = "resend"
  /\ resentToken' = [resentToken EXCEPT ![r] = ResendToken(r)]
  /\ Move(r, "resending")
  /\ UNCHANGED <<serverVars, store, processVars, sentToken, lost, restarts>>

\* The process ends at any point, and another starts from the store.  A refresh
\* in flight may still be granted, with nobody to store it.
Restart ==
  /\ restarts < Restarts
  /\ restarts' = restarts + 1
  /\ \/ /\ \E x \in Contexts :
             refreshing[x] = "sent" /\ using[x] = issued /\ ~revoked /\ issued < Grants
        /\ issued' = issued + 1
        /\ lost' = TRUE
     \/ /\ issued' = issued
        /\ lost' = (lost \/ \E x \in Contexts : refreshing[x] = "granted")
  /\ token' = [x \in Contexts |-> store]
  /\ refreshToken' = store
  /\ refreshing' = [x \in Contexts |-> "none"]
  /\ using' = [x \in Contexts |-> 0]
  /\ pc' = [r \in Requests |-> "idle"]
  /\ sentToken' = [r \in Requests |-> 0]
  /\ resentToken' = [r \in Requests |-> 0]
  /\ UNCHANGED <<age, revoked, store>>

Step(r) ==
  Check(r) \/ Send(r) \/ Answered(r) \/ Refused(r) \/ Resend(r)

Refreshing(x) == Exchange(x) \/ ExchangeLost(x) \/ Renewed(x) \/ RefreshFailed(x)

Next ==
  \/ \E r \in Requests : Begin(r) \/ Step(r)
  \/ \E x \in Contexts : Refreshing(x)
  \/ \E t \in Tokens : Age(t)
  \/ Restart

Spec == Init /\ [][Next]_vars

\* Requests and exchanges are answered or fail.  Nobody has to begin a request.
FairSpec ==
  /\ Spec
  /\ \A r \in Requests : WF_vars(Step(r))
  /\ \A x \in Contexts : WF_vars(Refreshing(x))

--------------------------------------------------------------------------------
TypeOK ==
  /\ issued \in Tokens
  /\ age \in [Tokens -> {"fresh", "expiring", "expired"}]
  /\ revoked \in BOOLEAN
  /\ store \in 1 .. issued
  /\ token \in [Contexts -> 1 .. issued]
  /\ refreshToken \in 1 .. issued
  /\ refreshing \in [Contexts -> {"none", "sent", "granted", "failed"}]
  /\ using \in [Contexts -> 0 .. issued]
  /\ pc \in [Requests -> {"idle", "begun", "expiring", "send", "sending", "refused",
                          "resend", "resending", "done"}]
  /\ sentToken \in [Requests -> 0 .. issued]
  /\ resentToken \in [Requests -> 0 .. issued]
  /\ lost \in BOOLEAN
  /\ restarts \in 0 .. Restarts

\* src/api/http.ts:274-278: no refresh token is sent twice, by concurrent requests
\* or by a later process, unless the grant that replaced it never got stored; so
\* nothing the SDK does on its own revokes the session.
NoReplay == revoked => lost

\* A token is renewed once for all the requests that found it expiring or were
\* refused with it: no exchange is sent to replace one that is still fresh.
RenewsOnlyOld ==
  \A x \in Contexts : refreshing[x] = "sent" => age[token[x]] # "fresh" \/ revoked

\* The retry after a 401 carries another token than the one that was refused.
RetryIsRenewed == \A r \in Requests : resentToken[r] # 0 => resentToken[r] > sentToken[r]

\* Every request that began ends, with at most one retry, unless its process does.
RequestsEnd == \A r \in Requests : pc[r] = "begun" ~> pc[r] \in {"idle", "done"}
================================================================================
