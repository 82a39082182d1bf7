--------------------------- MODULE TokenRefreshProofs ---------------------------
(***************************************************************************)
(* Proofs about TokenRefresh for every set of requests and any number of   *)
(* grants and restarts.  IInv holds whichever requests are sent with a     *)
(* copy of the context.  With copies NoReplay is false, so only the part   *)
(* about the store assumes that there are none.                            *)
(***************************************************************************)
EXTENDS TokenRefresh, TLAPS

Labels == {"idle", "begun", "expiring", "send", "sending", "refused", "resend", "resending",
           "done"}

\* No context is ahead of the refresh token they share, no exchange was sent for
\* a later one, and what an exchange brings is newer than what its context has.
\* There is one grant on its way at most, the one after that refresh token.
HoldsBehind ==
  /\ \A x \in Contexts :
       /\ token[x] <= refreshToken /\ using[x] <= refreshToken
       /\ refreshing[x] # "none" => token[x] <= using[x]
       /\ refreshing[x] = "granted" => using[x] = refreshToken /\ refreshToken < issued
  /\ \A x, y \in Contexts : refreshing[x] = "granted" /\ refreshing[y] = "granted" => x = y

\* No request is ahead of its context, and one about to be sent again is behind.
SendsBehind ==
  \A r \in Requests :
    /\ sentToken[r] <= token[Ctx(r)]
    /\ pc[r] = "idle" => sentToken[r] = 0
    /\ pc[r] = "resend" => sentToken[r] < token[Ctx(r)]
    /\ pc[r] \notin {"resending", "done"} => resentToken[r] = 0

\* A request that awaits a refresh has one in flight, and one is in flight only
\* where somebody awaits it.
Awaits(r) == pc[r] \in {"expiring", "refused"}
Awaited ==
  \A x \in Contexts : refreshing[x] # "none" <=> \E r \in Requests : Ctx(r) = x /\ Awaits(r)

IInv ==
  /\ TypeOK
  /\ HoldsBehind
  /\ SendsBehind
  /\ Awaited
  /\ RetryIsRenewed
  /\ RenewsOnlyOld

\* What TypeOK says of the grants.
LEMMA Shapes ==
  ASSUME TypeOK
  PROVE  /\ issued \in Nat /\ issued >= 1 /\ issued <= Grants
         /\ refreshToken \in 1 .. issued /\ store \in 1 .. issued
         /\ \A x \in Contexts : token[x] \in 1 .. issued /\ using[x] \in 0 .. issued
         /\ \A r \in Requests : sentToken[r] \in 0 .. issued /\ resentToken[r] \in 0 .. issued
  BY BoundsAssumption DEF TypeOK, Tokens

\* Every request has a context, and a copy of it to itself (authFetch).
LEMMA ContextFacts ==
  /\ \A r \in Requests : Ctx(r) \in Contexts
  /\ Root \in Contexts
  /\ \A r \in Copying : r \in Requests /\ r # Root /\ \A q \in Requests : Ctx(q) = r <=> q = r
  BY CopyingAssumption, RootAssumption DEF Ctx, Contexts

\* The first process starts from the first grant.
LEMMA InitIInv == ASSUME Init PROVE IInv
<1>1. Started(1) /\ issued = 1 /\ ~revoked /\ store = 1 /\ ~lost
      /\ 1 \in 1 .. Grants /\ restarts \in 0 .. Restarts
  BY BoundsAssumption DEF Init
<1>2. /\ token = [x \in Contexts |-> 1] /\ refreshToken = 1
      /\ refreshing = [x \in Contexts |-> "none"] /\ using = [x \in Contexts |-> 0]
      /\ pc = [r \in Requests |-> "idle"]
      /\ sentToken = [r \in Requests |-> 0] /\ resentToken = [r \in Requests |-> 0]
  BY <1>1 DEF Started
<1>3. TypeOK
  <2>1. 1 \in 1 .. 1 /\ 0 \in 0 .. 1 OBVIOUS
  <2>2. QED BY <1>1, <1>2, <2>1 DEF TypeOK, Init, Tokens
<1>4. HoldsBehind /\ SendsBehind BY <1>2, ContextFacts DEF HoldsBehind, SendsBehind
<1>5. Awaited BY <1>2 DEF Awaited, Awaits
<1>6. RetryIsRenewed /\ RenewsOnlyOld BY <1>2 DEF RetryIsRenewed, RenewsOnlyOld
<1>7. QED BY <1>3, <1>4, <1>5, <1>6 DEF IInv

\* What a step of a request may do: move it on, start or join a refresh of a
\* token that is no longer fresh, and send the token of its context.
RequestStep(r) ==
  /\ UNCHANGED <<serverVars, store, token, refreshToken, lost, restarts>>
  /\ pc[r] \notin {"idle", "expiring", "refused"}
  /\ pc' = [pc EXCEPT ![r] = pc'[r]] /\ pc'[r] \in Labels \ {"idle"}
  /\ IF pc'[r] \in {"expiring", "refused"}
     THEN Refresh(Ctx(r)) /\ (age[token[Ctx(r)]] # "fresh" \/ revoked)
     ELSE UNCHANGED <<refreshing, using>>
  /\ \/ UNCHANGED sentToken
     \/ pc[r] = "send" /\ sentToken' = [sentToken EXCEPT ![r] = token[Ctx(r)]]
  /\ \/ UNCHANGED resentToken
     \/ pc[r] = "resend" /\ resentToken' = [resentToken EXCEPT ![r] = token[Ctx(r)]]
  /\ pc'[r] = "resend" => sentToken'[r] < token[Ctx(r)]
  /\ pc'[r] \in {"resending", "done"} \/ resentToken'[r] = 0

\* Such a step keeps the invariant.
LEMMA RequestKeeps == ASSUME IInv, NEW r \in Requests, RequestStep(r) PROVE IInv'
<1> USE Shapes, ContextFacts DEF IInv
<1>1. /\ UNCHANGED <<issued, age, revoked, store, token, refreshToken, lost, restarts>>
      /\ pc[r] \notin {"idle", "expiring", "refused"}
      /\ pc' = [pc EXCEPT ![r] = pc'[r]] /\ pc'[r] \in Labels \ {"idle"}
      /\ Ctx(r) \in Contexts
  BY DEF RequestStep, serverVars
<1>2. \/ UNCHANGED <<refreshing, using>> /\ pc'[r] \notin {"expiring", "refused"}
      \/ /\ UNCHANGED <<refreshing, using>> /\ pc'[r] \in {"expiring", "refused"}
         /\ refreshing[Ctx(r)] # "none"
      \/ /\ pc'[r] \in {"expiring", "refused"}
         /\ refreshing' = [refreshing EXCEPT ![Ctx(r)] = "sent"]
         /\ using' = [using EXCEPT ![Ctx(r)] = refreshToken]
         /\ refreshing[Ctx(r)] = "none"
         /\ age[token[Ctx(r)]] # "fresh" \/ revoked
  BY DEF RequestStep, Refresh
<1>3. /\ refreshing' \in [Contexts -> {"none", "sent", "granted", "failed"}]
      /\ using' \in [Contexts -> 0 .. issued]
  BY <1>1, <1>2 DEF TypeOK
<1>4. /\ pc' \in [Requests -> Labels]
      /\ \A q \in Requests : q # r => pc'[q] = pc[q]
  BY <1>1 DEF TypeOK, Labels
<1>5. /\ sentToken' \in [Requests -> 0 .. issued] /\ resentToken' \in [Requests -> 0 .. issued]
      /\ \A q \in Requests : q # r => sentToken'[q] = sentToken[q] /\ resentToken'[q] = resentToken[q]
  BY <1>1 DEF RequestStep, TypeOK
<1>6. TypeOK' BY <1>1, <1>3, <1>4, <1>5 DEF TypeOK, Labels
<1>7. HoldsBehind' BY <1>1, <1>2 DEF TypeOK, HoldsBehind
<1>8. /\ sentToken'[r] <= token[Ctx(r)]
      /\ pc'[r] # "idle"
      /\ pc'[r] = "resend" => sentToken'[r] < token[Ctx(r)]
      /\ pc'[r] \notin {"resending", "done"} => resentToken'[r] = 0
  BY <1>1 DEF RequestStep, SendsBehind, TypeOK
<1>9. SendsBehind' BY <1>1, <1>4, <1>5, <1>8 DEF SendsBehind
<1>10. Awaited'
  <2> SUFFICES ASSUME NEW x \in Contexts
               PROVE  refreshing'[x] # "none" <=>
                        \E q \in Requests : Ctx(q) = x /\ pc'[q] \in {"expiring", "refused"}
    BY DEF Awaited, Awaits
  <2>1. refreshing[x] # "none" <=>
          \E q \in Requests : Ctx(q) = x /\ pc[q] \in {"expiring", "refused"}
    BY DEF Awaited, Awaits
  <2>2. \A q \in Requests : q # r => pc'[q] = pc[q] BY <1>4
  <2>3. CASE x = Ctx(r)
    BY <1>1, <1>2, <2>1, <2>2, <2>3 DEF TypeOK
  <2>4. CASE x # Ctx(r)
    <3>1. refreshing'[x] = refreshing[x] BY <1>2, <2>4 DEF TypeOK
    <3>2. QED BY <2>1, <2>2, <2>4, <3>1
  <2>5. QED BY <2>3, <2>4
<1>11. RetryIsRenewed'
  <2> SUFFICES ASSUME NEW q \in Requests, resentToken'[q] # 0
               PROVE  resentToken'[q] > sentToken'[q]
    BY DEF RetryIsRenewed
  <2>1. CASE q # r BY <1>5, <2>1 DEF RetryIsRenewed
  <2>2. CASE q = r
    <3>1. CASE resentToken' = resentToken
      <4>1. sentToken'[r] = sentToken[r]
        BY <2>2, <3>1 DEF RequestStep, SendsBehind
      <4>2. QED BY <2>2, <3>1, <4>1 DEF RetryIsRenewed
    <3>2. CASE resentToken' # resentToken
      <4>1. pc[r] = "resend" /\ resentToken'[r] = token[Ctx(r)] /\ sentToken'[r] = sentToken[r]
        BY <3>2 DEF RequestStep, TypeOK
      <4>2. QED BY <2>2, <4>1 DEF SendsBehind
    <3>3. QED BY <3>1, <3>2
  <2>3. QED BY <2>1, <2>2
<1>12. RenewsOnlyOld' BY <1>1, <1>2 DEF TypeOK, RenewsOnlyOld
<1>13. QED BY <1>6, <1>7, <1>9, <1>10, <1>11, <1>12

\* A request begins with the token its original has now; nobody awaits its copy.
LEMMA BeginKeeps == ASSUME IInv, NEW r \in Requests, Begin(r) PROVE IInv'
<1> USE Shapes, ContextFacts DEF IInv
<1>1. /\ UNCHANGED <<issued, age, revoked, store, refreshToken, refreshing, using, sentToken,
                     resentToken, lost, restarts>>
      /\ pc[r] = "idle" /\ pc' = [pc EXCEPT ![r] = "begun"]
      /\ token' = IF r \in Copying THEN [token EXCEPT ![r] = token[Root]] ELSE token
  BY DEF Begin, Move, serverVars
<1>2. /\ pc' \in [Requests -> Labels] /\ pc'[r] = "begun"
      /\ \A q \in Requests : q # r => pc'[q] = pc[q]
  BY <1>1 DEF TypeOK, Labels
<1>3. r \in Copying => refreshing[r] = "none" /\ r \in Contexts
  <2>1. r \in Copying => r \in Contexts BY DEF Contexts
  <2>2. r \in Copying => ~ \E q \in Requests : Ctx(q) = r /\ pc[q] \in {"expiring", "refused"}
    BY <1>1
  <2>3. QED BY <2>1, <2>2 DEF Awaited, Awaits, TypeOK
<1>4. /\ token' \in [Contexts -> 1 .. issued]
      /\ \A x \in Contexts : token'[x] # token[x] => x = r /\ r \in Copying /\ token'[x] = token[Root]
  BY <1>1 DEF TypeOK
<1>5. TypeOK' BY <1>1, <1>2, <1>4 DEF TypeOK, Labels
<1>6. HoldsBehind' BY <1>1, <1>3, <1>4 DEF HoldsBehind
<1>7. SendsBehind'
  <2> SUFFICES ASSUME NEW q \in Requests
               PROVE  /\ sentToken[q] <= token'[Ctx(q)]
                      /\ pc'[q] = "idle" => sentToken[q] = 0
                      /\ pc'[q] = "resend" => sentToken[q] < token'[Ctx(q)]
                      /\ pc'[q] \notin {"resending", "done"} => resentToken[q] = 0
    BY <1>1 DEF SendsBehind
  <2>1. CASE q = r
    <3>1. sentToken[r] = 0 /\ resentToken[r] = 0 BY <1>1 DEF SendsBehind
    <3>2. token'[Ctx(r)] \in 1 .. issued BY <1>4
    <3>3. QED BY <1>2, <2>1, <3>1, <3>2
  <2>2. CASE q # r
    <3>1. token'[Ctx(q)] = token[Ctx(q)] BY <1>4, <2>2
    <3>2. QED BY <1>2, <2>2, <3>1 DEF SendsBehind
  <2>3. QED BY <2>1, <2>2
<1>8. Awaited'
  <2>1. \A q \in Requests : pc'[q] \in {"expiring", "refused"} <=> pc[q] \in {"expiring", "refused"}
    BY <1>1, <1>2
  <2>2. QED BY <1>1, <2>1 DEF Awaited, Awaits
<1>9. RetryIsRenewed' BY <1>1 DEF RetryIsRenewed
<1>10. RenewsOnlyOld' BY <1>1, <1>3, <1>4 DEF RenewsOnlyOld
<1>11. QED BY <1>5, <1>6, <1>7, <1>8, <1>9, <1>10

\* Every other step of a request is such a step.
LEMMA RequestsStep == ASSUME IInv, NEW r \in Requests, Step(r) PROVE RequestStep(r)
<1>0. /\ Labels = {"idle", "begun", "expiring", "send", "sending", "refused", "resend",
                   "resending", "done"}
      /\ Ctx(r) \in Contexts
      /\ sentToken[r] <= token[Ctx(r)] /\ token[Ctx(r)] \in Nat /\ sentToken[r] \in Nat
      /\ pc[r] = "resend" => sentToken[r] < token[Ctx(r)]
      /\ pc[r] \notin {"resending", "done"} => resentToken[r] = 0
      /\ sentToken \in [Requests -> 0 .. issued] /\ resentToken \in [Requests -> 0 .. issued]
      /\ pc \in [Requests -> Labels]
  BY Shapes, ContextFacts DEF IInv, SendsBehind, Labels, TypeOK
<1>2. ASSUME Check(r) PROVE RequestStep(r)
  <2>1. /\ pc[r] = "begun"
        /\ UNCHANGED <<serverVars, store, token, refreshToken, lost, restarts,
                       sentToken, resentToken>>
    BY <1>2 DEF Check
  <2>2. CASE age[token[Ctx(r)]] = "fresh"
    <3>1. pc' = [pc EXCEPT ![r] = "send"] /\ UNCHANGED <<refreshing, using>>
      BY <1>2, <2>2 DEF Check, Move
    <3>2. QED BY <1>0, <2>1, <3>1 DEF RequestStep
  <2>3. CASE age[token[Ctx(r)]] # "fresh"
    <3>1. pc' = [pc EXCEPT ![r] = "expiring"] /\ Refresh(Ctx(r))
      BY <1>2, <2>3 DEF Check, Move
    <3>2. QED BY <1>0, <2>1, <2>3, <3>1 DEF RequestStep
  <2>4. QED BY <2>2, <2>3
<1>3. ASSUME Send(r) PROVE RequestStep(r)
  <2>1. /\ pc[r] = "send" /\ pc' = [pc EXCEPT ![r] = "sending"]
        /\ sentToken' = [sentToken EXCEPT ![r] = token[Ctx(r)]]
        /\ UNCHANGED <<serverVars, store, token, refreshToken, lost, restarts,
                       refreshing, using, resentToken>>
    BY <1>3 DEF Send, Move, processVars
  <2>2. QED BY <1>0, <2>1 DEF RequestStep
<1>4. ASSUME Answered(r) PROVE RequestStep(r)
  <2>1. /\ pc[r] \in {"sending", "resending"} /\ pc' = [pc EXCEPT ![r] = "done"]
        /\ UNCHANGED <<serverVars, store, token, refreshToken, lost, restarts,
                       refreshing, using, sentToken, resentToken>>
    BY <1>4 DEF Answered, Move, processVars
  <2>2. QED BY <1>0, <2>1 DEF RequestStep
<1>5. ASSUME Refused(r) PROVE RequestStep(r)
  <2>1. /\ pc[r] = "sending"
        /\ UNCHANGED <<serverVars, store, token, refreshToken, lost, restarts,
                       sentToken, resentToken>>
    BY <1>5 DEF Refused
  <2>2. CASE Replaced(r)
    <3>1. /\ pc' = [pc EXCEPT ![r] = "resend"] /\ UNCHANGED <<refreshing, using>>
          /\ sentToken[r] # token[Ctx(r)]
      BY <1>5, <2>2 DEF Refused, Replaced, Move
    <3>2. sentToken'[r] < token[Ctx(r)] BY <1>0, <2>1, <3>1
    <3>3. QED BY <1>0, <2>1, <3>1, <3>2 DEF RequestStep
  <2>3. CASE ~Replaced(r)
    <3>1. pc' = [pc EXCEPT ![r] = "refused"] /\ Refresh(Ctx(r))
      BY <1>5, <2>3 DEF Refused, Move
    <3>2. age[token[Ctx(r)]] # "fresh" \/ revoked
      BY <1>5, <2>3 DEF Refused, Accepted, Replaced
    <3>3. QED BY <1>0, <2>1, <3>1, <3>2 DEF RequestStep
  <2>4. QED BY <2>2, <2>3
<1>6. ASSUME Resend(r) PROVE RequestStep(r)
  <2>1. /\ pc[r] = "resend" /\ pc' = [pc EXCEPT ![r] = "resending"]
        /\ resentToken' = [resentToken EXCEPT ![r] = token[Ctx(r)]]
        /\ UNCHANGED <<serverVars, store, token, refreshToken, lost, restarts,
                       refreshing, using, sentToken>>
    BY <1>6 DEF Resend, ResendToken, Move, processVars
  <2>2. QED BY <1>0, <2>1 DEF RequestStep
<1>7. QED BY <1>2, <1>3, <1>4, <1>5, <1>6 DEF Step

\* The answer of the server, or its loss, keeps the invariant: a grant is made
\* only for the latest refresh token, and no context asks with a later one.
LEMMA ExchangesKeep ==
  ASSUME IInv, NEW x \in Contexts, Exchange(x) \/ ExchangeLost(x)
  PROVE  IInv'
<1> USE Shapes DEF IInv
<1>1. /\ UNCHANGED <<age, store, token, refreshToken, using, pc, sentToken, resentToken,
                     restarts>>
      /\ lost' \in BOOLEAN /\ revoked' \in BOOLEAN /\ (revoked => revoked')
      /\ refreshing[x] \in {"sent", "granted"}
      /\ \/ /\ refreshing' = [refreshing EXCEPT ![x] = "granted"]
            /\ refreshing[x] = "sent" /\ using[x] = issued
            /\ issued < Grants /\ issued' = issued + 1
         \/ refreshing' = [refreshing EXCEPT ![x] = "failed"] /\ issued' = issued
  BY DEF Exchange, ExchangeLost, serverVars, requestVars, TypeOK
<1>2. issued' \in Nat /\ issued <= issued' /\ issued' <= Grants
  BY <1>1, BoundsAssumption
<1>3. TypeOK'
  <2>1. refreshing' \in [Contexts -> {"none", "sent", "granted", "failed"}]
    BY <1>1 DEF TypeOK
  <2>2. issued' \in Tokens BY <1>2, BoundsAssumption DEF Tokens
  <2>3. 1 .. issued \subseteq 1 .. issued' /\ 0 .. issued \subseteq 0 .. issued'
    BY <1>2
  <2>4. QED BY <1>1, <2>1, <2>2, <2>3 DEF TypeOK
<1>4. /\ \A y \in Contexts : y # x => refreshing'[y] = refreshing[y]
      /\ refreshing'[x] \in {"granted", "failed"} /\ refreshing[x] # "none"
  BY <1>1 DEF TypeOK
<1>5. HoldsBehind'
  <2>1. CASE refreshing'[x] = "granted"
    <3>1. using[x] = issued /\ issued' = issued + 1 BY <1>1, <2>1 DEF TypeOK
    <3>2. refreshToken = issued BY <3>1 DEF HoldsBehind
    <3>3. \A y \in Contexts : refreshing[y] # "granted" BY <3>2 DEF HoldsBehind
    <3>4. QED BY <1>1, <1>4, <3>1, <3>2, <3>3 DEF HoldsBehind
  <2>2. CASE refreshing'[x] = "failed"
    BY <1>1, <1>2, <1>4, <2>2 DEF HoldsBehind
  <2>3. QED BY <1>4, <2>1, <2>2
<1>6. SendsBehind' /\ RetryIsRenewed' BY <1>1 DEF SendsBehind, RetryIsRenewed
<1>7. Awaited'
  <2>1. \A y \in Contexts : refreshing'[y] # "none" <=> refreshing[y] # "none" BY <1>4
  <2>2. QED BY <1>1, <2>1 DEF Awaited, Awaits
<1>8. RenewsOnlyOld' BY <1>1, <1>4 DEF RenewsOnlyOld
<1>9. QED BY <1>3, <1>5, <1>6, <1>7, <1>8

\* What the end of a refresh makes of the requests that await it.
LEMMA SettleMoves ==
  ASSUME TypeOK, NEW x \in Contexts, NEW success \in BOOLEAN, Settle(x, success)
  PROVE  /\ UNCHANGED <<using, sentToken, resentToken, restarts>>
         /\ refreshing' = [refreshing EXCEPT ![x] = "none"]
         /\ pc' \in [Requests -> Labels]
         /\ \A r \in Requests :
              IF Ctx(r) = x /\ Awaits(r)
              THEN pc'[r] \in {"send", "done"} \cup IF success THEN {"resend"} ELSE {}
              ELSE pc'[r] = pc[r]
  BY DEF Settle, TypeOK, Labels, Awaits

\* A refresh that ends keeps the invariant.
LEMMA SettledKeeps ==
  ASSUME IInv, NEW x \in Contexts, Renewed(x) \/ RefreshFailed(x)
  PROVE  IInv'
<1> USE Shapes, ContextFacts DEF IInv
<1>1. PICK success \in BOOLEAN :
        /\ Settle(x, success)
        /\ UNCHANGED <<issued, age, revoked>>
        /\ store' \in {store, using[x] + 1} /\ lost' \in BOOLEAN
        /\ \/ /\ refreshing[x] = "granted"
              /\ token' = [token EXCEPT ![x] = using[x] + 1]
              /\ refreshToken' = using[x] + 1
           \/ refreshing[x] = "failed" /\ ~success /\ UNCHANGED <<store, token, refreshToken>>
  BY DEF Renewed, RefreshFailed, Persisted, serverVars, TypeOK
<1>2. /\ UNCHANGED <<using, sentToken, resentToken, restarts>>
      /\ refreshing' = [refreshing EXCEPT ![x] = "none"]
      /\ pc' \in [Requests -> Labels]
      /\ \A r \in Requests :
           IF Ctx(r) = x /\ Awaits(r)
           THEN pc'[r] \in {"send", "done"} \cup IF success THEN {"resend"} ELSE {}
           ELSE pc'[r] = pc[r]
  BY <1>1, SettleMoves
\* What is taken over is the grant after the refresh token they share.
<1>3. /\ refreshing[x] = "granted" => using[x] = refreshToken /\ refreshToken + 1 <= issued
      /\ refreshToken \in Nat /\ issued \in Nat
  BY DEF HoldsBehind
<1>4. /\ refreshToken' \in 1 .. issued /\ refreshToken <= refreshToken'
      /\ token' \in [Contexts -> 1 .. issued] /\ store' \in {store, refreshToken'}
      /\ \A y \in Contexts : y # x => token'[y] = token[y]
      /\ token'[x] = token[x] \/ (token[x] < token'[x] /\ token'[x] = refreshToken')
      /\ success => token[x] < token'[x]
  <2>1. CASE refreshing[x] = "granted"
    <3>1. /\ token' = [token EXCEPT ![x] = refreshToken + 1] /\ refreshToken' = refreshToken + 1
          /\ store' \in {store, refreshToken + 1} /\ refreshToken + 1 \in 1 .. issued
      BY <1>1, <1>3, <2>1
    <3>2. token[x] <= refreshToken BY DEF HoldsBehind
    <3>3. QED BY <3>1, <3>2 DEF TypeOK
  <2>2. CASE refreshing[x] # "granted" BY <1>1, <2>2 DEF TypeOK
  <2>3. QED BY <2>1, <2>2
<1>5. TypeOK'
  <2>1. refreshing' \in [Contexts -> {"none", "sent", "granted", "failed"}]
    BY <1>2 DEF TypeOK
  <2>2. store' \in 1 .. issued BY <1>4
  <2>3. QED BY <1>1, <1>2, <1>4, <2>1, <2>2 DEF TypeOK, Labels
<1>6. HoldsBehind'
  <2>1. /\ \A y \in Contexts : y # x => refreshing'[y] = refreshing[y]
        /\ refreshing'[x] = "none"
    BY <1>2 DEF TypeOK
  <2>2. \A y \in Contexts : token'[y] <= refreshToken' /\ using'[y] <= refreshToken'
    <3> SUFFICES ASSUME NEW y \in Contexts
                 PROVE  token'[y] <= refreshToken' /\ using'[y] <= refreshToken'
      OBVIOUS
    <3>1. token[y] <= refreshToken /\ using[y] <= refreshToken BY DEF HoldsBehind
    <3>2. using'[y] = using[y] BY <1>2
    <3>3. /\ token[y] \in Nat /\ using[y] \in Nat /\ refreshToken' \in Nat /\ refreshToken \in Nat
          /\ token[x] <= refreshToken
      BY <1>4 DEF HoldsBehind
    <3>4. QED BY <1>4, <3>1, <3>2, <3>3
  <2>3. \A y \in Contexts : refreshing'[y] = "granted" =>
          using'[y] = refreshToken' /\ refreshToken' < issued'
    <3> SUFFICES ASSUME NEW y \in Contexts, refreshing'[y] = "granted"
                 PROVE  using'[y] = refreshToken' /\ refreshToken' < issued'
      OBVIOUS
    <3>1. y # x /\ refreshing[y] = "granted" BY <2>1
    <3>2. refreshing[x] # "granted" BY <3>1 DEF HoldsBehind
    <3>3. refreshToken' = refreshToken BY <1>1, <3>2
    <3>4. QED BY <1>1, <1>2, <3>1, <3>3 DEF HoldsBehind
  <2>4. QED BY <1>2, <1>4, <2>1, <2>2, <2>3 DEF HoldsBehind
<1>7. SendsBehind'
  <2> SUFFICES ASSUME NEW r \in Requests
               PROVE  /\ sentToken[r] <= token'[Ctx(r)]
                      /\ pc'[r] = "idle" => sentToken[r] = 0
                      /\ pc'[r] = "resend" => sentToken[r] < token'[Ctx(r)]
                      /\ pc'[r] \notin {"resending", "done"} => resentToken[r] = 0
    BY <1>2 DEF SendsBehind
  <2>1. /\ sentToken[r] <= token[Ctx(r)] /\ token[Ctx(r)] <= token'[Ctx(r)]
        /\ sentToken[r] \in Nat /\ token[Ctx(r)] \in Nat /\ token'[Ctx(r)] \in Nat
    BY <1>4 DEF SendsBehind
  <2>2. pc'[r] = pc[r] \/ (Ctx(r) = x /\ Awaits(r) /\ pc'[r] \in {"send", "done", "resend"})
    BY <1>2
  <2>3. pc'[r] = pc[r] \/ (pc'[r] = "resend" => Ctx(r) = x /\ token[x] < token'[x])
    BY <1>2, <1>4
  <2>4. QED BY <2>1, <2>2, <2>3 DEF SendsBehind, Awaits
<1>8. Awaited'
  <2>1. \A r \in Requests : pc'[r] \in {"expiring", "refused"} <=>
          Ctx(r) # x /\ pc[r] \in {"expiring", "refused"}
    BY <1>2 DEF Awaits
  <2>2. \A y \in Contexts : refreshing'[y] # "none" <=> y # x /\ refreshing[y] # "none"
    BY <1>2 DEF TypeOK
  <2>3. QED BY <2>1, <2>2 DEF Awaited, Awaits
<1>9. RetryIsRenewed' BY <1>2 DEF RetryIsRenewed
<1>10. RenewsOnlyOld' BY <1>1, <1>2, <1>4 DEF TypeOK, RenewsOnlyOld
<1>11. QED BY <1>5, <1>6, <1>7, <1>8, <1>9, <1>10

\* A token that ages keeps the invariant.
LEMMA AgeKeeps == ASSUME IInv, NEW t \in Tokens, Age(t) PROVE IInv'
<1> USE Shapes DEF IInv
<1>1. age' \in [Tokens -> {"fresh", "expiring", "expired"}]
      /\ \A s \in Tokens : age[s] # "fresh" => age'[s] # "fresh"
  BY DEF Age, TypeOK
<1>2. UNCHANGED <<issued, revoked, store, processVars, requestVars, lost, restarts>>
  BY DEF Age
<1>3. \A x \in Contexts : token[x] \in Tokens
  <2>1. \A n \in 1 .. issued : n \in 1 .. Grants BY BoundsAssumption
  <2>2. QED BY <2>1 DEF Tokens
<1>4. TypeOK' BY <1>1, <1>2 DEF TypeOK, processVars, requestVars
<1>5. HoldsBehind' /\ SendsBehind' /\ RetryIsRenewed'
  BY <1>2 DEF HoldsBehind, SendsBehind, RetryIsRenewed, processVars, requestVars
<1>6. Awaited' BY <1>2 DEF Awaited, Awaits, processVars, requestVars
<1>7. RenewsOnlyOld' BY <1>1, <1>2, <1>3 DEF RenewsOnlyOld, processVars
<1>8. QED BY <1>4, <1>5, <1>6, <1>7

\* Another process starts with what the store has, and with nothing in flight.
LEMMA RestartKeeps == ASSUME IInv, Restart PROVE IInv'
<1> USE Shapes, ContextFacts DEF IInv
<1>1. /\ token' = [x \in Contexts |-> store] /\ refreshToken' = store /\ store' = store
      /\ refreshing' = [x \in Contexts |-> "none"] /\ using' = [x \in Contexts |-> 0]
      /\ pc' = [r \in Requests |-> "idle"]
      /\ sentToken' = [r \in Requests |-> 0] /\ resentToken' = [r \in Requests |-> 0]
      /\ UNCHANGED <<age, revoked>>
  BY DEF Restart
<1>2. issued' \in Nat /\ issued <= issued' /\ issued' <= Grants
  <2>1. issued' = issued \/ (issued < Grants /\ issued' = issued + 1)
    BY DEF Restart
  <2>2. QED BY <2>1, BoundsAssumption
<1>3. restarts' \in 0 .. Restarts BY BoundsAssumption DEF Restart, TypeOK
<1>4. lost' \in BOOLEAN BY ZenonT(30) DEF Restart
<1>5. TypeOK'
  <2>1. issued' \in Tokens BY <1>2, BoundsAssumption DEF Tokens
  <2>2. store' \in 1 .. issued' /\ 0 \in 0 .. issued' BY <1>1, <1>2
  <2>3. token' \in [Contexts -> 1 .. issued'] BY <1>1, <2>2
  <2>4. QED BY <1>1, <1>2, <1>3, <1>4, <2>1, <2>2, <2>3 DEF TypeOK
<1>6. HoldsBehind' /\ SendsBehind' BY <1>1 DEF HoldsBehind, SendsBehind
<1>7. Awaited' BY <1>1 DEF Awaited, Awaits
<1>8. RetryIsRenewed' /\ RenewsOnlyOld' BY <1>1 DEF RetryIsRenewed, RenewsOnlyOld
<1>9. QED BY <1>5, <1>6, <1>7, <1>8

\* Every step keeps the invariant.
LEMMA NextIInv == ASSUME IInv, [Next]_vars PROVE IInv'
<1>1. ASSUME NEW r \in Requests, Begin(r) \/ Step(r) PROVE IInv'
  BY <1>1, BeginKeeps, RequestsStep, RequestKeeps
<1>2. ASSUME NEW x \in Contexts, Refreshing(x) PROVE IInv'
  BY <1>2, ExchangesKeep, SettledKeeps DEF Refreshing
<1>3. CASE UNCHANGED vars
  BY <1>3
  DEF IInv, vars, serverVars, processVars, requestVars, TypeOK, HoldsBehind, SendsBehind,
      Awaited, Awaits, RetryIsRenewed, RenewsOnlyOld
<1>4. QED BY <1>1, <1>2, <1>3, AgeKeeps, RestartKeeps DEF Next

\* The inductive invariant holds throughout.
THEOREM Invariance == Spec => []IInv
<1>1. Init => IInv BY InitIInv
<1>2. IInv /\ [Next]_vars => IInv' BY NextIInv
<1>3. QED BY <1>1, <1>2, PTL DEF Spec

\* The type invariant: no grant is held before it was issued.
THEOREM TypeCorrect == Spec => []TypeOK
<1>1. IInv => TypeOK BY DEF IInv
<1>2. QED BY <1>1, Invariance, PTL

\* An exchange replaces a token that is no longer fresh, in the context and in
\* every copy of it (refreshIfExpiring, renewAfter401).
THEOREM RenewsOld == Spec => []RenewsOnlyOld
<1>1. IInv => RenewsOnlyOld BY DEF IInv
<1>2. QED BY <1>1, Invariance, PTL

\* The retry after a 401 carries a newer token, also that of a request with a
\* copy of the context (request, authFetch).
THEOREM RetriesRenewed == Spec => []RetryIsRenewed
<1>1. IInv => RetryIsRenewed BY DEF IInv
<1>2. QED BY <1>1, Invariance, PTL

--------------------------------------------------------------------------------
\* Without copies the store keeps up

\* Everybody sends with the one context.
LEMMA OneContext ==
  ASSUME Copying = {}
  PROVE  Contexts = {Root} /\ \A r \in Requests : Ctx(r) = Root
  BY DEF Contexts, Ctx

\* The context and the object it shares hold one grant, and a refresh in flight
\* sent its token.
HoldsOneGrant ==
  token[Root] = refreshToken /\ (refreshing[Root] # "none" => using[Root] = refreshToken)

\* As long as no grant was lost, the store and the process have the latest one,
\* or the one before while the answer that brings it is on its way.
LatestIsKept ==
  ~lost =>
    /\ ~revoked
    /\ store = refreshToken
    /\ issued = IF refreshing[Root] = "granted" THEN refreshToken + 1 ELSE refreshToken

StoreInv == IInv /\ HoldsOneGrant /\ LatestIsKept

\* The first process starts from the first grant.
LEMMA InitStores == ASSUME Copying = {}, Init PROVE StoreInv
<1>1. IInv BY InitIInv
<1>2. HoldsOneGrant /\ LatestIsKept
  BY ContextFacts DEF Init, Started, HoldsOneGrant, LatestIsKept
<1>3. QED BY <1>1, <1>2 DEF StoreInv

\* Every step keeps the process and the store at the latest grant.
LEMMA NextStores ==
  ASSUME Copying = {}, StoreInv, [Next]_vars
  PROVE  StoreInv'
<1> USE OneContext DEF StoreInv
<1>1. IInv' BY NextIInv
<1>2. /\ Root \in Contexts /\ issued \in Nat /\ refreshToken \in Nat
      /\ refreshing[Root] \in {"none", "sent", "granted", "failed"}
      /\ refreshing[Root] = "granted" => refreshToken < issued
  BY Shapes DEF IInv, TypeOK, HoldsBehind
<1>3. ASSUME NEW r \in Requests, Begin(r) PROVE HoldsOneGrant' /\ LatestIsKept'
  BY <1>3 DEF Begin, HoldsOneGrant, LatestIsKept, serverVars
<1>4. ASSUME NEW r \in Requests, Step(r) PROVE HoldsOneGrant' /\ LatestIsKept'
  <2>1. /\ UNCHANGED <<issued, revoked, store, token, refreshToken, lost>>
        /\ UNCHANGED <<refreshing, using>> \/ Refresh(Root)
    BY <1>4, RequestsStep DEF RequestStep, serverVars
  <2>2. QED BY <1>2, <2>1 DEF Refresh, HoldsOneGrant, LatestIsKept, IInv, TypeOK
<1>5. ASSUME Exchange(Root) PROVE HoldsOneGrant' /\ LatestIsKept'
  BY <1>2, <1>5 DEF Exchange, HoldsOneGrant, LatestIsKept, IInv, TypeOK
<1>6. ASSUME ExchangeLost(Root) PROVE HoldsOneGrant' /\ LatestIsKept'
  BY <1>2, <1>6 DEF ExchangeLost, HoldsOneGrant, LatestIsKept, IInv, TypeOK, serverVars
<1>7. ASSUME Renewed(Root) PROVE HoldsOneGrant' /\ LatestIsKept'
  <2>1. using[Root] = refreshToken BY <1>7 DEF Renewed, HoldsOneGrant
  <2>2. /\ refreshing[Root] = "granted" /\ UNCHANGED <<issued, revoked>>
        /\ token' = [token EXCEPT ![Root] = refreshToken + 1]
        /\ refreshToken' = refreshToken + 1
        /\ refreshing' = [refreshing EXCEPT ![Root] = "none"]
        /\ \/ store' = refreshToken + 1 /\ lost' = lost
           \/ store' = store /\ lost' = TRUE
    BY <1>7, <2>1 DEF Renewed, Settle, Persisted, serverVars
  <2>3. refreshing'[Root] = "none" /\ token'[Root] = refreshToken + 1
    BY <1>2, <2>2 DEF IInv, TypeOK
  <2>4. QED BY <2>2, <2>3 DEF HoldsOneGrant, LatestIsKept
<1>8. ASSUME RefreshFailed(Root) PROVE HoldsOneGrant' /\ LatestIsKept'
  <2>1. /\ UNCHANGED <<issued, revoked, store, token, refreshToken, lost>>
        /\ refreshing[Root] = "failed"
        /\ refreshing' = [refreshing EXCEPT ![Root] = "none"]
    BY <1>8 DEF RefreshFailed, Settle, serverVars
  <2>2. QED BY <1>2, <2>1 DEF HoldsOneGrant, LatestIsKept, IInv, TypeOK
<1>9. ASSUME NEW t \in Tokens, Age(t) PROVE HoldsOneGrant' /\ LatestIsKept'
  BY <1>9 DEF Age, HoldsOneGrant, LatestIsKept, processVars
<1>10. ASSUME Restart PROVE HoldsOneGrant' /\ LatestIsKept'
  <2>1. /\ token' = [x \in Contexts |-> store] /\ refreshToken' = store /\ store' = store
        /\ refreshing' = [x \in Contexts |-> "none"] /\ UNCHANGED revoked
    BY <1>10 DEF Restart
  <2>2. ~lost' => ~lost /\ refreshing[Root] # "granted" /\ issued' = issued
    BY <1>2, <1>10 DEF Restart
  <2>3. QED BY <1>2, <2>1, <2>2 DEF HoldsOneGrant, LatestIsKept
<1>11. ASSUME UNCHANGED vars PROVE HoldsOneGrant' /\ LatestIsKept'
  BY <1>11 DEF vars, serverVars, processVars, HoldsOneGrant, LatestIsKept
<1>12. HoldsOneGrant' /\ LatestIsKept'
  BY <1>3, <1>4, <1>5, <1>6, <1>7, <1>8, <1>9, <1>10, <1>11 DEF Next, Refreshing
<1>13. QED BY <1>1, <1>12

\* No refresh token is sent twice unless a grant was lost (tryRefresh, persist).
THEOREM ReplaysNever == ASSUME Copying = {} PROVE Spec => []NoReplay
<1>1. Init => StoreInv BY InitStores
<1>2. StoreInv /\ [Next]_vars => StoreInv' BY NextStores
<1>3. StoreInv => NoReplay BY DEF StoreInv, LatestIsKept, NoReplay
<1>4. QED BY <1>1, <1>2, <1>3, PTL DEF Spec

--------------------------------------------------------------------------------
\* What is left of a request

\* The labels of a request in the order in which request and authFetch go through them.
InOrder ==
  [idle |-> 8, begun |-> 7, expiring |-> 6, send |-> 5, sending |-> 4, refused |-> 3,
   resend |-> 2, resending |-> 1, done |-> 0]

\* How many steps a request has left at most.
StepsLeft(r) == InOrder[pc[r]]

\* And a refresh in flight.
InFlight == [sent |-> 3, granted |-> 2, failed |-> 1, none |-> 0]
RefreshLeft(x) == InFlight[refreshing[x]]

\* A request that awaits a refresh of its context, or of its copy, has one in
\* flight, and no refresh is in flight that nobody awaits.
NobodyWaitsInVain ==
  \A x \in Contexts : RefreshLeft(x) > 0 <=> \E r \in Requests : Ctx(r) = x /\ Awaits(r)

\* Unless the process ends, nothing gives a request more to do: its own steps and
\* the end of the refresh it awaits leave it less.  A refresh nears its end by its
\* own steps, and another is started only by a request that moves on.
Dwindle ==
  [][\/ Restart
     \/ /\ \A r \in Requests :
             /\ StepsLeft(r)' <= StepsLeft(r)
             /\ Begin(r) \/ Step(r) => StepsLeft(r)' < StepsLeft(r)
        /\ \A x \in Contexts :
             /\ Refreshing(x) => RefreshLeft(x)' < RefreshLeft(x)
             /\ RefreshLeft(x)' > RefreshLeft(x) =>
                  \E r \in Requests : Ctx(r) = x /\ StepsLeft(r)' < StepsLeft(r)
             /\ RefreshLeft(x) > 0 /\ RefreshLeft(x)' = 0 =>
                  \A r \in Requests : Ctx(r) = x /\ Awaits(r) => StepsLeft(r)' < StepsLeft(r)]_vars

\* The numbers of the labels.
LEMMA OrderFacts ==
  /\ InOrder["idle"] = 8 /\ InOrder["begun"] = 7 /\ InOrder["expiring"] = 6
  /\ InOrder["send"] = 5 /\ InOrder["sending"] = 4 /\ InOrder["refused"] = 3
  /\ InOrder["resend"] = 2 /\ InOrder["resending"] = 1 /\ InOrder["done"] = 0
  /\ InFlight["sent"] = 3 /\ InFlight["granted"] = 2 /\ InFlight["failed"] = 1
  /\ InFlight["none"] = 0
  BY DEF InOrder, InFlight

\* A step of a request goes on to a later label, and starts a refresh at most.
LEMMA RequestsFall ==
  ASSUME IInv, NEW r \in Requests, Begin(r) \/ Step(r)
  PROVE  /\ StepsLeft(r)' < StepsLeft(r)
         /\ \A q \in Requests : q # r => StepsLeft(q)' = StepsLeft(q) /\ pc'[q] = pc[q]
         /\ ~Awaits(r)
         /\ \A x \in Contexts :
              refreshing'[x] = refreshing[x] \/ (x = Ctx(r) /\ refreshing'[x] = "sent")
<1> USE DEF IInv, TypeOK
<1>1. \E label \in Labels : pc' = [pc EXCEPT ![r] = label] /\ InOrder[label] < InOrder[pc[r]]
  <2>1. CASE Begin(r) BY <2>1, OrderFacts DEF Begin, Move, Labels
  <2>2. CASE Check(r) BY <2>2, OrderFacts DEF Check, Move, Labels
  <2>3. CASE Send(r) BY <2>3, OrderFacts DEF Send, Move, Labels
  <2>4. CASE Answered(r) BY <2>4, OrderFacts DEF Answered, Move, Labels
  <2>5. CASE Refused(r) BY <2>5, OrderFacts DEF Refused, Move, Labels
  <2>6. CASE Resend(r) BY <2>6, OrderFacts DEF Resend, Move, Labels
  <2>7. QED BY <2>1, <2>2, <2>3, <2>4, <2>5, <2>6 DEF Step
<1>2. /\ StepsLeft(r)' < StepsLeft(r)
      /\ \A q \in Requests : q # r => StepsLeft(q)' = StepsLeft(q) /\ pc'[q] = pc[q]
  BY <1>1 DEF StepsLeft
<1>3. /\ pc[r] \notin {"expiring", "refused"}
      /\ UNCHANGED refreshing \/ refreshing' = [refreshing EXCEPT ![Ctx(r)] = "sent"]
  BY DEF Begin, Step, Check, Send, Answered, Refused, Resend, Refresh, processVars
<1>4. QED BY <1>2, <1>3, ContextFacts DEF Awaits

\* A step of a refresh leaves it less, and its end leaves those that await it less.
LEMMA RefreshingFalls ==
  ASSUME IInv, NEW x \in Contexts, Refreshing(x)
  PROVE  /\ RefreshLeft(x)' < RefreshLeft(x)
         /\ \A y \in Contexts : y # x => RefreshLeft(y)' = RefreshLeft(y)
         /\ \A r \in Requests :
              /\ StepsLeft(r)' <= StepsLeft(r)
              /\ RefreshLeft(x)' = 0 /\ Ctx(r) = x /\ Awaits(r) => StepsLeft(r)' < StepsLeft(r)
<1> USE DEF IInv
<1>1. CASE Exchange(x) \/ ExchangeLost(x)
  <2>1. /\ pc' = pc
        /\ \/ refreshing[x] = "sent" /\ refreshing' = [refreshing EXCEPT ![x] = "granted"]
           \/ /\ refreshing[x] \in {"sent", "granted"}
              /\ refreshing' = [refreshing EXCEPT ![x] = "failed"]
    BY <1>1 DEF Exchange, ExchangeLost, requestVars
  <2>2. /\ RefreshLeft(x)' < RefreshLeft(x) /\ RefreshLeft(x)' > 0
        /\ \A y \in Contexts : y # x => RefreshLeft(y)' = RefreshLeft(y)
    BY <2>1, OrderFacts DEF RefreshLeft, TypeOK
  <2>3. \A r \in Requests : StepsLeft(r)' = StepsLeft(r) /\ StepsLeft(r) \in Nat
    BY <2>1, OrderFacts DEF StepsLeft, TypeOK
  <2>4. QED BY <2>2, <2>3
<1>2. CASE Renewed(x) \/ RefreshFailed(x)
  <2>1. PICK success \in BOOLEAN :
          Settle(x, success) /\ refreshing[x] \in {"granted", "failed"}
    BY <1>2 DEF Renewed, RefreshFailed
  <2>2. /\ refreshing' = [refreshing EXCEPT ![x] = "none"]
        /\ \A r \in Requests :
             IF Ctx(r) = x /\ Awaits(r) THEN pc'[r] \in {"send", "done", "resend"}
                                        ELSE pc'[r] = pc[r]
        /\ \A r \in Requests : pc[r] = "refused" => pc'[r] \in {"refused", "resend", "done"}
    BY <2>1 DEF Settle, Awaits, TypeOK
  <2>3. /\ RefreshLeft(x)' < RefreshLeft(x)
        /\ \A y \in Contexts : y # x => RefreshLeft(y)' = RefreshLeft(y)
    BY <2>1, <2>2, OrderFacts DEF RefreshLeft, TypeOK
  <2>4. ASSUME NEW r \in Requests
        PROVE  /\ StepsLeft(r)' <= StepsLeft(r)
               /\ Ctx(r) = x /\ Awaits(r) => StepsLeft(r)' < StepsLeft(r)
    <3>1. pc[r] \in Labels BY DEF TypeOK, Labels
    <3>2. QED BY <2>2, <3>1, OrderFacts DEF StepsLeft, Awaits, Labels
  <2>5. QED BY <2>3, <2>4
<1>3. QED BY <1>1, <1>2 DEF Refreshing

\* Nobody awaits a refresh that is not in flight, with or without copies
\* (refreshOnce).
THEOREM WaitsAreAnswered == Spec => []NobodyWaitsInVain
<1>1. IInv => NobodyWaitsInVain
  BY OrderFacts DEF IInv, TypeOK, Awaited, RefreshLeft, NobodyWaitsInVain
<1>2. QED BY <1>1, Invariance, PTL

\* Every step brings a request or its refresh nearer to the end, and a request is
\* sent a second time at most (request, authFetch, tryRefresh).
THEOREM StepsDwindle == Spec => Dwindle
<1> DEFINE Falls ==
      \/ Restart
      \/ /\ \A r \in Requests :
              /\ StepsLeft(r)' <= StepsLeft(r)
              /\ Begin(r) \/ Step(r) => StepsLeft(r)' < StepsLeft(r)
         /\ \A x \in Contexts :
              /\ Refreshing(x) => RefreshLeft(x)' < RefreshLeft(x)
              /\ RefreshLeft(x)' > RefreshLeft(x) =>
                   \E r \in Requests : Ctx(r) = x /\ StepsLeft(r)' < StepsLeft(r)
              /\ RefreshLeft(x) > 0 /\ RefreshLeft(x)' = 0 =>
                   \A r \in Requests : Ctx(r) = x /\ Awaits(r) => StepsLeft(r)' < StepsLeft(r)
<1>1. IInv /\ IInv' /\ [Next]_vars => [Falls]_vars
  <2> SUFFICES ASSUME IInv, IInv', Next, ~Restart PROVE Falls
    OBVIOUS
  <2>0. /\ \A r \in Requests : StepsLeft(r) \in Nat /\ StepsLeft(r)' \in Nat
        /\ \A x \in Contexts : RefreshLeft(x) \in 0 .. 3 /\ RefreshLeft(x)' \in 0 .. 3
    BY OrderFacts DEF IInv, TypeOK, StepsLeft, RefreshLeft
  <2>1. CASE \E r \in Requests : Begin(r) \/ Step(r)
    <3>1. PICK r \in Requests : Begin(r) \/ Step(r) BY <2>1
    <3>2. /\ StepsLeft(r)' < StepsLeft(r)
          /\ \A q \in Requests : q # r => StepsLeft(q)' = StepsLeft(q)
      BY <3>1, RequestsFall
    <3>3. \A q \in Requests : /\ StepsLeft(q)' <= StepsLeft(q)
                              /\ Begin(q) \/ Step(q) => StepsLeft(q)' < StepsLeft(q)
      BY <2>0, <3>2, RequestsFall
    <3>4. \A x \in Contexts :
            refreshing'[x] = refreshing[x] \/ (x = Ctx(r) /\ refreshing'[x] = "sent")
      BY <3>1, RequestsFall
    <3>5. \A x \in Contexts : RefreshLeft(x)' = RefreshLeft(x) \/ (x = Ctx(r) /\ RefreshLeft(x)' = 3)
      BY <3>4, OrderFacts DEF RefreshLeft
    <3>6. \A x \in Contexts :
            /\ Refreshing(x) => RefreshLeft(x)' < RefreshLeft(x)
            /\ RefreshLeft(x)' > RefreshLeft(x) =>
                 \E q \in Requests : Ctx(q) = x /\ StepsLeft(q)' < StepsLeft(q)
            /\ ~(RefreshLeft(x) > 0 /\ RefreshLeft(x)' = 0)
      BY <2>0, <3>2, <3>5, RefreshingFalls
    <3>7. QED BY <3>3, <3>6
  <2>2. CASE \E x \in Contexts : Refreshing(x)
    <3>1. PICK x \in Contexts : Refreshing(x) BY <2>2
    <3>2. /\ RefreshLeft(x)' < RefreshLeft(x)
          /\ \A y \in Contexts : y # x => RefreshLeft(y)' = RefreshLeft(y)
          /\ \A r \in Requests :
               /\ StepsLeft(r)' <= StepsLeft(r)
               /\ RefreshLeft(x)' = 0 /\ Ctx(r) = x /\ Awaits(r) => StepsLeft(r)' < StepsLeft(r)
      BY <3>1, RefreshingFalls
    <3>3. \A r \in Requests : Begin(r) \/ Step(r) => StepsLeft(r)' < StepsLeft(r)
      BY RequestsFall
    <3>4. \A y \in Contexts :
            /\ Refreshing(y) => RefreshLeft(y)' < RefreshLeft(y)
            /\ ~(RefreshLeft(y)' > RefreshLeft(y))
            /\ RefreshLeft(y) > 0 /\ RefreshLeft(y)' = 0 => y = x
      BY <2>0, <3>2, RefreshingFalls
    <3>5. QED BY <3>2, <3>3, <3>4
  <2>3. CASE \E t \in Tokens : Age(t)
    <3>1. UNCHANGED <<pc, refreshing>> BY <2>3 DEF Age, processVars, requestVars
    <3>2. /\ \A r \in Requests : StepsLeft(r)' = StepsLeft(r)
          /\ \A x \in Contexts : RefreshLeft(x)' = RefreshLeft(x)
      BY <3>1 DEF StepsLeft, RefreshLeft
    <3>3. /\ \A r \in Requests : Begin(r) \/ Step(r) => StepsLeft(r)' < StepsLeft(r)
          /\ \A x \in Contexts : Refreshing(x) => RefreshLeft(x)' < RefreshLeft(x)
      BY RequestsFall, RefreshingFalls
    <3>4. QED BY <2>0, <3>2, <3>3
  <2>4. QED BY <2>1, <2>2, <2>3 DEF Next
<1>2. Spec => [][Falls]_vars BY <1>1, Invariance, PTL DEF Spec
<1>3. QED BY <1>2 DEF Dwindle
=============================================================================
