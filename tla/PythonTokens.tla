------------------------------ MODULE PythonTokens ------------------------------
(***************************************************************************)
(* Tokens of the Python client: token_for and refreshed_token in           *)
(* bkn_osdk/auth.py, the retry after a 401 in http.py and mcp.py, and the  *)
(* one write to the store, write_refreshed_token in config.py.             *)
(*                                                                         *)
(* The threads of a process send requests with a login of the store, which *)
(* the CLI renews as well, or with the tokens of an app, renewed under a   *)
(* lock and handed to its on_refresh.  As in module TokenRefresh, grant n  *)
(* issues access token n and refresh token n, and a spent refresh token    *)
(* that comes back revokes the session.                                    *)
(*                                                                         *)
(* An on_refresh that itself sends a request, a login and a logout that    *)
(* happen meanwhile, and servers that keep their refresh token are left    *)
(* out.                                                                    *)
(***************************************************************************)
EXTENDS Naturals

CONSTANTS
  Threads, \* the threads of the process
  Nobody,  \* who holds a lock that is free
  Grants,  \* bound of the model: the server issues no more
  CliRuns  \* bound of the model: commands of the CLI meanwhile

VARIABLES client, server
vars == <<client, server>>

TokensAssumption == Nobody \notin Threads /\ Grants \in Nat \ {0} /\ CliRuns \in Nat

Tokens == 1 .. Grants
Steps == {"idle", "token", "send", "refused", "exchange", "granted", "failed", "write", "resend",
          "done"}

\* "how" the process is signed in; "held" is _fresh of the login, 0 while there is
\* none, or the tokens of the holder.  Of a thread: "read", the grant its context was
\* resolved with, and "used", the token of its last send.  Of the place where tokens
\* are kept (token.json, or what on_refresh saved): the grant, and the one that
\* expiresAt dates.
Init ==
  \E how \in {"store", "app"} :
    /\ client = [command |-> "tokens", how |-> how, held |-> IF how = "app" THEN 1 ELSE 0,
                 lock |-> Nobody,
                 threads |-> [t \in Threads |-> [at |-> "idle", read |-> 1, used |-> 0]],
                 cli |-> [at |-> "idle", read |-> 1, runs |-> 0]]
    /\ server = [issued |-> 1, age |-> [n \in Tokens |-> "fresh"], revoked |-> FALSE,
                 kept |-> [grant |-> 1, dated |-> 1], lost |-> {}]

At(t) == client.threads[t].at
Read(t) == client.threads[t].read
Used(t) == client.threads[t].used

\* The thread goes on with the context it has.
Thread(t, at, used) == [at |-> at, read |-> Read(t), used |-> used]
To(t, at) == client' = [client EXCEPT !.threads[t] = Thread(t, at, Used(t))]
ToSend(t, at, token) == client' = [client EXCEPT !.threads[t] = Thread(t, at, token)]

----------------------------------------------------------------------------
\* Time and the server.

\* The last token of the model does not age.
Age(n) ==
  /\ n <= server.issued /\ n < Grants
  /\ server.age[n] # "expired"
  /\ server' = [server EXCEPT !.age[n] = IF @ = "fresh" THEN "expiring" ELSE "expired"]
  /\ UNCHANGED client

Accepted(n) == server.age[n] # "expired" /\ ~server.revoked

\* The refresh grant for refresh token n.
Grant(n) ==
  /\ n = server.issued /\ ~server.revoked /\ server.issued < Grants
  /\ server' = [server EXCEPT !.issued = @ + 1]
Deny(n) ==
  /\ n # server.issued \/ server.revoked
  /\ server' = [server EXCEPT !.revoked = TRUE]
Lose(what) == server' = [server EXCEPT !.lost = @ \cup {what}]

----------------------------------------------------------------------------
\* A thread of the process.

\* resolve_context, for a query; its pages and the walks from its rows keep the context.
Resolve(t) ==
  /\ At(t) \in {"idle", "done"}
  /\ client' = [client EXCEPT !.threads[t] =
       [at |-> "token", read |-> IF client.how = "store" THEN server.kept.grant ELSE 1, used |-> 0]]
  /\ UNCHANGED server

Again(t) ==
  /\ At(t) = "done"
  /\ ToSend(t, "token", 0)
  /\ UNCHANGED server

\* Mutant of Takes: the lock is not held across the renewal.
TakesAnyway(t) == TRUE

\* The lock of the holder, kept across the renewal.
Takes(t) == client.lock = Nobody
ToExchange(t) ==
  client' = [client EXCEPT !.lock = t, !.threads[t] = Thread(t, "exchange", Used(t))]

\* token_for of a login: the freshest token of the process, else that of the store.
StoredToken(t) ==
  /\ client.how = "store" /\ At(t) = "token"
  /\ ToSend(t, "send", IF client.held # 0 THEN client.held ELSE Read(t))
  /\ UNCHANGED server

\* _app_token renews tokens that are about to expire, with the lock.
AppToken(t) ==
  /\ client.how = "app" /\ At(t) = "token" /\ Takes(t)
  /\ IF server.age[client.held] = "fresh"
     THEN ToSend(t, "send", client.held)
     ELSE ToExchange(t)
  /\ UNCHANGED server

Answered(t) ==
  /\ \/ At(t) = "send" /\ Accepted(Used(t))
     \/ At(t) = "resend"
  /\ To(t, "done")
  /\ UNCHANGED server

Refused(t) ==
  /\ At(t) = "send" /\ ~Accepted(Used(t))
  /\ To(t, "refused")
  /\ UNCHANGED server

\* refreshed_token of a login looks for a newer token, and leaves the lock.
StoredRefresh(t) ==
  /\ client.how = "store" /\ At(t) = "refused"
  /\ IF client.held \notin {0, Used(t)} THEN ToSend(t, "resend", client.held) ELSE To(t, "exchange")
  /\ UNCHANGED server

\* _app_refreshed.
AppRefresh(t) ==
  /\ client.how = "app" /\ At(t) = "refused" /\ Takes(t)
  /\ IF client.held # Used(t)
     THEN ToSend(t, "resend", client.held)
     ELSE ToExchange(t)
  /\ UNCHANGED server

\* The refresh token sent: that of the holder, or of the credential in the context.
Spends(t) == IF client.how = "app" THEN client.held ELSE Read(t)

\* _exchange, oauth.refresh
Exchange(t) ==
  /\ At(t) = "exchange"
  /\ \/ Grant(Spends(t)) /\ To(t, "granted")
     \/ Deny(Spends(t)) /\ To(t, "failed")

\* The exchange fails on the way there, or on the way back with the grant made.
ExchangeLost(t) ==
  /\ \/ At(t) = "exchange" /\ UNCHANGED server
     \/ At(t) = "granted" /\ Lose("answer")
  /\ To(t, "failed")

\* The grant of a login is published to the process, then written.
StoredRenewed(t) ==
  /\ client.how = "store" /\ At(t) = "granted"
  /\ client' = [client EXCEPT !.held = Read(t) + 1,
                              !.threads[t] = Thread(t, "write", Read(t) + 1)]
  /\ UNCHANGED server

\* Mutant of Written: expiresAt is kept with the rest of the file.
WrittenWithDate(n) == [grant |-> n, dated |-> server.kept.dated]

\* write_refreshed_token replaces the two tokens and drops expiresAt.
Written(n) == [grant |-> n, dated |-> 0]

\* A store that cannot be written is not a reason to fail.
Write(t) ==
  /\ At(t) = "write"
  /\ \/ server' = [server EXCEPT !.kept = Written(Read(t) + 1)]
     \/ Lose("write")
  /\ To(t, "resend")

\* After a renewal the thread goes on to its first or its second send.
Sends(t) == IF Used(t) = 0 THEN "send" ELSE "resend"

\* _renew: the holder has the grant before on_refresh saves it, or raises.
AppRenewed(t) ==
  /\ client.how = "app" /\ At(t) = "granted"
  /\ LET n == client.held + 1
         Renewed(thread) == client' = [client EXCEPT !.held = n, !.lock = Nobody, !.threads[t] = thread]
     IN  \/ /\ Renewed(Thread(t, Sends(t), n))
            /\ server' = [server EXCEPT !.kept = [grant |-> n, dated |-> n]]
         \/ /\ Renewed(Thread(t, "done", Used(t)))
            /\ Lose("write")

\* A failed renewal leaves the 401 as it was; before the first send it is ignored.
StoredFailed(t) ==
  /\ client.how = "store" /\ At(t) = "failed"
  /\ To(t, "done")
  /\ UNCHANGED server

AppFailed(t) ==
  /\ client.how = "app" /\ At(t) = "failed"
  /\ client' = [client EXCEPT !.lock = Nobody,
       !.threads[t] = IF Used(t) = 0 THEN Thread(t, "send", client.held)
                                     ELSE Thread(t, "done", Used(t))]
  /\ UNCHANGED server

Step(t) ==
  \/ Resolve(t) \/ Again(t) \/ StoredToken(t) \/ AppToken(t) \/ Answered(t) \/ Refused(t)
  \/ StoredRefresh(t) \/ AppRefresh(t) \/ Exchange(t) \/ ExchangeLost(t)
  \/ StoredRenewed(t) \/ Write(t) \/ AppRenewed(t) \/ StoredFailed(t) \/ AppFailed(t)

----------------------------------------------------------------------------
\* A command of the CLI with the same login: module TokenRefresh has the whole of it.

\* It renews what expiresAt says is about to expire, or what was refused.
CliReads ==
  /\ client.how = "store" /\ client.cli.at = "idle" /\ client.cli.runs < CliRuns
  /\ \/ server.kept.dated # 0 /\ server.age[server.kept.dated] # "fresh"
     \/ ~Accepted(server.kept.grant)
  /\ client' = [client EXCEPT !.cli = [at |-> "exchange", read |-> server.kept.grant, runs |-> @.runs + 1]]
  /\ UNCHANGED server

CliExchanges ==
  /\ client.cli.at = "exchange"
  /\ \/ Grant(client.cli.read) /\ client' = [client EXCEPT !.cli.at = "write"]
     \/ Deny(client.cli.read) /\ client' = [client EXCEPT !.cli.at = "idle"]

CliWrites ==
  /\ client.cli.at = "write"
  /\ LET n == client.cli.read + 1
     IN  \/ server' = [server EXCEPT !.kept = [grant |-> n, dated |-> n]]
         \/ Lose("write")
  /\ client' = [client EXCEPT !.cli.at = "idle"]

Next ==
  \/ \E t \in Threads : Step(t)
  \/ \E n \in Tokens : Age(n)
  \/ CliReads \/ CliExchanges \/ CliWrites

----------------------------------------------------------------------------
\* Properties.

TypeOK ==
  /\ client \in [command : {"tokens"}, how : {"store", "app"}, held : 0 .. Grants,
                 lock : Threads \cup {Nobody},
                 threads : [Threads -> [at : Steps, read : Tokens, used : 0 .. Grants]],
                 cli : [at : {"idle", "exchange", "write"}, read : Tokens, runs : 0 .. CliRuns]]
  /\ server \in [issued : Tokens, age : [Tokens -> {"fresh", "expiring", "expired"}],
                 revoked : BOOLEAN, kept : [grant : Tokens, dated : 0 .. Grants],
                 lost : SUBSET {"answer", "write"}]

\* TokenHolder: its lock makes one refresh at a time, so no refresh token of an app is
\* spent twice, whichever threads find it expiring or are refused with it; the session is
\* revoked only after the answer to an exchange was lost.
AppNoReplay == client.how = "app" => (server.revoked => "answer" \in server.lost)

\* Nobody is between an exchange and the write that follows it.
Quiet ==
  /\ \A t \in Threads : At(t) \notin {"granted", "write"}
  /\ client.cli.at # "write"

\* What a process leaves in the store, or in the hands of on_refresh, is the last refresh
\* token issued, dated by its own expiresAt or by none: unless the session was revoked, the
\* next command of the CLI has a way in, and none renews a token that is new
\* (write_refreshed_token).
KeptIsCurrent ==
  (Quiet /\ server.lost = {}) =>
    server.kept.grant = server.issued /\ server.kept.dated \in {0, server.kept.grant}

\* The same promise as for an app, of a login of the store: no refresh token is spent
\* twice by the process.
NoReplay == server.revoked => server.lost # {}
=============================================================================
