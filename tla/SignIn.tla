--------------------------------- MODULE SignIn ---------------------------------
(***************************************************************************)
(* Signing in: `auth login` with a device code, a password or a token      *)
(* (src/auth/oauth.ts, src/commands/auth.ts), and the loopback flow of an  *)
(* app that signs its own users in (login in src/auth/oauth-app.ts).       *)
(*                                                                         *)
(* Time passes in ticks.  The platform's user approves or denies at any    *)
(* time; a browser may send the callback of an earlier sign-in.  What the  *)
(* store does with a session is in ConfigStore.                            *)
(***************************************************************************)
EXTENDS Naturals

CONSTANTS
  Timeouts,  \* how long a sign-in may wait, in ticks: --timeout, timeoutMs
  Expires,   \* expires_in of a device code
  Interval,  \* the interval the platform asks for
  Backoff,   \* what slow_down adds to it
  MaxSlow,   \* how often the platform asks to slow down
  MaxTime,   \* the clock stops counting here
  Never

\* What is assumed of the constants.
SignInAssumption ==
  /\ Timeouts \subseteq Nat /\ {Expires, Interval, Backoff, MaxSlow} \subseteq Nat \ {0}
  /\ MaxTime \in Nat /\ \A t \in Timeouts : t + Interval + Backoff * MaxSlow <= MaxTime
  /\ Never \notin Nat

VARIABLES client, server
vars == <<client, server>>

Ways == {"token", "device", "password", "callback"}
Min2(a, b) == IF a < b THEN a ELSE b

\* The platform: since when the user has approved, whether the user denied, and whether
\* tokens were issued for the code.
Init ==
  \E way \in Ways, timeout \in Timeouts :
    /\ client = [command |-> "login", way |-> way, timeout |-> timeout,
                 at |-> CASE way = "token" -> "verify" [] way = "callback" -> "listen"
                          [] OTHER -> "request",
                 interval |-> Interval, wakes |-> 0, deadline |-> 0, slowed |-> FALSE,
                 tokens |-> way = "token"]
    /\ server = [now |-> 0, approved |-> Never, denied |-> FALSE, slow |-> 0, issued |-> FALSE]

Go(at) == client' = [client EXCEPT !.at = at]
Throw == Go("threw")
Approve == server' = [server EXCEPT !.approved = IF server.approved = Never /\ ~server.denied
                                                 THEN server.now ELSE @]

----------------------------------------------------------------------------
\* The device code, and the forms that a password is typed into.

\* requestDeviceCode; the wait is cut off by --timeout or by the code's own end.
RequestCode ==
  /\ client.at = "request"
  /\ client' = [client EXCEPT !.deadline = server.now + Min2(client.timeout, Expires),
                              !.at = IF client.way = "password" THEN "forms" ELSE "wait"]
  /\ UNCHANGED server

\* credentialDeviceLogin: verify, /device, /login, /consent.  A wrong password ends it; a
\* chain that stops early is waited for as if it had approved.
FillForms ==
  /\ client.at = "forms"
  /\ \/ Go("wait") /\ Approve
     \/ Go("wait") /\ UNCHANGED server
     \/ Throw /\ UNCHANGED server

\* Mutant of LoopOn: the time is looked at before the poll as well.
LoopOnBeforePoll ==
  IF server.now + client.interval < client.deadline
  THEN client' = [client EXCEPT !.at = "poll", !.wakes = server.now + client.interval]
  ELSE Go("timedOut")

\* pollDeviceToken: the deadline is looked at before each sleep.
LoopOn ==
  IF server.now < client.deadline
  THEN client' = [client EXCEPT !.at = "poll", !.wakes = server.now + client.interval]
  ELSE Go("timedOut")
Wait == client.at = "wait" /\ LoopOn /\ UNCHANGED server

Expired == server.now >= Expires

Poll ==
  /\ client.at = "poll" /\ server.now >= client.wakes
  /\ CASE Expired \/ server.denied -> Throw /\ UNCHANGED server
       [] ~Expired /\ ~server.denied /\ server.approved # Never ->
            /\ client' = [client EXCEPT !.at = "verify", !.tokens = TRUE]
            /\ server' = [server EXCEPT !.issued = TRUE]
       [] OTHER -> /\ client' = [client EXCEPT !.at = "wait", !.slowed = FALSE]
                   /\ UNCHANGED server

\* slow_down, which may be said of a code that has been approved.
SlowDown ==
  /\ client.at = "poll" /\ server.now >= client.wakes /\ server.slow < MaxSlow
  /\ client' = [client EXCEPT !.at = "wait", !.interval = @ + Backoff, !.slowed = TRUE]
  /\ server' = [server EXCEPT !.slow = @ + 1]

\* Any other answer ends the sign-in, and so does one that is lost, with the tokens in it.
PollFails ==
  /\ client.at = "poll" /\ server.now >= client.wakes
  /\ Throw
  /\ server' = [server EXCEPT !.issued = @ \/ (server.approved # Never /\ ~Expired)]

----------------------------------------------------------------------------
\* The loopback flow.

\* login: the port may be taken; then it listens, and shows the URL.
Listen ==
  /\ client.at = "listen"
  /\ client' = [client EXCEPT !.at = "answer", !.deadline = server.now + client.timeout]
  /\ UNCHANGED server

\* The first request to the callback's path is the answer, whoever sent it: one that
\* carries an error, another sign-in's state, or no code ends the sign-in.
Callback ==
  /\ client.at = "answer"
  /\ \/ server.approved # Never /\ Go("exchange")
     \/ Throw
  /\ UNCHANGED server

Late ==
  /\ client.at = "answer" /\ server.now >= client.deadline
  /\ Go("timedOut")
  /\ UNCHANGED server

\* exchangeCode.
Exchange ==
  /\ client.at = "exchange"
  /\ client' = [client EXCEPT !.at = "returned", !.tokens = TRUE]
  /\ server' = [server EXCEPT !.issued = TRUE]

----------------------------------------------------------------------------
\* verifyLoginPlatform and attachToken, for the CLI.

Verify ==
  /\ client.at = "verify"
  /\ Go("returned") \/ Throw
  /\ UNCHANGED server

Fails ==
  /\ client.at \in {"request", "forms", "listen", "exchange"}
  /\ Throw
  /\ UNCHANGED server

Step == RequestCode \/ FillForms \/ Wait \/ Poll \/ Listen \/ Late \/ Exchange \/ Verify

\* The user, and the clock.
Running == client.at \notin {"returned", "threw", "timedOut"}
UserApproves ==
  /\ Running /\ client.at \notin {"request", "listen", "forms"} /\ client.way # "token"
  /\ server.approved = Never /\ ~server.denied
  /\ Approve
  /\ UNCHANGED client
UserDenies ==
  /\ Running /\ client.way = "device" /\ server.approved = Never /\ ~server.denied
  /\ server' = [server EXCEPT !.denied = TRUE]
  /\ UNCHANGED client
Tick ==
  /\ client.at \in {"poll", "answer"} /\ server.now < MaxTime
  /\ server' = [server EXCEPT !.now = @ + 1]
  /\ UNCHANGED client

Next == Step \/ SlowDown \/ PollFails \/ Callback \/ Fails \/ UserApproves \/ UserDenies \/ Tick
Fairness == WF_vars(Step) /\ WF_vars(Tick)
Spec == Init /\ [][Next]_vars /\ Fairness

----------------------------------------------------------------------------
\* Properties.

\* The state of a sign-in has the shapes of the login flows.
TypeOK ==
  /\ client \in
       [command : {"login"}, way : Ways, timeout : Timeouts,
        at : {"request", "forms", "wait", "poll", "listen", "answer", "exchange", "verify",
              "returned", "threw", "timedOut"},
        interval : Nat, wakes : Nat, deadline : Nat, slowed : BOOLEAN, tokens : BOOLEAN]
  /\ server \in
       [now : 0..MaxTime, approved : 0..MaxTime \cup {Never}, denied : BOOLEAN,
        slow : 0..MaxSlow, issued : BOOLEAN]

\* A device login does not time out on a user who approved before the time was over
\* (pollDeviceToken polls once more after its last sleep), unless that last poll was only
\* told to slow down; and whoever got tokens had been approved.
ApprovalIsSeen ==
  /\ (client.at = "timedOut" /\ client.way # "callback" /\ ~client.slowed
        /\ server.approved # Never) => server.approved >= client.deadline
  /\ (client.tokens /\ client.way # "token") => server.approved # Never

\* A sign-in ends, whatever the user does.
SignInEnds == <>(~Running)
=============================================================================
