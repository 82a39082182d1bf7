----------------------------- MODULE TransportRetry -----------------------------
(***************************************************************************)
(* How a request leaves the process: the version check before it           *)
(* (ensureCompatible in src/api/version-check.ts), the retries of tlsFetch *)
(* (src/api/tls.ts), the resend after a 401 (request in src/api/http.ts,   *)
(* authFetch in src/api/auth-fetch.ts), and the session an MCP call needs  *)
(* (ensureSession and post in src/api/context-loader.ts).                  *)
(*                                                                         *)
(* The calls of one process share a context.  A send and what comes of it  *)
(* are one step: the platform and the network are external, and an answer  *)
(* may be lost whether or not the request arrived.                         *)
(***************************************************************************)
EXTENDS Naturals

CONSTANTS
  Calls,
  Kinds,   \* the assignments of a kind to each call that are considered
  Caching, \* whether the context uses the version cache (mode cli or login): Booleans
  Retries, \* RETRY_DELAYS_MS.length
  None

\* get and post go through request, mcp through post, stream sends a body that
\* cannot be read twice, version asks for the version itself, foreign names
\* another origin than the context's.
CallKinds == {"get", "post", "mcp", "stream", "version", "foreign"}

ASSUME TransportAssumption ==
  /\ Kinds \subseteq [Calls -> CallKinds]
  /\ Caching \subseteq BOOLEAN
  /\ Retries \in Nat
  /\ None \notin Calls

VARIABLES
  kind,
  caching,
  cache,     \* version-check.json has a fresh compatible version that the context uses
  verified,  \* state.verified
  verifying, \* the call whose check is state.verifying
  session,   \* an MCP session is cached
  announced, \* Server: the cached session was told that it is initialized
  pc,
  message,   \* what the call sends
  attempt,   \* of tlsFetch
  resent,    \* the message is sent again after a 401
  aborted,   \* the call's signal
  arrived,   \* how often the write of the call itself arrived
  sent,      \* some call that the check holds back has sent something
  passed     \* some check found the platform compatible

checkVars == <<cache, verified, verifying, passed>>
sessionVars == <<session, announced>>
vars == <<kind, caching, checkVars, sessionVars, pc, message, attempt, resent,
          aborted, arrived, sent>>

Messages == {"request", "initialize", "initialized", "call"}

\* The MCP endpoint is posted to.
Idempotent(c) == kind[c] \in {"get", "version"}
Replayable(c) == kind[c] # "stream"

Init ==
  /\ kind \in Kinds
  /\ caching \in Caching
  /\ cache \in {FALSE, caching}
  /\ verified = FALSE /\ verifying = None /\ passed = FALSE
  /\ session = FALSE /\ announced = FALSE
  /\ pc = [c \in Calls |-> "idle"]
  /\ message = [c \in Calls |-> "request"]
  /\ attempt = [c \in Calls |-> 1]
  /\ resent = [c \in Calls |-> FALSE]
  /\ aborted = [c \in Calls |-> FALSE]
  /\ arrived = [c \in Calls |-> 0]
  /\ sent = FALSE

Goto(c, label) == pc' = [pc EXCEPT ![c] = label]

\* A call is over; what its loops counted is of no more use.
End(c, label) ==
  /\ Goto(c, label)
  /\ message' = [message EXCEPT ![c] = "request"]
  /\ attempt' = [attempt EXCEPT ![c] = 1]
  /\ resent' = [resent EXCEPT ![c] = FALSE]
  /\ aborted' = [aborted EXCEPT ![c] = FALSE]

Start(c) ==
  /\ pc[c] = "idle"
  /\ Goto(c, "gate")
  /\ message' = [message EXCEPT ![c] =
       IF kind[c] # "mcp" THEN "request" ELSE IF session THEN "call" ELSE "initialize"]
  /\ UNCHANGED <<kind, caching, checkVars, sessionVars, attempt, resent, aborted, arrived, sent>>

\* The call's deadline or its caller; a tool call without a deadline of its own
\* may be interrupted by nothing.
Abort(c) ==
  /\ pc[c] \notin {"idle", "done", "failed"}
  /\ kind[c] # "mcp"
  /\ ~aborted[c]
  /\ aborted' = [aborted EXCEPT ![c] = TRUE]
  /\ UNCHANGED <<kind, caching, checkVars, sessionVars, pc, message, attempt, resent, arrived, sent>>

\* Time passes: the cached version after CLI_CACHE_TTL_MS, the session after
\* SESSION_TTL_MS.
CacheAges ==
  /\ cache /\ cache' = FALSE
  /\ UNCHANGED <<kind, caching, verified, verifying, passed, sessionVars, pc, message, attempt,
                 resent, aborted, arrived, sent>>
SessionAges ==
  /\ session /\ session' = FALSE /\ announced' = FALSE
  /\ UNCHANGED <<kind, caching, checkVars, pc, message, attempt, resent, aborted, arrived, sent>>

----------------------------------------------------------------------------
\* ensureCompatible.

AtGate(c) == pc[c] = "gate" /\ kind[c] # "foreign"

GateRefuses(c) ==
  /\ pc[c] = "gate" /\ kind[c] = "foreign"
  /\ End(c, "failed")
  /\ UNCHANGED <<kind, caching, checkVars, sessionVars, arrived, sent>>

GatePasses(c) ==
  /\ AtGate(c)
  /\ verified \/ kind[c] = "version"
  /\ Goto(c, "send")
  /\ attempt' = [attempt EXCEPT ![c] = 1]
  /\ resent' = [resent EXCEPT ![c] = FALSE]
  /\ UNCHANGED <<kind, caching, checkVars, sessionVars, message, aborted, arrived, sent>>

\* Mutant of Joined: a check that runs already is not waited for.
JoinedUnawaited == "send"

\* The call waits for the check that runs already.
Joined == "wait"

GateJoins(c) ==
  /\ AtGate(c) /\ kind[c] # "version"
  /\ ~verified /\ verifying # None
  /\ Goto(c, Joined)
  /\ attempt' = [attempt EXCEPT ![c] = 1]
  /\ resent' = [resent EXCEPT ![c] = FALSE]
  /\ UNCHANGED <<kind, caching, checkVars, sessionVars, message, aborted, arrived, sent>>

\* Mutant of Registered: the check is not kept for others to join.
RegisteredNot(c) == None

\* state.verifying.
Registered(c) == c

GateChecks(c) ==
  /\ AtGate(c) /\ kind[c] # "version"
  /\ ~verified /\ verifying = None
  /\ attempt' = [attempt EXCEPT ![c] = 1]
  /\ resent' = [resent EXCEPT ![c] = FALSE]
  /\ IF caching /\ cache
     THEN /\ verified' = TRUE /\ passed' = TRUE
          /\ Goto(c, "send")
          /\ UNCHANGED verifying
     ELSE /\ verifying' = Registered(c)
          /\ Goto(c, "check")
          /\ UNCHANGED <<verified, passed>>
  /\ UNCHANGED <<kind, caching, cache, sessionVars, message, aborted, arrived, sent>>

\* The calls that the end of a check moves on.
Settled(c, label) ==
  pc' = [d \in Calls |-> IF d = c \/ pc[d] = "wait" THEN label ELSE pc[d]]

\* The version is compatible; whether it can be cached does not matter.
CheckPasses(c) ==
  /\ pc[c] = "check"
  /\ verified' = TRUE /\ passed' = TRUE /\ verifying' = None
  /\ cache' \in IF caching THEN {cache, TRUE} ELSE {cache}
  /\ Settled(c, "send")
  /\ attempt' = [attempt EXCEPT ![c] = 1]
  /\ UNCHANGED <<kind, caching, sessionVars, message, resent, aborted, arrived, sent>>

\* Another version, an answer that is none, a failure that is not retried or
\* HEALTH_TIMEOUT_MS.
CheckFails(c) ==
  /\ pc[c] = "check"
  /\ verifying' = None
  /\ Settled(c, "failed")
  /\ aborted' = [d \in Calls |-> aborted[d] /\ pc'[d] # "failed"]
  /\ attempt' = [attempt EXCEPT ![c] = 1]
  /\ UNCHANGED <<kind, caching, cache, verified, passed, sessionVars, message, resent, arrived,
                 sent>>

----------------------------------------------------------------------------
\* tlsFetch.

\* canRetry.
CanRetry(c) == Replayable(c) /\ attempt[c] <= Retries /\ ~aborted[c]

NextAttempt(c) == attempt' = [attempt EXCEPT ![c] = @ + 1]

\* The health request is a GET under a deadline of its own.
CheckRetries(c) ==
  /\ pc[c] = "check"
  /\ attempt[c] <= Retries
  /\ NextAttempt(c)
  /\ UNCHANGED <<kind, caching, checkVars, sessionVars, pc, message, resent, aborted, arrived, sent>>

\* A message leaves; n says whether it arrives.
Sending(c, n) ==
  /\ pc[c] = "send" /\ ~aborted[c]
  /\ sent' = (sent \/ kind[c] # "version")
  /\ arrived' = [arrived EXCEPT ![c] =
       IF message[c] \in {"request", "call"} /\ ~Idempotent(c) THEN @ + n ELSE @]

TryAgain(c) == NextAttempt(c) /\ UNCHANGED <<pc, message, resent, aborted>>

\* A connection was never made (NOT_CONNECTED): any method is retried.
Refused(c) ==
  /\ Sending(c, 0)
  /\ IF CanRetry(c) THEN TryAgain(c) ELSE End(c, "failed")
  /\ UNCHANGED <<kind, caching, checkVars, sessionVars>>

\* Mutant of MayRepeat: any method is retried after any blip.
MayRepeatAny(c) == TRUE

\* IDEMPOTENT: what may have arrived is sent again only if it changes nothing.
MayRepeat(c) == Idempotent(c)

\* The connection dropped (DROPPED), or 429, 502, 503 came back: the request
\* may have arrived.  A Retry-After above its cap is answered at once.
Blip(c) ==
  /\ \E n \in 0..1 : Sending(c, n)
  /\ \/ MayRepeat(c) /\ CanRetry(c) /\ TryAgain(c)
     \/ End(c, "failed")
  /\ UNCHANGED <<kind, caching, checkVars, sessionVars>>

\* Any other error or status, and an abort while the message is on its way.
Fails(c) ==
  /\ \E n \in 0..1 : Sending(c, n)
  /\ End(c, "failed")
  /\ UNCHANGED <<kind, caching, checkVars, sessionVars>>

\* fetch with a signal that is aborted already, after a sleep or a renewal.
SendAborted(c) ==
  /\ pc[c] = "send" /\ aborted[c]
  /\ End(c, "failed")
  /\ UNCHANGED <<kind, caching, checkVars, sessionVars, arrived, sent>>

\* Mutant of MayResend: as often as the token can be renewed.
MayResendAlways(c) == TRUE

\* Once per message.
MayResend(c) == ~resent[c]

\* 401 and a renewed token: one more tlsFetch.
Unauthorized(c) ==
  /\ Sending(c, 0)
  /\ IF MayResend(c)
     THEN /\ attempt' = [attempt EXCEPT ![c] = 1]
          /\ resent' = [resent EXCEPT ![c] = TRUE]
          /\ UNCHANGED <<pc, message, aborted>>
     ELSE End(c, "failed")
  /\ UNCHANGED <<kind, caching, checkVars, sessionVars>>

\* Mutant of SessionAfter: the session is cached before it is announced.
SessionAfterFirst(m) == m = "initialize"

\* ensureSession: the session is cached once both messages were answered.
SessionAfter(m) == m = "initialized"

\* What ensureSession and callToolRawResult send after message m.
Following(m) == IF m = "initialize" THEN "initialized" ELSE "call"

Answered(c) ==
  /\ Sending(c, 1)
  /\ IF message[c] \in {"request", "call"}
     THEN End(c, "done")
     ELSE /\ Goto(c, "gate")
          /\ message' = [message EXCEPT ![c] = Following(@)]
          /\ UNCHANGED <<attempt, resent, aborted>>
  /\ IF SessionAfter(message[c])
     THEN session' = TRUE /\ announced' = (message[c] = "initialized")
     ELSE UNCHANGED sessionVars
  /\ UNCHANGED <<kind, caching, checkVars>>

----------------------------------------------------------------------------
Step(c) ==
  \/ Start(c)
  \/ GateRefuses(c) \/ GatePasses(c) \/ GateJoins(c) \/ GateChecks(c)
  \/ CheckPasses(c) \/ CheckFails(c) \/ CheckRetries(c)
  \/ Refused(c) \/ Blip(c) \/ Fails(c) \/ SendAborted(c) \/ Unauthorized(c) \/ Answered(c)

Next == (\E c \in Calls : Step(c) \/ Abort(c)) \/ CacheAges \/ SessionAges

Spec == Init /\ [][Next]_vars

FairSpec == Spec /\ \A c \in Calls : WF_vars(Step(c))

----------------------------------------------------------------------------
\* The counters stay within what the loops allow, and the cached flags follow
\* the mode of the context.
TypeOK ==
  /\ kind \in [Calls -> CallKinds]
  /\ {caching, cache, verified, passed, session, announced, sent} \subseteq BOOLEAN
  /\ verifying \in Calls \cup {None}
  /\ pc \in [Calls -> {"idle", "gate", "wait", "check", "send", "done", "failed"}]
  /\ message \in [Calls -> Messages]
  /\ attempt \in [Calls -> 1..(Retries + 1)]
  /\ resent \in [Calls -> BOOLEAN] /\ aborted \in [Calls -> BOOLEAN]
  /\ arrived \in [Calls -> 0..(2 * (Retries + 1))]

\* A write reaches the platform at most once per call, however the connection
\* fails and whatever is retried or resent (tlsFetch, authFetch).
WriteArrivesOnce == \A c \in Calls : arrived[c] <= 1

\* Nothing is sent before a version check has passed, the call's own or one it
\* waited for; a call that asks for the version is exempt (ensureCompatible).
SentOnlyVerified == sent => passed

\* The calls share one check, and one that has ended is not waited for
\* (state.verifying).
ChecksShared ==
  /\ \A c, d \in Calls : pc[c] = "check" /\ pc[d] = "check" => c = d
  /\ verifying # None => pc[verifying] = "check"

\* A cached MCP session was announced to the server: no call takes over a
\* session whose opening failed halfway in another call (ensureSession).
SessionAnnounced == session => announced

\* Every call ends: the retries run out, and whoever waits for a check learns
\* how it ended.
CallsEnd == <>(\A c \in Calls : pc[c] \in {"done", "failed"})
=============================================================================
