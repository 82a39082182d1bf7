# Formal models of bkn-sdk

`bkn-sdk` is the TypeScript SDK and the `openbkn` CLI of the BKN platform, with a Python client
(`python/bkn_osdk`) beside it. What is hard in it lies in the parts that keep state between requests:
managed operations and interactions, session caches, token renewal, retries, the store under `~/.bkn`,
and workflows of many requests. Most of its files turn a call into one HTTP request or a command into a
few; what can go wrong there goes wrong across them: a dry run that sends something, an exit code that
hides a failure, a command that changes what its help says it only reads. This directory models both
in TLA+, checks them with TLC on small instances and proves the core with TLAPS for every instance.

Run a check with `tlc -config <X>.cfg <M>.tla` and the proofs with `tlapm <M>Proofs.tla`.

## The system

```
 CLI commands ──> resources ──> api wrappers ──> request / authFetch ──> tlsFetch ──> platform
      │              │               │                │    │  ▲
      │              │               │                │    │  └─ ensureCompatible (version check)
      │              │               │                │    └──── tryRefresh ──> bkn-safe /oauth2/token
      │              │               └─ context-loader (MCP) ── withManagedLifecycle (sessions)
      │              └─ ManagedTrace: withInteraction ── runOperation ──> Trace Core
      └── config/store (state.json, token.json, config.json), dry-run, release on exit
```

| Component | State it keeps | Operations | What makes it correct |
|---|---|---|---|
| Managed operations (`managed-trace.ts`, `runOperation`) | the last ensure answer, the scope's receipts | ensure, execute, complete, fail, retry | one execution per attempt; value, error and receipt survive failures of Trace |
| Managed interactions (`managed-trace.ts`, `withInteraction`) | pending conversations, active conversations, terminal action | resolve, start, complete, fail, cancel, handoff, recover | one call per conversation; one terminal intent; nothing left open |
| Business sessions (`api/lifecycle.ts`) | `contracts`, `probeFailures`, `sessions` | probe, open, join, reopen once, release | one handshake per key; a named conversation is never swapped; everything opened is released |
| Token renewal (`api/http.ts`, `auth-fetch.ts`, `config/resolve.ts`) | `ctx.token`, shared `ctx.refresh`, refresh in flight, `token.json` | renew before expiry, renew after 401, resend, persist | no refresh token is sent twice; a retry has a new token |
| MCP transport (`api/context-loader.ts`) | transport sessions with a 5 min life | initialize, call tool, validate receipt | a receipt belongs to the caller's interaction |
| Transport retry (`api/tls.ts`), version check (`api/version-check.ts`), dry run | retry counter, verification promise and cache, suppressed counter | send, retry, verify, preview | writes are not repeated; one verification |
| Store (`config/store.ts`) | files under `~/.bkn` | read-modify-write of state, token, platform config | an update of one command is not lost by another |
| Sign-in (`auth/oauth.ts`, `oauth-app.ts`) | device code, callback server | poll, exchange, time out | ends in tokens or in one error |
| Data source builds (`vega`), network creation and push (`bkn-create.ts`, `knowledge-networks.ts`, `push-integrity.ts`) | tasks and indexes on the server | create, build, wait, push | partial failure is reported, lost indexes are found |
| Validation and diagnosis (`bkn-validate.ts`, `bkn-trace/*`) | none | pure functions | agree with their rules |
| Python client (`python/bkn_osdk`) | token holders under a lock, the tokens of the process, the turns of a scope | refresh, call, join, open and finish a turn | one exchange across the threads of an app; every turn it opened is finished, and no other |

The behaviours that are hard to test: calls of one process that interleave at every `await`
(operations that share a key, interactions that share a conversation, requests that share a token);
requests whose answer is lost after they were applied, or that arrive after they were given up;
state read before an `await` and used after it; sessions swept by the server under a cached promise;
processes that end between a grant and its write; failure of one step of several.

## Modules

| Module | Models | Kind |
|---|---|---|
| `OperationPromise` | what the callers of one managed operation are promised | abstract specification |
| `OperationAttempts` | `ManagedTrace.runOperation` and its helpers | component |
| `MCOperationAttempts` | constants of its runs | TLC instance |
| `OperationAttemptsProofs` | theorems about `OperationAttempts` | TLAPS |
| `ManagedInteraction` | `ManagedTrace.withInteraction` and conversation resolution | component |
| `MCManagedInteraction` | constants of its run | TLC instance |
| `ManagedInteractionProofs` | theorems about `ManagedInteraction` | TLAPS |
| `LifecycleSession` | `api/lifecycle.ts`: probe, session and release caches | component |
| `MCLifecycleSession` | constants of its runs | TLC instance |
| `LifecycleSessionProofs` | theorems about `LifecycleSession` | TLAPS |
| `TokenRefresh` | renewal in `request`, `authFetch`, `tryRefresh`, `resolveContext` | component |
| `MCTokenRefresh` | constants of its runs | TLC instance |
| `TokenRefreshProofs` | theorems about `TokenRefresh` | TLAPS |
| `TransportRetry` | `ensureCompatible`, `tlsFetch`, the resend after a 401, the MCP session | component |
| `MCTransportRetry` | constants of its run | TLC instance |
| `TransportRetryProofs` | theorems about `TransportRetry` | TLAPS |
| `ConfigStore` | the files under `~/.bkn` and the commands that read and write them | component |
| `MCConfigStore` | constants of its runs | TLC instance |
| `ConfigStoreProofs` | theorems about `ConfigStore` | TLAPS |
| `NetworkCreation` | `createFromCatalog`: listing, discovery, details, creation, rollback | component |
| `NetworkPush` | `push` with `push-integrity.ts` | component |
| `ResourceEdit` | `updateResource`, `updateCatalog`, enabling and disabling, by several editors | component |
| `BuildWait` | `build`, `waitForBuildTask`, `waitAndReport` | component |
| `SignIn` | device, password, token and loopback sign-in | component |
| `PythonTokens` | the Python client: `auth.py`, the 401 of `http.py`, `write_refreshed_token` | component |
| `PythonTurn` | the Python client: `lifecycle.py` and the scopes of `config.py` | component |
| `Clients` | the seven modules above, one program per behaviour | composition |
| `MCClients` | constants of its runs | TLC instance |
| `ClientsProofs` | theorems about the seven programs of `Clients` | TLAPS |
| `ApiRequests` | what each function of `src/api` sends | tables |
| `CommandTable` | what each command of the CLI sends, and its help section | tables |
| `CommandRun` | `runCli`: one command from its flags to its exit code | component |
| `MCCommandRun` | `CommandRun` over `CommandTable` | TLC instance |
| `CommandRunProofs` | theorems about `CommandRun` | TLAPS |

Conventions: a module has one action per step of the code between two points where another actor may
run. JavaScript runs one callback at a time, so everything between two `await`s is one action, and a
promise several callers await settles for all of them in one action. An external service is part of
the module that talks to it, under a heading of its own, and does no more than the code relies on.
A definition marked "Mutant of D" is a plausible bug of D; it is used by no specification, and with it
in D's place the property it is meant for fails.

### OperationAttempts

One interaction, one `operation_key`, any number of `runOperation` calls (`Calls`) with their own
`maxAttempts`. `op` is Core's latest attempt; `current` is the variable of that name; `caught` and
`retryable` are the state of `catch (executeError)`; `receipts` is the scope's map; `runs` counts
executions of the callback per attempt and exists only to state properties. Actions follow the loop:
`EnsureAnswered / EnsureLagged / DidNotAdvance / EnsureLost`, then one of `Recover`, `GiveUp`,
`TryAgain`, `Refuse`, `Execute`, then `ExecuteReturns / ExecuteThrows`, then
`CompleteAnswered / CompleteLost` or `FailAnswered / FailLost`, then `RetryAnswered / RetryLost`. Every
"Lost" action leaves open whether Core applied the request. `OperationPromise` is the contract the
callers see: the callback is ready, running, succeeded or failed for good. The refinement mapping is
`Phase`; `KeepsPromise` says that every behaviour of the calls is a behaviour of the promise.

### ManagedInteraction

Several `withInteraction` calls on one `ManagedTrace` whose strategies name one external key.
`pending` is the entry of `pendingConversations`, `active` is `activeConversationIds`,
`terminalAction` the promise of `cancel` or `handoff`. A terminal request is a pair of action and
`terminal_idempotency_key`. One that fails for the caller is refused, lost, applied with the answer
lost, or still on its way (`late`, `ArrivesLate`). `unsure` marks a call one of whose requests failed;
it appears only in `NothingLeftOpen`. A scope method used after the callback returned is not modelled.

### LifecycleSession

The calls of one process with the same base URL, network, caller and wanted conversation, so each
cache has one entry: `contract` with `window`, and `cached`, the promise (`opening`) in `sessions`.
`asks` is what the context names. `Ask` is `lifecycleProbeFor`, `Open` is `ensureSession`, `SendStale`
the reopening in `withManagedLifecycle`, `Release` and `ReleaseEnds` the release `runCli` makes after
the command. A handshake that fails may have started the interaction. Left out: the key changes when
the token is renewed between two steps of a call; a release while calls are still out (a command that
rejects early).

### TokenRefresh

Grants are numbered: grant n is access token n and refresh token n. `token` is `ctx.token` per context
object, `refreshToken` the field of the `refresh` object that all copies of a context share,
`refreshing` the WeakMap. `Copying` names the requests sent on a copy of the context, which is what
`operationContext` makes for every MCP call. `Restart` ends the process anywhere and starts the next
one from `store`. `lost` records that a grant was never stored, the only excuse for `NoReplay`.
Left out: tokens that are never renewed (`--token`, `BKN_TOKEN`), a second process at the same time,
and a grant that omits the refresh token.

### TransportRetry

What happens around one request, for several calls of one process that share a context. `verified` and
`verifying` are the fields of the context's version state, `cache` says whether `version-check.json`
holds a version the context may use, `session` is the cached MCP session. A call passes the gate
(`GatePasses / GateJoins / GateChecks`, then `CheckPasses / CheckFails / CheckRetries`), then sends: a
send and what comes of it are one action, `Answered`, `Refused` (no connection was made), `Blip` (a
dropped connection, 429, 502, 503), `Unauthorized` or `Fails`, and every one but the first, `Refused`
and `Unauthorized` leaves open whether the request arrived. An MCP call sends up to three messages, each through the gate
again. `arrived`, `sent`, `announced` and `passed` exist only to state properties. Left out: the dry
run, which answers before anything is sent; how long the waits are; a server that forgets a session,
which fails the call; the renewal inside a resend, which is `TokenRefresh`.

### ConfigStore

Every command is a process. `disk` maps each file to its content; a token and a remembered
conversation are told apart by their owner, `Torn` is content that no reader can parse. A write is
three actions, `Prepare` (the read of a read-modify-write), `EmptyFile` and `FillFile`, because
`writeFileSync` truncates before it writes and nothing locks; `Kill` may come between. `limit` is how
many commands run at a time, 1 or more, so that one run holds both what is true of commands that run
one after another and what is true of all. `calls` is the list of store calls a command still makes;
`Asks`, `Persist` and `Prepared` say which. `chosen` and `removed` exist only to state properties.
Left out: `version-check.json` (in `TransportRetry`), profiles in one process, listing, and the fields
of a file that no other part depends on.

### NetworkCreation, NetworkPush, ResourceEdit, BuildWait, SignIn

The commands of many requests. Each module has two variables: `client`, a record of what the command
knows (`at` is the place in the function), and `server`, what the platform holds. `Clients` instantiates
them, and the two modules of the Python client, over one pair of variables: each behaviour is that of
one program, which `Programs` lets begin and `client.command` names. A request is one action and has
up to three ends: answered, refused, or lost after it took effect.

`NetworkCreation` follows `createFromCatalog`: `ListPage` reads the listing page by page until it is
empty or the total is reached, `Discover` and `Poll` fill an empty catalog, `ReadDetails` reads the
tables in batches, `Select` is everything a user can get wrong (`resolveTableKey`,
`canonicalizeTableMap`), `FindKeys` the primary keys, then `Create`, `CreateTypes` and, in the catch,
`AfterFailure` and `Rollback`. `told` is the `partialKnId` of the error. Others add and drop tables
meanwhile. `steady`, the tables that were there all along, exists for `NoTableMissed`. Left out: rows
passed in for the detection of keys, and how keys are detected in sampled rows.

`NetworkPush` follows `push`: two rounds of `List` and `ReadDetail` around `Upload`. What an import
makes of the types is the platform's, any schema in `Imports`. `Losses` is `lostIndexWarnings`.

`ResourceEdit` has any number of editors of one entity, each with one command. A replacement carries
the `update_time` its user named or the one it read. That the platform refuses another one, and that a
catalog's replacement does not change its state, is what the code relies on (`Accepts`).

`BuildWait` and `SignIn` have a clock, `now`, that ticks while the command waits and not while it
computes. A build may be stopped and started again by others. A sign-in's user approves or denies at
any time; `slow_down` may be the answer to any poll.

### ApiRequests, CommandTable

Two tables, without a state. A plan is a sequence of steps, and a step is what one request does to the
platform: it reads, acts (runs something, or records a run) or changes; or the step keeps something
locally. A function or command has a set of plans, because its flags and the answers it gets decide
which requests follow. `ApiRequests` has the functions of `src/api`, file by file; `CommandTable`
composes them into the commands, and sorts the commands into help sections as `groupChildren` and
`autoGroup` do. Two notes on steps matter: `rescue`, how many steps the catch around it abandons, and
`partial` with `told`, which failures a 2xx answer may leave and which of them the command looks at.
There are two kinds: "stated", when a field of the answer says that it or a part of it failed
(`failure_count`, `success`, `valid`, `exit_code`, `status`), and "hidden", when no field made for it
does: the 200 with `result: null` of a function that the toolbox proxy cut off, a body that is itself a
failure, or anything inside a 2xx that the raw `call` hands through. Answers that only name a task
(discovery, builds, action runs) are whole when the task is there. The repetitions of paging and polling
are cut off at two. Bodies, paths and answers are left out, and so are refusals of arguments, which `CommandRun` has for all commands at once.

### CommandRun

One command: what was typed (`command`, `plan`, `dry`), the place in the plan (`at`), which steps took
effect (`landed`), the failures that successful answers left (`reported`, kept for `SuccessIsWhole`),
`process.exitCode` set on the way (`failed`), the exit code (`exit`), whether the preview was printed
(`shown`) and the credential (`login`). `Preview` is `previewRequest` throwing
`DryRunSignal`: outside of a try block it ends the command, inside it is caught like any error. A step
that is `quiet` runs inside `withoutPreview`. `RenewBefore` and `RenewAfter401` are the two renewals;
only the first asks about the dry run. `ByCaller` are the commands `SectionsHold` leaves out by name:
those whose caller names the request (`call`, `context tool-call`, `context call-method`) and
`admin license receipt`. `Untold` names pairs of a command and a kind of failure that it does not judge.
Stated and not judged: `bkn push` (warns), `skill execute` (without `--exit-code`), `tool upload`,
`bkn object-metric trial` and `query`, `vega catalog test-connection` and `test-connection-config`.
Hidden: `execute` and `debug` of `tool`, `function` and `api`, whose stated failures are judged, and
`call`. The exception is for that answer only: the same command may not exit 0 after a request that was
refused or lost. The findings say which of the exceptions are disagreements with the repository's own
promise of a non-zero exit code for every failure.

### PythonTokens

A process with two or more threads (`Threads`), signed in with a login of the store or with the tokens
of an app, and commands of the CLI beside it. `client.held` is `_fresh` of the login or the tokens of the
holder, `lock` the lock of the holder, which only an app's renewal keeps across a request; a thread has
the grant its context was resolved with (`read`) and the token it sent (`used`). Steps are between two
requests, two locks or the write: `StoredToken`, `StoredRefresh`, `StoredRenewed` and `Write` are
`token_for` and `refreshed_token` of a login, `AppToken`, `AppRefresh` and `AppRenewed` those of an app.
`server.kept` is `token.json`, or what `on_refresh` saved, with the grant that `expiresAt` dates. The CLI
is here only what it does to the store; `TokenRefresh` has the whole of it.

### PythonTurn

The calls of a block (`Calls`), one after another or in threads that share its context variables, in a
traced scope or not, under a caller's turn or not. `registry` is the dictionary of the scope, with a turn
for each network; a turn goes by the call that started it. `Begin`, `SendBare` and `Join` follow
`with_context_retry` and `ensure_interaction`, `Started` and its failures `_start`, `Finish` the call
that closes its own turn, `FinishOne` the loop of `_finish_interactions`. An error answer is a
`BknError`, which `finish` swallows; what httpx raises is not. The sets `untold`, `displaced` and
`unheard` are histories: starts without an answer, turns another start replaced in the registry, and
turns whose finish failed or was not reached after one failed.

## Runs

| Run | Instance | Shows |
|---|---|---|
| `operations` | 3 calls, maxAttempts 2, 2 and 3, Core may lag, at most 5 attempts | the five properties below, 43 000 states |
| `max_attempts` (violation) | 2 calls, maxAttempts 2 | the callback runs a third time |
| `interaction` | 3 calls, two `ensure_current`, one `resume_by_id`; cancel and handoff | five properties, 197 000 states |
| `sessions` | 2 calls, one requiring a receipt, all four ways to name a conversation, both kinds of deploy | five properties, 19 000 states |
| `token_refresh` | 3 requests on one context, 3 grants, 1 restart | three properties, 121 000 states |
| `transport` | 3 calls in three mixes of kinds, with and without the version cache, 2 retries | five properties, 86 000 states |
| `store` | 3 commands of 14 kinds, one or two at a time, 2 platforms, 2 users | four properties, 923 000 states |
| `refresh_copies` (violation) | 2 MCP calls, 3 grants | a refresh token is sent twice |
| `workflows` | see below | seven properties, 435 000 states |
| `python` | 2 threads, 3 grants, 2 commands of the CLI; 3 calls, 2 networks | three properties, 2 million states |
| `commands` | every command of the CLI, with and without `--dry-run` | three properties, 45 000 states |
| `dry_run_credential` (violation) | the same | a dry run replaces the stored credential |

Seven more configurations show disagreements that the findings list. Four are of `MCClients`:
`PartialKnMarked.cfg` (a network is left behind an error without `partialKnId`), `ResultKept.cfg`,
`ThreadsReplay.cfg` and `OneTurnPerNetwork.cfg` (a finish without an answer hides the result of a call; threads send the refresh token of a stored login twice; threads of one scope open two
turns of a network). The others are `ExecuteErrorKept.cfg` of `MCOperationAttempts` (the error a callback threw is replaced by a Trace error),
`ReleasesWhatItOpened.cfg` of `MCLifecycleSession` (a reopened session is never released) and
`ThreadOfIdentity.cfg` of `MCConfigStore` (a conversation is joined by, or filed under, another user).

Why the bounds are enough. `operations`: two calls show every interleaving of two views of the
operation; the third, with a larger bound, shows attempts opened beyond the smaller bounds; 5 is above
every attempt they can reach before the bound stops mattering. `interaction`: the third call is needed
to see that a refused call does not free the conversation for the next one. `sessions`: two calls open
at most four sessions, the pair is what shares and replaces a session; a third adds no new kind of
step. `token_refresh`: one request renews, one is refused late and one begins later; two renewals in a
row need three grants; one restart reads what the first process stored. `transport`: the code retries
three times, the run twice, which already has a first, a middle and a last attempt; the mixes put a
reader, a writer and a tool call side by side, two tool calls that share a session, and a call that
skips the check beside two it holds back. `store`: a command renews and opens a conversation at most
once; three commands are one that prepares the store, and two that overlap or follow on it; two
platforms and two users are what tells an active one from a picked one. Processes are symmetric, and
the store has no liveness property. `workflows`: a catalog of three tables with two on a page has a
full and a short page, and a table between the two that an insertion moves; two tables share a bare
name, so that keys are exact, loose, ambiguous or unknown; two changes by others are one on each side of
a read. A push has two types, so that one is read before and one after the other's edit, and all
combinations of a binding and an index. Three editors are one that writes, one whose lock is old and one
that switches the entity meanwhile. Builds and sign-ins tick past their longest limit by one interval,
the last poll included. `python`: two threads are one that renews and one that is refused before, during
or after; three grants are two renewals in a row, and two commands of the CLI one before and one after a
renewal. Two calls that read one network and a third of another fill a registry, replace an entry and
leave one to finish after a failure. `commands`: the tables are whole; one plan has at most about ten steps. Deadlock checking is off: the
calls end and nothing has to happen after.

Fairness. Requests settle, because `request` has a timeout, `undici` a header deadline, the release a
deadline of its own; callbacks end, because a caller's callback that never ends is not the SDK's. Weak
fairness of a step of each call says no more than that. A tool call of the MCP transport has no deadline
of its own: for it the assumption is that the server answers or the connection ends. The clocks of `workflows` tick, because
time passes; its requests settle, and a discovery task or a build need not end. Nothing else obliges a token to
expire, the server to sweep, a terminal action to be asked for or a late request to arrive.

## Properties

* `OneRunPerAttempt`, `ReceiptTellsTruth`, `RunsAreRecorded`, `KeepsPromise`, `CallsEnd`
  (operations): Trace failures never repeat, hide or misreport the business call.
* `OneCallPerConversation`, `ReportedIsRecorded`, `OneTerminalIntent`, `NothingLeftOpen`, `CallsEnd`
  (interaction): the guard read after an `await` still excludes; recovery of a lost completion never
  turns another end into a completion.
* `FirstCallsShareOne`, `NamedConversationStays`, `RequiredHasContext`, `CacheIsUsable`, `CallsEnd`
  (sessions).
* `NoReplay`, `RenewsOnlyOld`, `RequestsEnd` (token_refresh); `RetryIsRenewed` is proved for every
  instance and has no run.
* `WriteArrivesOnce`, `SentOnlyVerified`, `ChecksShared`, `SessionAnnounced`, `CallsEnd` (transport): a
  write is not repeated by any mix of retries and resends, and the calls share one verification.
* `TokenOfUser`, `ActiveHasLogin` (store) hold whatever overlaps and whatever is killed;
  `ThreadOfIdentityAlone` and `ChoiceStays` hold of commands that run one after another. Together
  they say how far a store without locks can be trusted.

* `LeftBehindIsTold`, `NoTableMissed` (creation): no answer to the rollback, a proxy's included, hides a
  network that is left; and paging against a moving catalog leaves no table out. Two conditions were
  found to be needed: the creation itself was answered (see `PartialKnMarked.cfg`), and no table was dropped while
  the listing was read, which shifts a later one into a page already read.
* `SilentPushKeeps` (push): no warning means nothing was lost, if nobody else edits the types.
* `EditChangesItsOwn` (edits): whatever the editors interleave, a replacement changes its own field and
  undoes nobody else's, unless the resource has no `update_time`.
* `ExitTellsBuild`, `ApprovalIsSeen` (build, sign-in): the last poll at the deadline counts.
* `CommandsEnd` (workflows): every command ends, but a wait without a limit.
* `SectionsHold` (commands): a READ command changes nothing and a RUN command no configuration, so that
  asking before WRITE commands only, as the help advises, is enough.
* `DryRunHolds`, `SuccessIsWhole` (commands): the dry run sends nothing but the handshake of MCP; exit
  code 0 means that every request the command was about took effect, unless its answer left a failure of
  a kind that `Untold` names for that command.

* `AppNoReplay`, `KeptIsCurrent` (python): the lock of an app's tokens makes one exchange of many, and
  what a process leaves for the CLI is the last refresh token, not dated by an older one. Of a stored
  login the first is false, which is a finding.
* `TurnsAreFinished` (python): the turns the client opened are closed as their call or block went, the
  caller's never is, and a turn stays open only if its start or its finish was lost.

What types the state is proved of every module that has one: no run lists a `TypeOK`, and each is to be
added to the INVARIANTS of its configuration after a change. The three violations are disagreements
between the code and its own comments or docs; `PROJECT.json` quotes both under "findings", and more
that were met on the way.

## Proofs

`OperationAttemptsProofs` proves, for any set of calls, any `maxAttempts` between 1 and 10, any bound
on attempts and with or without a lagging Core, that `Spec` implies the type invariant
(`TypeCorrect`), `OneRunPerAttempt` (`RunsOnce`), `RunsAreRecorded` (`Recorded`), `ReceiptTellsTruth`
(`Truthful`) and the refinement `KeepsPromise` (`Implements`). Assumed are only the three named
assumptions on the constants, which TLC evaluates in the `operations` run.

None of the invariants is inductive alone. The inductive invariant `IInv` adds the link between the
calls and Core: a call that holds an attempt (it was given `execute = TRUE` and has not ended it) holds
Core's latest attempt while it is pending or after its end was lost, nobody else holds it, attempts
above the latest have not run, and what a call saw as failed or completed is what Core held or
still holds. With it, `Execute` can only find `runs` at 0 for its attempt, and a step of one call
cannot change what another one's receipt says. `Invariance` proves Init => IInv and its preservation,
one lemma per conjunct and one step per action; the refinement proof maps each action to a step of
the promise or a stutter with the lemma `PhaseStep`.

`TransportRetryProofs` proves, for any set of calls, any mix of kinds and any number of retries, the
type invariant (`TypeCorrect`), `WriteArrivesOnce` (`WritesOnce`), `SentOnlyVerified`
(`VerifiedFirst`), `ChecksShared` (`OneCheck`) and `SessionAnnounced` (`Announced`). `WriteArrivesOnce`
alone is not inductive: a write that arrived must also have ended its call (`ArrivesAtEnd`), which is
what the IDEMPOTENT test of `tlsFetch` gives. `SentOnlyVerified` needs `PassedFirst`: whoever may send
has a passed check behind it. `ChecksShared` needs `CheckIsKnown`: the registered check is the one that
runs. The proof has one step per action; `SendKeeps` and `QuietKeeps` state once what any step that
sends, or does not, has to respect.

`TokenRefreshProofs` proves, for any requests, sent on one context or on copies of it, any number of
grants and restarts, `TypeCorrect`, `RenewsOnlyOld` (`RenewsOld`) and `RetryIsRenewed`
(`RetriesRenewed`). `HoldsBehind` says that no context is ahead of the refresh token all of them share,
and that of several exchanges in flight one at most was granted a token; `SendsBehind`, that no request
is ahead of its context; `Awaited`, that a refresh is in flight exactly where a request awaits one.
`NoReplay` (`ReplaysNever`) alone assumes `Copying = {}`, that is, one context: with copies it is false,
which the run `refresh_copies` shows. Its invariant adds that the context and the object it shares hold
one grant and a refresh in flight sent its token (`HoldsOneGrant`), and that, as long as no grant was
lost, the store holds the latest grant or the one before it while the answer is on its way
(`LatestIsKept`). `RootAssumption` says that the shared context is not itself one of the requests that
name the copies.

`LifecycleSessionProofs` proves, for any finite set of calls, any of which may require a receipt, and
all the ways to name a conversation, the type invariant and the four safety properties of `sessions`.
`RequiredHasContext` needs `ProbeIsSettled`: the window of a failed probe and a settled contract exclude
each other, and a call that requires a receipt passes its probe only with a settled one.
`FirstCallsShareOne` needs `OneLive`: before any session was stale, the live opening is the cached one,
or the one being released. `NamedConversationStays` needs `NamedIsJoined` and `OwnedIsLeft`: nothing is
minted for a named conversation, and nothing opened for an owned one.

`ManagedInteractionProofs` proves, for any finite set of calls, the type invariant and the four safety
properties of `interaction`. The proof ranges over every assignment of strategies and terminal
actions, so it also covers `create_new_generation` and `one_shot`, which the run leaves out to stay
small. The conversations taken are those of the calls inside (`HeldIsActive`): this ties
`activeConversationIds` to `OneCallPerConversation`. The rest is said call by call (`Good`): a call that
has started nothing has asked for nothing, a terminal action is the one request of its call, and
without one the requests follow how the callback ended. A step of one call touches no other
(`TouchesKeeps`), so the proof of each action is about one call.

`CommandRunProofs` proves, for any commands with any plans, that `Spec` implies the type invariant
(`TypeCorrect`), `DryRunHolds` (`DryRunCorrect`) and `SuccessIsWhole` (`WholeCorrect`). It rests on the
three assumptions about the table, which TLC evaluates for the real one: plans are sequences of steps,
a failure that an answer outside of a try block may leave is judged or `Untold` names it for the command,
and a catch is around all the steps it abandons. Neither property is inductive. `DryInv` adds that every step behind `at` in a
dry run could not be previewed, so a preview that was due has been shown when the command ends.
`WholeInv` adds that every step behind `at` that acts or changes, outside of a try block, has taken
effect, has set `failed`, or was answered with a failure that `Untold` names; the third assumption is what makes the jump of a catch skip only steps
inside it. `SectionsHold` (`SectionsCorrect`) is proved under one hypothesis about the table,
`PlansKeepSections`: every plan does only what its command's section allows. The run adds the rest,
because it starts from every plan of every command of the real table and takes each to its end.

`ClientsProofs` proves the eight safety invariants and the action property of `Clients`, for any
catalogs, networks, editors, threads, calls, times and limits its constants allow. `Inv` is a
disjunction over the seven programs: a state has the shapes of one only, so a step is one of that
program. Each program has an inductive invariant of its own, which the properties follow from:

* `CreationInv` (`FailedCreationIsTold`, `ListingMissesNone`): a table that was there throughout has been
  read or is further down the listing, because a page never ends behind one that moved, and the
  discovery, which may replace the listing, does not run while it is read.
* `PushInv` (`PushIsNotSilent`): while nobody else edits, what was read before the upload is what the
  network had, and what was read after it is what it has, type by type.
* `BuildInv` (`WaitTellsBuild`) and `LoginInv` (`PollSeesApproval`): no time passes between the last
  answer and the look at the deadline.
* `AppInv` (`HolderDoesNotReplay`): who renews an app's tokens has the lock, and the holder has the last
  grant unless the lock is held for its renewal or an answer was lost.
* `StoreInv` (`StoreKeepsLast`): until something is lost, the store has the last grant, or the one before
  it while exactly one thread or command has the last one to write.
* `TurnsInv` (`TurnsEnd`): an open turn that is not lost is in the registry of its scope or its call is on
  the way to finish it. Calls that share a scope displace each other's turns, which `displaced` records;
  calls one after another displace none.
* `EditInv` (`UpdateChangesItsOwn`, an action property): what an editor read is what the entity was at that
  `update_time`, so a replacement that is accepted changes its field alone.

`ConfigStoreProofs` proves the four invariants of `store` for any platforms, users, finite number of
processes, command lines and logins saved before. `TokenOfUser` and `ActiveHasLogin` hold of any number of
commands at once, though nothing is locked: `StoreInv` says that a call to make a user active is only ever
waiting behind the call that saves the user's login, or the login was seen (`InOrder`); that a state
about to be written names known users only, however old what it was read from; and that a user who is
known stays known (`Known`: a file, be it `Torn`, or a removed login). `ThreadOfIdentityAlone` and
`ChoiceStays` are false of commands at once; `AloneInv` is about the single process where `limit` is 1:
a run finds its own user active at every look, or has just emptied `state.json` itself, and then fills in
what it emptied. A kill in between leaves `Torn`, which the next command reads as no user.
The assumptions say that the processes are finitely many, that `Commands` are command lines and a login
names a user (`Default` where the token names none), and that `None` is not a write.

What is left to do. `CallsEnd`, `RequestsEnd` and `CommandsEnd` need fairness and stay with TLC. Two
facts they rest on need none, and are proved for every instance of the five components of the core and
of `CommandRun`: nobody waits for what nobody is doing, and every step leaves less to do. `StepsLeft`
is the most steps a call has left.

| Module | Steps of a call, at most | What the proof has to rule out |
|---|---|---|
| `OperationAttempts` | 5 * maxAttempts + 1 | a Core that does not advance, and so sends the call round its loop for ever |
| `ManagedInteraction` | 11 | a recovery or a refusal that starts over; a wait for a resolution that was already dropped |
| `LifecycleSession` | 12 | a stale session reopened twice; a wait for a handshake that a sweep or a release took away |
| `TransportRetry` | 9 * Retries + 24 | a resend, or the next message of a session, that gives the retries back; a wait for a check whose owner was aborted |
| `TokenRefresh` | 8, in one process | a second renewal after the resend; a refresh that settles and leaves somebody waiting |
| `CommandRun` | length of the plan + 3 | a renewal or a catch that goes back in the plan; a step after the exit |

`StepsDwindle` is an action property: no step of anyone gives a call more to do, its own steps leave it
less, and so does the answer to a request it shares. `WaitsAreAnswered` is the invariant behind it (for
operations `LoopsBounded`; a command waits for nobody). That of `LifecycleSession` also says that the
bound on openings is never what stops a call: each is paid for by a call that was given a session
(`TakenUpTo`), so the bound leaves nothing out. In `TokenRefresh` a restart is
exempt, as it begins the requests of the next process.

Only model-checked: every liveness property (fairness and ENABLED are outside the prover), that the
table of the CLI satisfies `PlansKeepSections`, the real table's part of `DryRunHolds` and
`SuccessIsWhole` (their assumptions), and the violations. Every theorem is proved from `Spec`, the specification without fairness, and from
the named assumptions on the constants.

## Plan

The core, the workflows, the commands and the Python client's tokens and turns are modelled, and every
safety property of them that a run checks is proved, `SectionsHold` for a table that keeps its sections.
What follows:

1. The MCP session of the Python client (handshake, forgotten sessions, repeats of a refused call).
2. `TokenRefresh` with two processes on one store, and `LifecycleSession` with a key that changes when
   the token is renewed.
3. What is left to do (see above) for the programs of `Clients` and the commands of `ConfigStore`. That a
   fair action, once enabled, stays enabled until it is taken needs ENABLED, and so stays with TLC.
4. Pure algorithms (package validation, detection of keys, diagnosis) as operators over bounded inputs.

## Not modelled

Servers are external and do no more than the code relies on. The parsing of arguments, output, help
texts and formatting are wording. `bkn-validate.ts`, `pk-detection.ts`, `tar.ts` and `bkn-trace` are pure
functions of files and documents, the judges of `bkn-trace` an external program; the parser of the chat
stream is a function of its text. Of the Python client the objects and the
generated classes are left out, and the parts of its transport that the component list names. The
components in `PROJECT.json` are the whole list, with what is left out of each.
