---------------------------- MODULE LifecycleSession ----------------------------
(***************************************************************************)
(* The managed sessions of src/api/lifecycle.ts: calls of one process that *)
(* share a base URL, a knowledge network, a caller and a wanted            *)
(* conversation, and so one key of each cache.  A call probes the deploy's *)
(* tool catalog, joins the cached handshake or opens one, sends its        *)
(* request, and reopens once when the session proves stale; the process    *)
(* releases what it holds on the way out.                                  *)
(*                                                                         *)
(* The deploy is external: a conversation permits one active interaction,  *)
(* a business call needs an active one, and conversations and interactions *)
(* are swept for being idle.                                               *)
(***************************************************************************)
EXTENDS Naturals, FiniteSets

CONSTANTS
  Calls,    \* the calls
  Requires, \* those that require a receipt
  Asks      \* what the context may name, a subset of Ways

\* Nothing, a conversation stored by an earlier run, one named by the caller,
\* or a conversation and an interaction that the caller owns.
Ways == {"nothing", "remembered", "named", "owned"}

ASSUME RequiresAssumption == Requires \subseteq Calls
ASSUME AsksAssumption == Asks \subseteq Ways
ASSUME CallsAssumption == IsFiniteSet(Calls)

\* A call opens at most two sessions, one before and one after its session was stale.
Openings == 1 .. 2 * Cardinality(Calls)

VARIABLES
  asks,         \* what the context names
  deploy,       \* whether the deploy manages lifecycles
  contract,     \* the entry of `contracts`: a pending or settled probe
  window,       \* the entry of `probeFailures` is younger than PROBE_FAILURE_TTL_MS
  opening,      \* the promises of ensureSession
  conversation, \* the conversation of each: 0, the one asked for, or one minted for it
  interaction,  \* Core: the interaction each one started
  gone,         \* Core: conversation 0 was swept or closed
  cached,       \* the entry of `sessions`, 0 for none
  pc,           \* where each call stands
  session,      \* the opening whose session each call awaits or uses, 0 for none
  reopened,     \* the call found its session stale
  bare,         \* the call sends its request without a bkn_context
  reported,     \* the conversations given to onConversationOpened
  released,     \* "no", then "releasing" while the finish call is out, then "yes"
  snapshot      \* the session that is released, 0 for none

coreVars == <<asks, deploy, interaction, gone>>
probeVars == <<contract, window>>
openVars == <<opening, conversation, cached, reported>>
callVars == <<pc, session, reopened, bare>>
exitVars == <<released, snapshot>>
vars == <<coreVars, probeVars, openVars, callVars, exitVars>>

Init ==
  /\ asks \in Asks
  /\ deploy \in {"managed", "unsupported"}
  /\ contract = "none"
  /\ window = FALSE
  /\ opening = [o \in Openings |-> "unused"]
  /\ conversation = [o \in Openings |-> 0]
  /\ interaction = [o \in Openings |-> "none"]
  /\ gone = FALSE
  /\ cached = 0
  /\ pc = [c \in Calls |-> IF c \in Requires THEN "require" ELSE "ask"]
  /\ session = [c \in Calls |-> 0]
  /\ reopened = [c \in Calls |-> FALSE]
  /\ bare = [c \in Calls |-> FALSE]
  /\ reported = {}
  /\ released = "no"
  /\ snapshot = 0

--------------------------------------------------------------------------------
\* The deploy

\* Conversation o's interaction is left idle too long.
SweepInteraction(o) ==
  /\ interaction[o] = "active"
  /\ interaction' = [interaction EXCEPT ![o] = "ended"]
  /\ UNCHANGED <<asks, deploy, gone, probeVars, openVars, callVars, exitVars>>

\* The conversation asked for goes, and takes its interaction with it.
SweepConversation ==
  /\ ~gone
  /\ asks \in {"remembered", "named"}
  /\ gone' = TRUE
  /\ interaction' = [o \in Openings |->
       IF interaction[o] = "active" /\ conversation[o] = 0 THEN "ended" ELSE interaction[o]]
  /\ UNCHANGED <<asks, deploy, probeVars, openVars, callVars, exitVars>>

\* The conversation asked for can take an interaction.
Joinable ==
  /\ ~gone
  /\ \A o \in Openings : interaction[o] = "active" => conversation[o] # 0

--------------------------------------------------------------------------------
\* lifecycleProbeFor, requireKnownLifecycleCapability, bknContextFor

\* Where a call stands once the capability is known, or is not.
Known(c, capability) ==
  IF pc[c] \in {"require", "requiring"} THEN "ask"
  ELSE IF capability = "managed" /\ asks # "owned" THEN "open" ELSE "send"

\* Mutant of Unknown: an unreadable catalog is taken for one of an older deploy.
UnknownIsLegacy(c) == IF reopened[c] THEN "done" ELSE "send"

\* requireKnownLifecycleCapability throws; a call that has a context to replace
\* rethrows the error it had; others go on without a context.
Unknown(c) ==
  IF pc[c] \in {"require", "requiring"} \/ reopened[c] THEN "done" ELSE "send"

Waiting == {c \in Calls : pc[c] \in {"requiring", "asking"}}

\* A recent failure or a settled probe answers, otherwise the call awaits the
\* pending probe or sends one.
Ask(c) ==
  /\ pc[c] \in {"require", "ask"}
  /\ \/ /\ window
        /\ pc' = [pc EXCEPT ![c] = Unknown(c)]
        /\ bare' = [bare EXCEPT ![c] = TRUE]
        /\ contract' = contract
     \/ /\ ~window
        /\ contract \in {"managed", "unsupported"}
        /\ pc' = [pc EXCEPT ![c] = Known(c, contract)]
        /\ bare' = [bare EXCEPT ![c] = contract = "unsupported"]
        /\ contract' = contract
     \/ /\ ~window
        /\ contract \in {"none", "pending"}
        /\ pc' = [pc EXCEPT ![c] = IF pc[c] = "require" THEN "requiring" ELSE "asking"]
        /\ contract' = "pending"
        /\ bare' = bare
  /\ UNCHANGED <<coreVars, window, openVars, session, reopened, exitVars>>

\* What the catalog says: it lists START_TOOL or it does not.
Capability == deploy

ProbeAnswered ==
  /\ contract = "pending"
  /\ contract' = Capability
  /\ pc' = [c \in Calls |-> IF c \in Waiting THEN Known(c, Capability) ELSE pc[c]]
  /\ bare' =
       [c \in Calls |-> IF c \in Waiting THEN Capability = "unsupported" ELSE bare[c]]
  /\ UNCHANGED <<coreVars, window, openVars, session, reopened, exitVars>>

\* A refused credential is forgotten at once; anything else, a catalog that is
\* no catalog included, is held for the window.
ProbeFails ==
  /\ contract = "pending"
  /\ contract' = "none"
  /\ window' \in BOOLEAN
  /\ pc' = [c \in Calls |-> IF c \in Waiting THEN Unknown(c) ELSE pc[c]]
  /\ bare' = [c \in Calls |-> c \in Waiting \/ bare[c]]
  /\ UNCHANGED <<coreVars, openVars, session, reopened, exitVars>>

WindowEnds ==
  /\ window
  /\ window' = FALSE
  /\ UNCHANGED <<coreVars, contract, openVars, callVars, exitVars>>

--------------------------------------------------------------------------------
\* ensureSession, openSession

Settle(o, step) ==
  pc' = [c \in Calls |-> IF pc[c] = "opening" /\ session[c] = o THEN step ELSE pc[c]]

\* The first start of a session: in the conversation asked for, if any.
FirstStart == IF asks = "nothing" THEN "minting" ELSE "joining"

\* Mutant of Entry: the session is cached once its handshake is answered.
EntryOnceOpen(o) == IF opening[o] = "open" THEN o ELSE 0

\* What `sessions` holds after a handshake was sent: its promise.
Entry(o) == o

\* The cached promise, or a new one that is cached at once.
Open(c) ==
  /\ pc[c] = "open"
  /\ IF cached # 0
     THEN /\ session' = [session EXCEPT ![c] = cached]
          /\ UNCHANGED openVars
     ELSE \E o \in Openings :
          /\ opening[o] = "unused"
          /\ \A n \in 1 .. o - 1 : opening[n] # "unused"
          /\ opening' = [opening EXCEPT ![o] = FirstStart]
          /\ session' = [session EXCEPT ![c] = o]
          /\ cached' = Entry(o)
          /\ conversation' =
               [conversation EXCEPT ![o] = IF FirstStart = "minting" THEN o ELSE 0]
          /\ UNCHANGED reported
  /\ pc' = [pc EXCEPT ![c] = IF opening'[session'[c]] = "open" THEN "send" ELSE "opening"]
  /\ UNCHANGED <<coreVars, probeVars, reopened, bare, exitVars>>

\* bkn_start_interaction with conversation_mode "continue".
Joined(o) ==
  /\ opening[o] = "joining"
  /\ Joinable
  /\ interaction' = [interaction EXCEPT ![o] = "active"]
  /\ opening' = [opening EXCEPT ![o] = "open"]
  /\ Settle(o, "send")
  /\ UNCHANGED <<asks, deploy, gone, probeVars, conversation, cached, reported, session,
                 reopened, bare, exitVars>>

\* With conversation_mode "new"; the caller is told which conversation it got.
Minted(o) ==
  /\ opening[o] = "minting"
  /\ interaction' = [interaction EXCEPT ![o] = "active"]
  /\ opening' = [opening EXCEPT ![o] = "open"]
  /\ reported' = reported \cup {o}
  /\ Settle(o, "send")
  /\ UNCHANGED <<asks, deploy, gone, probeVars, conversation, cached, session, reopened,
                 bare, exitVars>>

\* Mutant of Droppable: the conversation is compared by value.
DroppableByValue == asks \in {"remembered", "named"}

\* A conversation that may be dropped when the start is refused.
Droppable == asks = "remembered"

\* refusesThisConversation: it is dropped for a new one.
Dropped(o) ==
  /\ opening[o] = "joining"
  /\ Droppable
  /\ opening' = [opening EXCEPT ![o] = "minting"]
  /\ conversation' = [conversation EXCEPT ![o] = o]
  /\ UNCHANGED <<coreVars, probeVars, cached, reported, callVars, exitVars>>

\* Mutant of Forget: the rejected promise stays.
ForgetNothing == cached

\* `opening.catch`: whatever the key holds is deleted.
Forget == 0

\* Refused otherwise, or failed, maybe after the deploy started the interaction:
\* every call that awaits it fails.
OpenFails(o) ==
  /\ opening[o] \in {"joining", "minting"}
  /\ \/ interaction' = interaction
     \/ /\ opening[o] = "minting" \/ Joinable
        /\ interaction' = [interaction EXCEPT ![o] = "active"]
  /\ opening' = [opening EXCEPT ![o] = "failed"]
  /\ cached' = Forget
  /\ Settle(o, "done")
  /\ UNCHANGED <<asks, deploy, gone, probeVars, conversation, reported, session, reopened,
                 bare, exitVars>>

--------------------------------------------------------------------------------
\* withManagedLifecycle

\* The deploy takes the request: it needs no context, or has an active one.
Served(c) ==
  IF bare[c] THEN deploy = "unsupported"
  ELSE session[c] # 0 => interaction[session[c]] = "active"

SendAnswered(c) ==
  /\ pc[c] = "send"
  /\ Served(c)
  /\ pc' = [pc EXCEPT ![c] = "done"]
  /\ UNCHANGED <<coreVars, probeVars, openVars, session, reopened, bare, exitVars>>

\* The interaction of a session that this process opened is over.
Stale(c) == session[c] # 0 /\ interaction[session[c]] # "active"

\* Mutant of SendStale: reopened as often as the deploy refuses.
SendStaleAgain(c) ==
  /\ pc[c] = "send"
  /\ Stale(c)
  /\ cached' = 0
  /\ session' = [session EXCEPT ![c] = 0]
  /\ reopened' = [reopened EXCEPT ![c] = TRUE]
  /\ pc' = [pc EXCEPT ![c] = "ask"]
  /\ UNCHANGED <<coreVars, probeVars, opening, conversation, reported, bare, exitVars>>

\* The call forgets the session cached under its key, whoever put it there, and
\* opens another, once.
SendStale(c) ==
  /\ pc[c] = "send"
  /\ Stale(c)
  /\ ~reopened[c]
  /\ cached' = 0
  /\ session' = [session EXCEPT ![c] = 0]
  /\ reopened' = [reopened EXCEPT ![c] = TRUE]
  /\ pc' = [pc EXCEPT ![c] = "ask"]
  /\ UNCHANGED <<coreVars, probeVars, opening, conversation, reported, bare, exitVars>>

\* Any other error, and the second one whatever it is.
SendFails(c) ==
  /\ pc[c] = "send"
  /\ pc' = [pc EXCEPT ![c] = "done"]
  /\ UNCHANGED <<coreVars, probeVars, openVars, session, reopened, bare, exitVars>>

--------------------------------------------------------------------------------
\* releaseLifecycleSessions, when the command is over

Release ==
  /\ \A c \in Calls : pc[c] = "done"
  /\ released = "no"
  /\ snapshot' = cached
  /\ cached' = 0
  /\ released' = IF cached = 0 THEN "yes" ELSE "releasing"
  /\ UNCHANGED <<coreVars, probeVars, opening, conversation, reported, callVars>>

\* bkn_finish_interaction; a failure and a wait past RELEASE_TIMEOUT_MS are ignored.
ReleaseEnds ==
  /\ released = "releasing"
  /\ interaction' \in
       {interaction,
        [interaction EXCEPT ![snapshot] = IF @ = "active" THEN "canceled" ELSE @]}
  /\ released' = "yes"
  /\ UNCHANGED <<asks, deploy, gone, probeVars, openVars, callVars, snapshot>>

Step(c) == Ask(c) \/ Open(c) \/ SendAnswered(c) \/ SendStale(c) \/ SendFails(c)

Handshake(o) == Joined(o) \/ Minted(o) \/ Dropped(o) \/ OpenFails(o)

Next ==
  \/ \E c \in Calls : Step(c)
  \/ \E o \in Openings : Handshake(o) \/ SweepInteraction(o)
  \/ SweepConversation \/ ProbeAnswered \/ ProbeFails \/ WindowEnds
  \/ Release \/ ReleaseEnds

Spec == Init /\ [][Next]_vars

\* Requests are answered or fail; nothing has to be swept and no window to end.
FairSpec ==
  /\ Spec
  /\ \A c \in Calls : WF_vars(Step(c))
  /\ \A o \in Openings : WF_vars(Handshake(o))
  /\ WF_vars(ProbeAnswered \/ ProbeFails)
  /\ WF_vars(Release) /\ WF_vars(ReleaseEnds)

--------------------------------------------------------------------------------
TypeOK ==
  /\ asks \in Asks
  /\ deploy \in {"managed", "unsupported"}
  /\ contract \in {"none", "pending", deploy}
  /\ window \in BOOLEAN
  /\ opening \in [Openings -> {"unused", "joining", "minting", "open", "failed"}]
  /\ conversation \in [Openings -> {0} \cup Openings]
  /\ \A o \in Openings : conversation[o] \in {0, o}
  /\ interaction \in [Openings -> {"none", "active", "ended", "canceled"}]
  /\ gone \in BOOLEAN
  /\ cached \in {0} \cup Openings
  /\ pc \in [Calls -> {"require", "requiring", "ask", "asking", "open", "opening", "send",
                       "done"}]
  /\ session \in [Calls -> {0} \cup Openings]
  /\ reopened \in [Calls -> BOOLEAN]
  /\ bare \in [Calls -> BOOLEAN]
  /\ reported \subseteq Openings
  /\ released \in {"no", "releasing", "yes"}
  /\ snapshot \in {0} \cup Openings

\* Calls that find no session share one handshake and its session: as long as
\* nobody's session was stale, at most one is being opened or is open.
FirstCallsShareOne ==
  (\A c \in Calls : ~reopened[c]) =>
    Cardinality({o \in Openings : opening[o] \in {"joining", "minting", "open"}}) <= 1

\* A conversation the caller named is never swapped for another, not even by a
\* reopened session, and one it owns is never joined by a session of the process.
NamedConversationStays ==
  /\ asks = "named" => \A o \in Openings : conversation[o] = 0
  /\ asks = "owned" => \A o \in Openings : opening[o] = "unused"

\* A call that requires a receipt is not sent without a context on the strength
\* of a catalog that could not be read.
RequiredHasContext ==
  \A c \in Requires : pc[c] = "send" /\ bare[c] => deploy = "unsupported"

\* A failed handshake does not poison the cache: whatever calls were told their
\* session is stale meanwhile, no later call joins one that failed.
CacheIsUsable == cached # 0 => opening[cached] \in {"joining", "minting", "open"}

\* Every call ends and the process gets to exit, whatever the deploy sweeps.
CallsEnd == <>(released = "yes")

\* src/api/lifecycle.ts:517, "Release the interactions this process opened": after the
\* exit, the only interaction it opened that may still be active is one whose
\* finish call failed.
ReleasesWhatItOpened ==
  released = "yes" =>
    \A o \in Openings : opening[o] = "open" /\ interaction[o] = "active" => o = snapshot
================================================================================
