----------------------------- MODULE CommandRun -----------------------------
(***************************************************************************)
(* One command of the CLI, from its flags to its exit code (src/cli-run.ts): *)
(* the requests of its plan one after the other, through the transport that *)
(* previews them under --dry-run (src/utils/dry-run.ts, src/api/tls.ts) and *)
(* renews the token (authFetch, src/api/http.ts), the platform answering,   *)
(* refusing or losing each.                                                 *)
(*                                                                          *)
(* What is released in runCli's finally block is module LifecycleSession;   *)
(* who renews a token at the same time, module TokenRefresh.                *)
(***************************************************************************)
EXTENDS Integers, Sequences

CONSTANTS
    Commands,    \* their paths
    Plans(_),    \* the plans (sequences of steps) of each
    Section(_),  \* the help section of each
    ByCaller,    \* the commands whose caller names the request or the tool
    Untold       \* <<command, report>>: a failure the command does not judge

Effects == {"reads", "acts", "changes", "keeps"}

\* How a successful answer leaves a failure: its fields say so, or they do not.
Reports == {"stated", "hidden"}

Steps == [does : Effects, quiet : BOOLEAN, rescue : Nat, partial : SUBSET Reports, told : SUBSET Reports,
          live : BOOLEAN]

ASSUME PlansAssumption == \A c \in Commands : Plans(c) \subseteq Seq(Steps)

\* A failure in a successful answer is judged, is named in Untold, or is in a
\* try block.
ASSUME ToldAssumption ==
    \A c \in Commands : \A p \in Plans(c) : \A i \in DOMAIN p : \A report \in p[i].partial \ p[i].told :
        p[i].rescue = 0 => <<c, report>> \in Untold

\* A catch is around all the steps it abandons.
ASSUME TryAssumption ==
    \A c \in Commands : \A p \in Plans(c) : \A i, j \in DOMAIN p :
        (i < j /\ j < i + p[i].rescue) => p[j].rescue > 0

VARIABLES
    command, plan, dry,    \* what was typed
    at,                    \* the next step of the plan
    landed,                \* the steps that took effect
    reported,              \* <<step, report>>: the failures in successful answers
    failed,                \* process.exitCode was set to 1 on the way
    exit,                  \* the exit code, -1 while the command runs
    shown,                 \* the preview was printed
    login                  \* the credential

typed == <<command, plan, dry>>
vars == <<command, plan, dry, at, landed, reported, failed, exit, shown, login>>

\* A token is good, old (it says it expires), or dead (only the platform knows).
Logins == [by : {"flag", "store"}, token : {"good", "old", "dead"}, rotated : BOOLEAN]

Init ==
    /\ command \in Commands
    /\ plan \in Plans(command)
    /\ dry \in BOOLEAN
    /\ at = 1
    /\ landed = {}
    /\ reported = {}
    /\ failed = FALSE
    /\ exit = -1
    /\ shown = FALSE
    /\ login \in {l \in Logins : ~l.rotated}

Running == exit = -1 /\ at \in DOMAIN plan
step == plan[at]

End(c) == exit' = c /\ UNCHANGED <<typed, at, failed>>
Advance(n) == at' = at + n /\ UNCHANGED <<typed, exit>>

\* Mutant of ExitCode: a command that returns has succeeded.
ExitCodeOfReturn == 0

ExitCode == IF failed THEN 1 ELSE 0

\* An error ends the command, unless it is thrown in a try block.
Throw(codes) ==
    \/ step.rescue = 0 /\ \E c \in codes : End(c)
    \/ step.rescue > 0 /\ Advance(step.rescue) /\ UNCHANGED failed

\* commander, or the handler, refuses the arguments before any request.
RefuseInput ==
    /\ exit = -1 /\ at = 1
    /\ \E c \in {1, 2} : End(c)
    /\ UNCHANGED <<landed, reported, shown, login>>

LeaveOut ==
    /\ Running /\ dry /\ step.live
    /\ Advance(1)
    /\ UNCHANGED <<landed, reported, failed, shown, login>>

Keep ==
    /\ Running /\ step.does = "keeps" /\ ~(dry /\ step.live)
    /\ \/ Advance(1) /\ landed' = landed \union {at} /\ UNCHANGED failed
       \/ Throw({1, 2}) /\ UNCHANGED landed
    /\ UNCHANGED <<reported, shown, login>>

Asking == Running /\ step.does # "keeps" /\ ~(dry /\ step.live)

\* Mutant of Previewed: once the preview was suspended, it stays so.
PreviewedUntilSuspended(s) == dry /\ ~s.quiet /\ \A i \in 1..(at - 1) : ~plan[i].quiet

Previewed(s) == dry /\ ~s.quiet

\* refreshIfExpiring, before the request.
RenewBefore ==
    /\ Asking /\ ~Previewed(step)
    /\ ~dry /\ login.by = "store" /\ login.token = "old"
    /\ \/ login' = [login EXCEPT !.token = "good", !.rotated = TRUE]
       \/ login' = [login EXCEPT !.token = "dead"]
    /\ UNCHANGED <<typed, at, landed, reported, failed, exit, shown>>

\* DryRunSignal: thrown in a try block, it is caught like any error.
Preview ==
    /\ Asking /\ Previewed(step)
    /\ \/ step.rescue = 0 /\ End(ExitCode) /\ shown' = TRUE
       \/ step.rescue > 0 /\ Advance(step.rescue) /\ UNCHANGED <<failed, shown>>
    /\ UNCHANGED <<landed, reported, login>>

Sending ==
    /\ Asking /\ ~Previewed(step)
    /\ dry \/ login.by = "flag" \/ login.token # "old"

Answered ==
    /\ Sending /\ login.token = "good"
    /\ Advance(1)
    /\ landed' = landed \union {at}
    /\ UNCHANGED <<reported, failed, shown, login>>

\* A success that leaves a failure, which the command looks at or does not.
AnsweredInPart ==
    /\ Sending /\ login.token = "good"
    /\ Advance(1)
    /\ \E report \in step.partial :
           /\ reported' = reported \union {<<at, report>>}
           /\ failed' = (failed \/ report \in step.told)
    /\ UNCHANGED <<landed, shown, login>>

Refused ==
    /\ Sending
    /\ Throw({1, 2, 3})
    /\ UNCHANGED <<landed, reported, shown, login>>

\* No answer: the request may have been carried out.
Lost ==
    /\ Sending
    /\ Throw({1})
    /\ landed' \in {landed, IF login.token = "good" THEN landed \union {at} ELSE landed}
    /\ UNCHANGED <<reported, shown, login>>

\* renewAfter401, and the request is sent once more; Refused is a 401 that
\* nothing renews.
RenewAfter401 ==
    /\ Sending /\ login.token # "good" /\ login.by = "store"
    /\ login' = [login EXCEPT !.token = "good", !.rotated = TRUE]
    /\ UNCHANGED <<typed, at, landed, reported, failed, exit, shown>>

Finish ==
    /\ exit = -1 /\ at \notin DOMAIN plan
    /\ End(ExitCode)
    /\ UNCHANGED <<landed, reported, shown, login>>

Next == RefuseInput \/ LeaveOut \/ Keep \/ RenewBefore \/ Preview \/ Answered \/ AnsweredInPart
        \/ Refused \/ Lost \/ RenewAfter401 \/ Finish

Spec == Init /\ [][Next]_vars

---------------------------------------------------------------------------
TypeOK ==
    /\ command \in Commands /\ plan \in Seq(Steps) /\ dry \in BOOLEAN
    /\ at \in Nat \ {0} /\ landed \subseteq DOMAIN plan /\ reported \subseteq (DOMAIN plan) \X Reports
    /\ failed \in BOOLEAN /\ exit \in {-1, 0, 1, 2, 3} /\ shown \in BOOLEAN
    /\ login \in Logins

Allowed == [READ |-> {"reads", "keeps"}, RUN |-> {"reads", "acts", "keeps"}]

\* What a command does to the platform is what its help section promises
\* (SECTION_MEANINGS): READ changes nothing, RUN acts without changing
\* configuration.  Confirming WRITE commands only, as the help advises, is
\* safe if it holds.
SectionsHold ==
    (Section(command) \in DOMAIN Allowed /\ command \notin ByCaller) =>
        \A i \in landed : plan[i].does \in Allowed[Section(command)]

\* A request the dry run of a command would have to preview.
Previewable(i) == plan[i].does # "keeps" /\ ~plan[i].quiet /\ ~plan[i].live /\ plan[i].rescue = 0

\* What --dry-run promises: of all requests only the MCP handshake reaches the
\* platform, a run that ends well has shown the request it stopped at, and only
\* that handshake can have renewed the stored credential.
DryRunHolds ==
    dry => /\ \A i \in landed : plan[i].quiet \/ plan[i].does = "keeps"
           /\ (exit = 0 /\ \E i \in DOMAIN plan : Previewable(i)) => shown
           /\ login.rotated => \E i \in DOMAIN plan : plan[i].quiet

\* The answer to this step left a failure that its command does not judge.
Unjudged(i) == \E report \in Reports : <<i, report>> \in reported /\ <<command, report>> \in Untold

\* Exit code 0 means that everything the command was to do is done: no refused,
\* lost or partly refused request that it was about can hide behind it, but for
\* an answered failure of the kind that Untold names for this command.
SuccessIsWhole ==
    (exit = 0 /\ ~dry) =>
        \A i \in DOMAIN plan :
            (plan[i].does \in {"acts", "changes"} /\ plan[i].rescue = 0) => (i \in landed \/ Unjudged(i))

\* The comment of withoutPreview: token refresh "rotates a stored credential, so
\* under a dry run it does not happen at all".
CredentialKept == dry => ~login.rotated
=============================================================================
