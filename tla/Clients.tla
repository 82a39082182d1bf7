--------------------------------- MODULE Clients ---------------------------------
(***************************************************************************)
(* One process of a client and the platform it talks to: a command of the  *)
(* CLI that takes several requests, or a program of the Python client.     *)
(* Each behaviour is that of one program, chosen at its start; "command"   *)
(* in the state of the client says which.  What the platform holds, and    *)
(* what its other users do meanwhile, is in the module of the program.     *)
(***************************************************************************)
EXTENDS Naturals

CONSTANTS
  Programs, \* the programs a behaviour may be of
  None,     \* undefined, unbound, gone
  \* NetworkCreation
  Resources, NameOf, BareName, KeyOf, CommandLines, Listings, PageSize, BatchSize, MaxChanges,
  \* NetworkPush
  Types, Sources, Networks, Imports, MaxEdits,
  \* ResourceEdit
  Editors, Fields, Original,
  \* BuildWait
  BuildTimeouts, PollInterval, BuildTime, MaxStarts,
  \* SignIn
  LoginTimeouts, Expires, AskInterval, Backoff, MaxSlow, LoginTime,
  \* PythonTokens
  Threads, Nobody, Grants, CliRuns,
  \* PythonTurn
  Calls, Kns, Caller

VARIABLES client, server
vars == <<client, server>>

Creation == INSTANCE NetworkCreation
Push == INSTANCE NetworkPush WITH Unbound <- None, Gone <- None
Edit == INSTANCE ResourceEdit
Build == INSTANCE BuildWait WITH
  Timeouts <- BuildTimeouts, Interval <- PollInterval, MaxTime <- BuildTime
Login == INSTANCE SignIn WITH
  Timeouts <- LoginTimeouts, Interval <- AskInterval, MaxTime <- LoginTime, Never <- None
Sessions == INSTANCE PythonTokens
Turns == INSTANCE PythonTurn

AllPrograms == {"create", "push", "edit", "build", "login", "tokens", "turns"}

\* What is assumed of the constants of each program.
ClientsAssumption ==
  /\ Programs \subseteq AllPrograms
  /\ Creation!CreationAssumption /\ Push!PushAssumption /\ Edit!EditAssumption
  /\ Build!WaitAssumption /\ Login!SignInAssumption
  /\ Sessions!TokensAssumption /\ Turns!TurnsAssumption
ASSUME ConstantsAssumption == ClientsAssumption

Is(program) == client.command = program

Init ==
  \/ "create" \in Programs /\ Creation!Init
  \/ "push" \in Programs /\ Push!Init
  \/ "edit" \in Programs /\ Edit!Init
  \/ "build" \in Programs /\ Build!Init
  \/ "login" \in Programs /\ Login!Init
  \/ "tokens" \in Programs /\ Sessions!Init
  \/ "turns" \in Programs /\ Turns!Init

Next ==
  \/ Is("create") /\ Creation!Next
  \/ Is("push") /\ Push!Next
  \/ Is("edit") /\ Edit!Next
  \/ Is("build") /\ Build!Next
  \/ Is("login") /\ Login!Next
  \/ Is("tokens") /\ Sessions!Next
  \/ Is("turns") /\ Turns!Next

\* The requests of whatever command runs, and the clock.
Request ==
  \/ Is("create") /\ Creation!Request
  \/ Is("push") /\ Push!Request
  \/ Is("edit") /\ \E e \in Editors : Edit!Step(e)
  \/ Is("build") /\ Build!Request
  \/ Is("login") /\ Login!Step
Clock ==
  \/ Is("create") /\ Creation!Deadline
  \/ Is("build") /\ Build!Tick
  \/ Is("login") /\ Login!Tick

Spec == Init /\ [][Next]_vars /\ WF_vars(Request) /\ WF_vars(Clock)

----------------------------------------------------------------------------
\* Properties.

\* The state of the program that runs has the shapes of its module.
TypeOK ==
  \/ Creation!TypeOK \/ Push!TypeOK \/ Edit!TypeOK \/ Build!TypeOK \/ Login!TypeOK
  \/ Sessions!TypeOK \/ Turns!TypeOK

\* A failed create-from-catalog whose network was created says so (PartialKnMarked).
LeftBehindIsTold == Is("create") => Creation!LeftBehindIsTold

\* The same of every failure, as the comment on PartialKnMarked says it.
PartialKnMarked == Is("create") => Creation!PartialKnMarked

\* A create-from-catalog that succeeded left no table out of the network (listTables).
NoTableMissed == Is("create") => Creation!NoTableMissed

\* A push without a warning lost no binding and no index (lostIndexWarnings).
SilentPushKeeps == Is("push") => Push!SilentPushKeeps

\* A replacement of an entity changes the field it was asked to change alone
\* (updateResource, updateCatalog).
EditChangesItsOwn == [][Is("edit") => Edit!EditChangesOwn]_vars

\* A command that waited for a build exits 0 only if it completed, and gives up only when
\* its time is over (waitAndReport, waitForBuildTask).
ExitTellsBuild == Is("build") => Build!ExitTellsBuild

\* A device login does not time out on a user who approved in time (pollDeviceToken).
ApprovalIsSeen == Is("login") => Login!ApprovalIsSeen

\* The tokens of an app are renewed by one thread at a time (TokenHolder).
AppNoReplay == Is("tokens") => Sessions!AppNoReplay

\* The renewal of a login leaves a way in for the CLI (write_refreshed_token).
KeptIsCurrent == Is("tokens") => Sessions!KeptIsCurrent

\* The turns the client opened are finished, as they went, and no others (finish).
TurnsAreFinished == Is("turns") => Turns!TurnsAreFinished

\* A result is not hidden by the end of its turn, as the comment of finish says.
ResultKept == Is("turns") => Turns!ResultKept

\* No refresh token of a login is spent twice (refreshed_token).
NoReplay == Is("tokens") => Sessions!NoReplay

\* A scope opens one interaction for each network (lifecycle.py).
OneTurnPerNetwork == Is("turns") => Turns!OneTurnPerNetwork

\* Every command ends, but a build that is waited for without a limit; the programs of the
\* Python client go on as long as they like.
CommandsEnd ==
  <>( \/ Is("create") /\ client.at \in {"returned", "threw"}
      \/ Is("push") /\ client.at \in {"returned", "threw"}
      \/ Is("edit") /\ \A e \in Editors : client.at[e] \in {"returned", "threw"}
      \/ Is("build") /\ (client.at = "exited" \/ client.timeout = 0)
      \/ Is("login") /\ client.at \in {"returned", "threw", "timedOut"}
      \/ Is("tokens") \/ Is("turns") )
=============================================================================
