------------------------------- MODULE BuildWait -------------------------------
(***************************************************************************)
(* Building the index of a resource and waiting for it: build and          *)
(* waitForBuildTask in src/resources/vega.ts, waitAndReport in             *)
(* src/commands/vega.ts (`vega resource build --wait`, `vega build-task    *)
(* get --wait`).                                                           *)
(*                                                                         *)
(* Time passes in ticks, between any two steps.  The task moves on the     *)
(* platform; others may stop it or start it again.                         *)
(***************************************************************************)
EXTENDS Naturals

CONSTANTS
  Timeouts,  \* the values of --timeout, in ticks; 0 is no limit
  Interval,  \* intervalMs, in ticks
  MaxTime,   \* the clock stops counting here
  MaxStarts  \* how often others start an ended task again

\* What is assumed of the constants.
WaitAssumption ==
  /\ Timeouts \subseteq Nat /\ Interval \in Nat \ {0} /\ MaxStarts \in Nat
  /\ MaxTime \in Nat /\ \A t \in Timeouts : t + Interval < MaxTime

VARIABLES client, server
vars == <<client, server>>

\* TERMINAL_STATES.  An unknown state, and none, is not one of them.
Ended == {"completed", "failed", "stopped", "cancelled"}
States == Ended \cup {"pending", "running", "stopping", "unknown"}

\* Mutant of Unsuccessful: only a failed task is.
UnsuccessfulIfFailed(state) == state = "failed"

\* isBuildTaskDone, isBuildTaskUnsuccessful.
Done(state) == state \in Ended
Unsuccessful(state) == Done(state) /\ state # "completed"

\* The command may create the task or wait for one that is there.
Init ==
  \E creates, wait \in BOOLEAN, timeout \in Timeouts, state \in States :
    /\ client = [command |-> "build", at |-> IF creates THEN "create" ELSE "start",
                 wait |-> wait, timeout |-> timeout, wakes |-> 0, deadline |-> timeout,
                 last |-> "pending", overran |-> FALSE, exit |-> 0]
    /\ server = [state |-> IF creates THEN "pending" ELSE state, now |-> 0, starts |-> 0]

Exit(last, code) == client' = [client EXCEPT !.at = "exited", !.last = last, !.exit = code]

\* createBuildTask.
Create ==
  /\ client.at = "create"
  /\ IF client.wait THEN client' = [client EXCEPT !.at = "start"] ELSE Exit("pending", 0)
  /\ UNCHANGED server

\* The wait starts its clock and asks at once.
Start ==
  /\ client.at = "start"
  /\ client' = [client EXCEPT !.at = "ask", !.deadline = server.now + client.timeout]
  /\ UNCHANGED server

Limited == client.timeout > 0
Remaining == IF client.deadline > server.now THEN client.deadline - server.now ELSE 0

\* The time is over.
Over == Limited /\ Remaining = 0

\* The next poll: after the interval, or at the deadline if that is sooner.
Wakes == server.now + (IF Limited /\ Remaining < Interval THEN Remaining ELSE Interval)

\* getBuildTask, which takes no time here, and what is made of its answer: an ended task
\* is reported (waitAndReport), the deadline is looked at, or the wait sleeps.
Ask ==
  /\ client.at = "ask" /\ server.now >= client.wakes
  /\ LET state == server.state
     IN  CASE ~client.wait -> Exit(state, 0)
           [] client.wait /\ Done(state) -> Exit(state, IF Unsuccessful(state) THEN 1 ELSE 0)
           [] client.wait /\ ~Done(state) /\ Over ->
                client' = [client EXCEPT !.at = "exited", !.last = state, !.exit = 1,
                                         !.overran = TRUE]
           [] OTHER -> client' = [client EXCEPT !.last = state, !.wakes = Wakes]
  /\ UNCHANGED server

\* Any request may fail, the creation with or without its effect: the command fails.
RequestFails ==
  /\ client.at \in {"create", "ask"}
  /\ Exit(client.last, 1)
  /\ UNCHANGED server

Request == Create \/ Start \/ Ask

\* The clock, up to its bound.
Tick ==
  /\ client.at = "ask" /\ server.now < MaxTime
  /\ server' = [server EXCEPT !.now = @ + 1]
  /\ UNCHANGED client

\* The task runs to its end; others stop it.
TaskMoves ==
  /\ client.at # "exited" /\ ~Done(server.state)
  /\ \E state \in States \ {server.state, "pending"} : server' = [server EXCEPT !.state = state]
  /\ UNCHANGED client

Restarted ==
  /\ client.at # "exited" /\ Done(server.state) /\ server.starts < MaxStarts
  /\ server' = [server EXCEPT !.state = "pending", !.starts = @ + 1]
  /\ UNCHANGED client

Next == Request \/ RequestFails \/ Tick \/ TaskMoves \/ Restarted
Fairness == WF_vars(Request) /\ WF_vars(Tick)
Spec == Init /\ [][Next]_vars /\ Fairness

----------------------------------------------------------------------------
\* Properties.

\* The state of the wait and of the task has the shapes of waitForBuildTask.
TypeOK ==
  /\ client \in
       [command : {"build"}, at : {"create", "start", "ask", "exited"}, wait : BOOLEAN,
        timeout : Timeouts, wakes : Nat, deadline : Nat, last : States, overran : BOOLEAN,
        exit : {0, 1}]
  /\ server \in [state : States, now : 0..MaxTime, starts : 0..MaxStarts]

\* A command that waited exits 0 only for a task that completed (waitAndReport: a wait
\* that failed, was stopped or outlived its limit must not read as built), and it gives up
\* only on a task it found unfinished when the time was over.
ExitTellsBuild ==
  (client.at = "exited" /\ client.wait) =>
    /\ client.exit = 0 => client.last = "completed"
    /\ client.overran => ~Done(client.last) /\ server.now >= client.deadline

\* A wait with a limit ends, whatever the task does.
LimitedWaitEnds == <>(client.at = "exited" \/ client.timeout = 0)
=============================================================================
