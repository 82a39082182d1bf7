-------------------------- MODULE CommandRunProofs --------------------------
(***************************************************************************)
(* What CommandRun promises of --dry-run and of exit code 0, for any table  *)
(* of commands, any plans and any answers: the proofs read nothing of the   *)
(* table but its three assumptions.  Then, that a table which keeps its     *)
(* sections is kept by every run, and that every command ends.              *)
(***************************************************************************)
EXTENDS CommandRun, TLAPS

\* The plan is one of its command's.
Planned == command \in Commands /\ plan \in Plans(command)

\* Under --dry-run a running command has passed no request that it should have
\* previewed; what it skipped, a catch abandoned (Throw) or nothing sends.
DryInv ==
    dry => /\ \A i \in landed : plan[i].quiet \/ plan[i].does = "keeps"
           /\ exit = -1 => \A i \in DOMAIN plan : i < at => ~Previewable(i)
           /\ exit = 0 => (shown \/ \A i \in DOMAIN plan : ~Previewable(i))
           /\ login.rotated => \E i \in DOMAIN plan : plan[i].quiet

\* The requests a command is about: no catch forgives them.
Due(i) == plan[i].does \in {"acts", "changes"} /\ plan[i].rescue = 0

\* Done, or left undone in a way that the command does not judge.
Settled(i) == i \in landed \/ Unjudged(i)

\* A command that has reported no failure so far has settled all that it passed,
\* and it succeeds only past its last step.
WholeInv ==
    ~dry => /\ (exit \in {-1, 0} /\ ~failed) => \A i \in DOMAIN plan : (i < at /\ Due(i)) => Settled(i)
            /\ exit = 0 => (~failed /\ at \notin DOMAIN plan)

---------------------------------------------------------------------------
\* The steps of a plan are steps (the data of src/commands).
LEMMA StepsOfPlan ==
    ASSUME plan \in Seq(Steps), NEW i \in DOMAIN plan
    PROVE  /\ plan[i] \in Steps /\ plan[i].rescue \in Nat /\ plan[i].does \in Effects
           /\ plan[i].quiet \in BOOLEAN /\ plan[i].partial \subseteq Reports /\ i \in Nat \ {0}
<1>1. plan[i] \in Steps /\ i \in 1..Len(plan) /\ Len(plan) \in Nat
  OBVIOUS
<1>2. QED
  BY <1>1 DEF Steps

\* Past the last step, every step is behind.
LEMMA AllBehind ==
    ASSUME plan \in Seq(Steps), at \in Nat \ {0}, at \notin DOMAIN plan, NEW i \in DOMAIN plan
    PROVE  i < at
<1>1. DOMAIN plan = 1..Len(plan) /\ Len(plan) \in Nat
  OBVIOUS
<1>2. QED
  BY <1>1

\* The steps a catch skips are all in its try block: none has to be previewed,
\* none is due.
LEMMA Abandoned ==
    ASSUME plan \in Seq(Steps), Planned, at \in DOMAIN plan, step.rescue > 0,
           NEW i \in DOMAIN plan, ~(i < at), i < at + step.rescue
    PROVE  plan[i].rescue # 0
<1>1. at \in Nat /\ i \in Nat /\ plan[at].rescue \in Nat /\ plan[i].rescue \in Nat
  BY StepsOfPlan
<1>2. CASE i = at
  BY <1>1, <1>2 DEF step
<1>3. CASE at < i
  <2>1. plan[i].rescue > 0
    BY <1>1, <1>3, TryAssumption DEF Planned, step
  <2>2. QED
    BY <2>1, <1>1
<1>4. QED
  BY <1>1, <1>2, <1>3

\* A throw ends the command with one of its codes or skips the try block.
LEMMA Thrown ==
    ASSUME NEW codes, Throw(codes)
    PROVE  /\ UNCHANGED <<typed, failed>>
           /\ \/ step.rescue = 0 /\ exit' \in codes /\ at' = at
              \/ step.rescue > 0 /\ exit' = exit /\ at' = at + step.rescue
BY DEF Throw, End, Advance

\* What is typed does not change, and only Preview and Finish end a command with
\* ExitCode (runCli, src/cli-run.ts).
LEMMA TypedStays ==
    ASSUME [Next]_vars
    PROVE  typed' = typed
BY DEF Next, vars, RefuseInput, LeaveOut, Keep, RenewBefore, Preview, Answered, AnsweredInPart,
       Refused, Lost, RenewAfter401, Finish, End, Advance, Throw, Running, Asking, Sending, typed

---------------------------------------------------------------------------
\* The type invariant, and the plan stays one of the command's.
LEMMA PlannedStep ==
    ASSUME TypeOK, Planned, [Next]_vars
    PROVE  TypeOK' /\ Planned'
<1>1. Planned' /\ (command \in Commands /\ plan \in Seq(Steps) /\ dry \in BOOLEAN)'
  BY TypedStays DEF Planned, typed, TypeOK
<1>2. typed' = typed
  BY TypedStays
<1>3. DOMAIN plan' = DOMAIN plan
  BY <1>2 DEF typed
<1>4. ASSUME at \in DOMAIN plan
      PROVE  step.rescue \in Nat /\ step.partial \subseteq Reports /\ at \in Nat \ {0}
  BY <1>4, StepsOfPlan DEF TypeOK, step
<1>5. ASSUME at \in DOMAIN plan, NEW codes \in SUBSET {1, 2, 3}, Throw(codes)
      PROVE  (at \in Nat \ {0} /\ failed \in BOOLEAN /\ exit \in {-1, 0, 1, 2, 3})'
  <2>1. CASE step.rescue = 0 /\ exit' \in codes /\ at' = at /\ failed' = failed
    BY <1>5, <2>1 DEF TypeOK
  <2>2. CASE step.rescue > 0 /\ exit' = exit /\ at' = at + step.rescue /\ failed' = failed
    BY <1>4, <1>5, <2>2 DEF TypeOK
  <2>3. QED
    BY <1>5, <2>1, <2>2, Thrown
<1>6. ExitCode \in {0, 1}
  BY DEF ExitCode
<1>7. (at \in Nat \ {0} /\ landed \subseteq DOMAIN plan /\ reported \subseteq (DOMAIN plan) \X Reports
       /\ failed \in BOOLEAN /\ exit \in {-1, 0, 1, 2, 3} /\ shown \in BOOLEAN /\ login \in Logins)'
  <2>1. CASE RefuseInput
    BY <2>1, <1>3 DEF TypeOK, RefuseInput, End
  <2>2. CASE LeaveOut
    BY <2>2, <1>3 DEF TypeOK, LeaveOut, Advance
  <2>3. CASE Keep
    <3>1. at \in DOMAIN plan /\ reported' = reported /\ shown' = shown /\ login' = login
      BY <2>3 DEF Keep, Running
    <3>2. CASE Advance(1) /\ landed' = landed \union {at} /\ UNCHANGED failed
      BY <3>1, <3>2, <1>3 DEF TypeOK, Advance
    <3>3. CASE Throw({1, 2}) /\ UNCHANGED landed
      BY <3>1, <3>3, <1>3, <1>5 DEF TypeOK
    <3>4. QED
      BY <2>3, <3>2, <3>3 DEF Keep
  <2>4. CASE RenewBefore
    BY <2>4, <1>3 DEF TypeOK, RenewBefore, Logins
  <2>5. CASE Preview
    <3>1. at \in DOMAIN plan /\ landed' = landed /\ reported' = reported /\ login' = login
      BY <2>5 DEF Preview, Asking, Running
    <3>2. CASE step.rescue = 0 /\ End(ExitCode) /\ shown' = TRUE
      BY <3>1, <3>2, <1>3, <1>6 DEF TypeOK, End
    <3>3. CASE step.rescue > 0 /\ Advance(step.rescue) /\ UNCHANGED <<failed, shown>>
      BY <3>1, <3>3, <1>3, <1>4 DEF TypeOK, Advance
    <3>4. QED
      BY <2>5, <3>2, <3>3 DEF Preview
  <2>6. CASE Answered
    BY <2>6, <1>3 DEF TypeOK, Answered, Sending, Asking, Running, Advance
  <2>7. CASE AnsweredInPart
    <3>1. at \in DOMAIN plan /\ at' = at + 1 /\ UNCHANGED <<landed, exit, shown, login>>
      BY <2>7 DEF AnsweredInPart, Sending, Asking, Running, Advance
    <3>2. PICK report \in step.partial :
             reported' = reported \union {<<at, report>>} /\ failed' = (failed \/ report \in step.told)
      BY <2>7 DEF AnsweredInPart
    <3>3. reported' \subseteq (DOMAIN plan) \X Reports /\ failed' \in BOOLEAN
      BY <3>1, <3>2, <1>4 DEF TypeOK
    <3>4. QED
      BY <3>1, <3>3, <1>3 DEF TypeOK
  <2>8. CASE Refused
    <3>1. at \in DOMAIN plan /\ UNCHANGED <<landed, reported, shown, login>> /\ Throw({1, 2, 3})
      BY <2>8 DEF Refused, Sending, Asking, Running
    <3>2. QED
      BY <3>1, <1>3, <1>5 DEF TypeOK
  <2>9. CASE Lost
    <3>1. at \in DOMAIN plan /\ UNCHANGED <<reported, shown, login>> /\ Throw({1})
      BY <2>9 DEF Lost, Sending, Asking, Running
    <3>2. landed' \subseteq DOMAIN plan
      BY <2>9, <3>1 DEF Lost, TypeOK
    <3>3. QED
      BY <3>1, <3>2, <1>3, <1>5 DEF TypeOK
  <2>10. CASE RenewAfter401
    BY <2>10, <1>3 DEF TypeOK, RenewAfter401, Logins
  <2>11. CASE Finish
    BY <2>11, <1>3, <1>6 DEF TypeOK, Finish, End
  <2>12. CASE UNCHANGED vars
    BY <2>12 DEF TypeOK, vars, typed
  <2>13. QED
    BY <2>1, <2>2, <2>3, <2>4, <2>5, <2>6, <2>7, <2>8, <2>9, <2>10, <2>11, <2>12 DEF Next
<1>8. QED
  BY <1>1, <1>7 DEF TypeOK

\* Every run starts with a plan of its command, none of it done.
LEMMA PlannedInit ==
    ASSUME Init
    PROVE  TypeOK /\ Planned
<1>1. command \in Commands /\ plan \in Plans(command)
  BY DEF Init
<1>2. plan \in Seq(Steps)
  BY <1>1, PlansAssumption
<1>3. login \in Logins /\ landed \subseteq DOMAIN plan /\ reported \subseteq (DOMAIN plan) \X Reports
  BY DEF Init
<1>4. at = 1 /\ failed = FALSE /\ exit = -1 /\ shown = FALSE /\ dry \in BOOLEAN
  BY DEF Init
<1>5. at \in Nat \ {0} /\ exit \in {-1, 0, 1, 2, 3}
  BY <1>4
<1>6. QED
  BY <1>1, <1>2, <1>3, <1>4, <1>5, Zenon DEF TypeOK, Planned

\* Type correctness of a command's run, for any table of commands.
THEOREM TypeCorrect == Spec => [](TypeOK /\ Planned)
<1>1. QED
  BY PlannedInit, PlannedStep, PTL DEF Spec

---------------------------------------------------------------------------
\* A dry run sends only what is not previewed: the quiet steps.
LEMMA SendsQuiet ==
    ASSUME Sending, dry
    PROVE  step.quiet /\ at \in DOMAIN plan
BY DEF Sending, Asking, Running, Previewed

\* Skipping a try block, or passing one step that needs no preview, keeps the
\* second part of DryInv.
LEMMA PassesNone ==
    ASSUME TypeOK, Planned, at \in DOMAIN plan,
           \A i \in DOMAIN plan : i < at => ~Previewable(i),
           NEW n \in Nat, (n = 1 /\ ~Previewable(at)) \/ (n = step.rescue /\ step.rescue > 0)
    PROVE  \A i \in DOMAIN plan : i < at + n => ~Previewable(i)
<1>1. SUFFICES ASSUME NEW i \in DOMAIN plan, i < at + n, ~(i < at)
               PROVE  ~Previewable(i)
  OBVIOUS
<1>2. at \in Nat /\ i \in Nat /\ plan \in Seq(Steps)
  BY StepsOfPlan DEF TypeOK
<1>3. CASE n = 1 /\ ~Previewable(at)
  <2>1. i = at
    BY <1>1, <1>2, <1>3
  <2>2. QED
    BY <2>1, <1>3
<1>4. CASE n = step.rescue /\ step.rescue > 0
  <2>1. plan[i].rescue # 0
    BY <1>1, <1>2, <1>4, Abandoned
  <2>2. QED
    BY <2>1 DEF Previewable
<1>5. QED
  BY <1>3, <1>4

\* Every step keeps what --dry-run promises.
LEMMA DryStep ==
    ASSUME TypeOK, Planned, DryInv, [Next]_vars
    PROVE  DryInv'
<1>1. SUFFICES ASSUME dry
               PROVE  DryInv'
  <2>1. dry' = dry
    BY TypedStays DEF typed
  <2>2. QED
    BY <2>1, <1>1 DEF DryInv
<1>2. /\ \A i \in landed : plan[i].quiet \/ plan[i].does = "keeps"
      /\ exit = -1 => \A i \in DOMAIN plan : i < at => ~Previewable(i)
      /\ exit = 0 => (shown \/ \A i \in DOMAIN plan : ~Previewable(i))
      /\ login.rotated => \E i \in DOMAIN plan : plan[i].quiet
  BY <1>1 DEF DryInv
<1>3. plan' = plan /\ dry' = dry /\ plan \in Seq(Steps) /\ at \in Nat \ {0}
  BY TypedStays DEF typed, TypeOK
<1>4. \A i : Previewable(i)' <=> Previewable(i)
  BY <1>3 DEF Previewable
<1>5. \A i \in landed' : plan[i].quiet \/ plan[i].does = "keeps"
  <2>1. CASE Keep
    BY <2>1, <1>2 DEF Keep, step
  <2>2. CASE Answered \/ Lost
    <3>1. step.quiet
      BY <2>2, <1>1, SendsQuiet DEF Answered, Lost
    <3>2. landed' \subseteq landed \union {at}
      BY <2>2 DEF Answered, Lost
    <3>3. QED
      BY <3>1, <3>2, <1>2 DEF step
  <2>3. CASE landed' = landed
    BY <2>3, <1>2
  <2>4. QED
    BY <2>1, <2>2, <2>3 DEF Next, vars, RefuseInput, LeaveOut, RenewBefore, Preview, AnsweredInPart,
       Refused, RenewAfter401, Finish
<1>6. login'.rotated => \E i \in DOMAIN plan : plan[i].quiet
  <2>1. CASE RenewBefore
    BY <2>1, <1>1 DEF RenewBefore
  <2>2. CASE RenewAfter401
    BY <2>2, <1>1, SendsQuiet DEF RenewAfter401, step
  <2>3. CASE login' = login
    BY <2>3, <1>2
  <2>4. QED
    BY <2>1, <2>2, <2>3 DEF Next, vars, RefuseInput, LeaveOut, Keep, Preview, Answered, AnsweredInPart,
       Refused, Lost, Finish
<1>7. exit' = -1 => \A i \in DOMAIN plan : i < at' => ~Previewable(i)
  <2>1. CASE exit' = exit /\ at' = at
    BY <2>1, <1>2
  <2>2. CASE exit = -1 /\ at \in DOMAIN plan /\ ~Previewable(at) /\ at' = at + 1
    BY <2>2, <1>2, PassesNone
  <2>3. CASE exit = -1 /\ at \in DOMAIN plan /\ step.rescue > 0 /\ at' = at + step.rescue
    <3>1. step.rescue \in Nat
      BY <2>3, <1>3, StepsOfPlan DEF step
    <3>2. QED
      BY <2>3, <3>1, <1>2, PassesNone
  <2>4. CASE exit' # -1
    BY <2>4
  <2>5. ASSUME NEW codes \in SUBSET {1, 2, 3}, exit = -1, at \in DOMAIN plan, Throw(codes)
        PROVE  exit' # -1 \/ (step.rescue > 0 /\ at' = at + step.rescue)
    BY <2>5, Thrown
  <2>6. ExitCode # -1
    BY DEF ExitCode
  <2>7. ASSUME Sending
        PROVE  exit = -1 /\ at \in DOMAIN plan /\ ~Previewable(at)
    BY <2>7, <1>1, SendsQuiet DEF Sending, Asking, Running, Previewable, step
  <2>8. CASE RefuseInput
    BY <2>8, <2>4 DEF RefuseInput, End
  <2>9. CASE LeaveOut
    BY <2>9, <2>2 DEF LeaveOut, Running, Advance, Previewable, step
  <2>10. CASE Keep
    <3>1. exit = -1 /\ at \in DOMAIN plan /\ ~Previewable(at)
      BY <2>10 DEF Keep, Running, Previewable, step
    <3>2. CASE Advance(1)
      BY <3>1, <3>2, <2>2 DEF Advance
    <3>3. CASE Throw({1, 2})
      BY <3>1, <3>3, <2>3, <2>4, <2>5
    <3>4. QED
      BY <2>10, <3>2, <3>3 DEF Keep
  <2>11. CASE Preview
    BY <2>11, <2>3, <2>4, <2>6 DEF Preview, Asking, Running, End, Advance
  <2>12. CASE Answered \/ AnsweredInPart
    BY <2>12, <2>2, <2>7 DEF Answered, AnsweredInPart, Advance
  <2>13. CASE Refused
    BY <2>13, <2>3, <2>4, <2>5, <2>7 DEF Refused
  <2>14. CASE Lost
    BY <2>14, <2>3, <2>4, <2>5, <2>7 DEF Lost
  <2>15. CASE Finish
    BY <2>15, <2>4, <2>6 DEF Finish, End
  <2>16. CASE RenewBefore \/ RenewAfter401 \/ UNCHANGED vars
    BY <2>16, <2>1 DEF RenewBefore, RenewAfter401, vars
  <2>17. QED
    BY <2>8, <2>9, <2>10, <2>11, <2>12, <2>13, <2>14, <2>15, <2>16 DEF Next
<1>8. exit' = 0 => (shown' \/ \A i \in DOMAIN plan : ~Previewable(i))
  <2>1. CASE exit' # 0
    BY <2>1
  <2>2. CASE exit' = exit /\ shown' = shown
    BY <2>2, <1>2
  <2>3. CASE Preview
    BY <2>3, <2>2 DEF Preview, End, Advance
  <2>4. CASE Finish
    BY <2>4, <1>2, <1>3, AllBehind DEF Finish
  <2>5. ASSUME NEW codes \in SUBSET {1, 2, 3}, Throw(codes)
        PROVE  exit' # 0 \/ exit' = exit
    BY <2>5, Thrown
  <2>6. CASE RefuseInput
    BY <2>6, <2>1 DEF RefuseInput, End
  <2>7. CASE Keep
    BY <2>7, <2>1, <2>2, <2>5 DEF Keep, Advance
  <2>8. CASE Refused
    BY <2>8, <2>1, <2>2, <2>5 DEF Refused
  <2>9. CASE Lost
    BY <2>9, <2>1, <2>2, <2>5 DEF Lost
  <2>10. CASE LeaveOut \/ Answered \/ AnsweredInPart
    BY <2>10, <2>2 DEF LeaveOut, Answered, AnsweredInPart, Advance
  <2>11. CASE RenewBefore \/ RenewAfter401 \/ UNCHANGED vars
    BY <2>11, <2>2 DEF RenewBefore, RenewAfter401, vars
  <2>12. QED
    BY <2>3, <2>4, <2>6, <2>7, <2>8, <2>9, <2>10, <2>11 DEF Next
<1>9. QED
  BY <1>3, <1>4, <1>5, <1>6, <1>7, <1>8 DEF DryInv

\* What --dry-run promises (withoutPreview, previewOnDryRun), for any table.
THEOREM DryRunCorrect == Spec => []DryRunHolds
<1>1. Init => DryInv
  <2>1. SUFFICES ASSUME Init
                 PROVE  DryInv
    OBVIOUS
  <2>2. landed = {} /\ exit = -1 /\ at = 1 /\ ~login.rotated
    BY <2>1 DEF Init
  <2>3. \A i \in DOMAIN plan : ~(i < at)
    BY <2>1, <2>2, PlannedInit, StepsOfPlan DEF TypeOK
  <2>4. QED
    BY <2>2, <2>3 DEF DryInv
<1>2. DryInv => DryRunHolds
  BY DEF DryInv, DryRunHolds
<1>3. QED
  BY <1>1, <1>2, PlannedInit, PlannedStep, DryStep, PTL DEF Spec

---------------------------------------------------------------------------
\* What is settled stays so.
LEMMA StaysSettled ==
    ASSUME landed \subseteq landed', reported \subseteq reported', command' = command
    PROVE  \A i \in DOMAIN plan : Settled(i) => Settled(i)'
BY DEF Settled, Unjudged

\* Passing steps that are settled or not due keeps the first part of WholeInv.
LEMMA PassesDone ==
    ASSUME TypeOK, Planned, at \in DOMAIN plan,
           \A i \in DOMAIN plan : (i < at /\ Due(i)) => Settled(i),
           landed \subseteq landed', reported \subseteq reported', command' = command,
           NEW n \in Nat,
           \/ n = 1 /\ \A i \in DOMAIN plan : (i = at /\ Due(i)) => Settled(i)'
           \/ n = step.rescue /\ step.rescue > 0
    PROVE  \A i \in DOMAIN plan : (i < at + n /\ Due(i)) => Settled(i)'
<1>1. SUFFICES ASSUME NEW i \in DOMAIN plan, i < at + n, ~(i < at), Due(i)
               PROVE  Settled(i)'
  BY StaysSettled
<1>2. at \in Nat /\ i \in Nat /\ plan \in Seq(Steps)
  BY StepsOfPlan DEF TypeOK
<1>3. CASE n = 1 /\ \A j \in DOMAIN plan : (j = at /\ Due(j)) => Settled(j)'
  <2>1. i = at
    BY <1>1, <1>2, <1>3
  <2>2. QED
    BY <2>1, <1>1, <1>3
<1>4. CASE n = step.rescue /\ step.rescue > 0
  <2>1. plan[i].rescue # 0
    BY <1>1, <1>2, <1>4, Abandoned
  <2>2. QED
    BY <2>1, <1>1 DEF Due
<1>5. QED
  BY <1>3, <1>4

\* A failure in the answer to what a command is about is told (toolbox.ts:483),
\* or is one that Untold names for the command.
LEMMA PartIsTold ==
    ASSUME Planned, at \in DOMAIN plan, NEW report \in step.partial, report \notin step.told, Due(at)
    PROVE  <<command, report>> \in Untold
BY ToldAssumption DEF Planned, Due, step

\* Every step keeps what exit code 0 means.
LEMMA WholeStep ==
    ASSUME TypeOK, Planned, WholeInv, [Next]_vars
    PROVE  WholeInv'
<1>1. command' = command /\ plan' = plan /\ dry' = dry
  BY TypedStays DEF typed
<1>2. SUFFICES ASSUME ~dry
               PROVE  /\ (exit' \in {-1, 0} /\ ~failed') =>
                              \A i \in DOMAIN plan : (i < at' /\ Due(i)) => Settled(i)'
                      /\ exit' = 0 => (~failed' /\ at' \notin DOMAIN plan)
  BY <1>1 DEF WholeInv, Due
<1>3. /\ (exit \in {-1, 0} /\ ~failed) => \A i \in DOMAIN plan : (i < at /\ Due(i)) => Settled(i)
      /\ exit = 0 => (~failed /\ at \notin DOMAIN plan)
  BY <1>2 DEF WholeInv
<1>4. CASE exit' \notin {-1, 0}
  BY <1>4
<1>5. CASE exit' = exit /\ at' = at /\ failed' = failed /\ landed' = landed /\ reported' = reported
  BY <1>1, <1>3, <1>5, StaysSettled
<1>6. CASE /\ exit = -1 /\ exit' = -1 /\ at \in DOMAIN plan /\ failed' = failed
           /\ landed \subseteq landed' /\ reported \subseteq reported'
           /\ \/ at' = at + 1 /\ \A i \in DOMAIN plan : (i = at /\ Due(i)) => Settled(i)'
              \/ at' = at + step.rescue /\ step.rescue > 0
  <2>1. step.rescue \in Nat
    BY <1>6, StepsOfPlan DEF TypeOK, step
  <2>2. QED
    BY <1>1, <1>3, <1>6, <2>1, PassesDone
<1>7. ASSUME NEW codes \in SUBSET {1, 2, 3}, Throw(codes), exit = -1
      PROVE  \/ exit' \notin {-1, 0}
             \/ exit' = -1 /\ at' = at + step.rescue /\ step.rescue > 0 /\ failed' = failed
  BY <1>7, Thrown
<1>8. ASSUME Sending
      PROVE  exit = -1 /\ at \in DOMAIN plan
  BY <1>8 DEF Sending, Asking, Running
<1>9. CASE RefuseInput
  BY <1>9, <1>4 DEF RefuseInput, End
<1>10. CASE LeaveOut \/ Preview
  BY <1>10, <1>2 DEF LeaveOut, Preview, Previewed
<1>11. CASE Keep
  <2>1. exit = -1 /\ at \in DOMAIN plan /\ reported' = reported /\ ~Due(at)
    BY <1>11 DEF Keep, Running, Due, step
  <2>2. CASE Advance(1) /\ landed' = landed \union {at} /\ UNCHANGED failed
    BY <2>1, <2>2, <1>6 DEF Advance
  <2>3. CASE Throw({1, 2}) /\ UNCHANGED landed
    BY <2>1, <2>3, <1>4, <1>6, <1>7
  <2>4. QED
    BY <1>11, <2>2, <2>3 DEF Keep
<1>12. CASE Answered
  BY <1>12, <1>6, <1>8 DEF Answered, Advance, Settled
<1>13. CASE AnsweredInPart
  <2>1. exit = -1 /\ exit' = exit /\ at \in DOMAIN plan /\ at' = at + 1 /\ landed' = landed
    BY <1>13, <1>8 DEF AnsweredInPart, Advance
  <2>2. PICK report \in step.partial :
           reported' = reported \union {<<at, report>>} /\ failed' = (failed \/ report \in step.told)
    BY <1>13 DEF AnsweredInPart
  <2>3. CASE failed'
    BY <2>1, <2>3
  <2>4. CASE ~failed'
    <3>1. ~failed /\ report \notin step.told
      BY <2>2, <2>4
    <3>2. report \in Reports
      BY <2>1, StepsOfPlan DEF TypeOK, step
    <3>3. ASSUME NEW i \in DOMAIN plan, i = at, Due(i)
          PROVE  Settled(i)'
      <4>1. <<command, report>> \in Untold
        BY <3>1, <3>3, <2>1, PartIsTold
      <4>2. <<i, report>> \in reported'
        BY <2>2, <3>3
      <4>3. QED
        BY <4>1, <4>2, <3>2, <1>1 DEF Settled, Unjudged
    <3>4. landed \subseteq landed' /\ reported \subseteq reported'
      BY <2>1, <2>2
    <3>5. QED
      BY <3>1, <3>3, <3>4, <2>1, <1>1, <1>3, PassesDone
  <2>5. QED
    BY <2>3, <2>4
<1>14. CASE Refused
  BY <1>14, <1>4, <1>6, <1>7, <1>8 DEF Refused
<1>15. CASE Lost
  <2>1. landed \subseteq landed' /\ reported' = reported
    BY <1>15 DEF Lost
  <2>2. QED
    BY <1>15, <2>1, <1>4, <1>6, <1>7, <1>8 DEF Lost
<1>16. CASE RenewBefore \/ RenewAfter401 \/ UNCHANGED vars
  BY <1>16, <1>5 DEF RenewBefore, RenewAfter401, vars
<1>17. CASE Finish
  <2>1. /\ exit = -1 /\ at \notin DOMAIN plan /\ exit' = ExitCode
        /\ UNCHANGED <<at, failed, landed, reported>>
    BY <1>17 DEF Finish, End
  <2>2. QED
    BY <2>1, <1>1, <1>3, StaysSettled DEF ExitCode
<1>18. QED
  BY <1>9, <1>10, <1>11, <1>12, <1>13, <1>14, <1>15, <1>16, <1>17 DEF Next

\* Exit code 0 means that all is done, for any table whose failures in an answer
\* are judged or named (ToldAssumption) and whose catches are whole (TryAssumption).
THEOREM WholeCorrect == Spec => []SuccessIsWhole
<1>1. Init => WholeInv
  <2>1. SUFFICES ASSUME Init
                 PROVE  WholeInv
    OBVIOUS
  <2>2. exit = -1 /\ at = 1
    BY <2>1 DEF Init
  <2>3. \A i \in DOMAIN plan : ~(i < at)
    BY <2>1, <2>2, PlannedInit, StepsOfPlan DEF TypeOK
  <2>4. QED
    BY <2>2, <2>3 DEF WholeInv
<1>2. (TypeOK /\ WholeInv) => SuccessIsWhole
  <2>1. SUFFICES ASSUME TypeOK, WholeInv, exit = 0, ~dry, NEW i \in DOMAIN plan, Due(i)
                 PROVE  Settled(i)
    BY DEF SuccessIsWhole, Due, Settled
  <2>2. ~failed /\ at \notin DOMAIN plan
    BY <2>1 DEF WholeInv
  <2>3. i < at
    BY <2>1, <2>2, AllBehind DEF TypeOK
  <2>4. QED
    BY <2>1, <2>2, <2>3 DEF WholeInv
<1>3. QED
  BY <1>1, <1>2, PlannedInit, PlannedStep, WholeStep, PTL DEF Spec

---------------------------------------------------------------------------
\* The plans of a command do what its section allows, where the section allows
\* less than everything.
PlansKeepSections ==
    \A c \in Commands \ ByCaller : Section(c) \in DOMAIN Allowed =>
        \A p \in Plans(c) : \A i \in DOMAIN p : p[i].does \in Allowed[Section(c)]

\* What lands are steps of the one plan that was typed, so a table that keeps its
\* sections is kept by every run, whatever is refused, lost, sent again or skipped
\* (SECTION_MEANINGS).  That the table of the CLI does is what the run shows.
THEOREM SectionsCorrect == ASSUME PlansKeepSections PROVE Spec => []SectionsHold
<1>1. (TypeOK /\ Planned) => SectionsHold
  <2>1. SUFFICES ASSUME TypeOK, Planned, Section(command) \in DOMAIN Allowed, command \notin ByCaller,
                        NEW i \in landed
                 PROVE  plan[i].does \in Allowed[Section(command)]
    BY DEF SectionsHold
  <2>2. i \in DOMAIN plan /\ plan \in Plans(command) /\ command \in Commands \ ByCaller
    BY <2>1 DEF TypeOK, Planned
  <2>3. QED
    BY <2>1, <2>2 DEF PlansKeepSections
<1>2. QED
  BY <1>1, TypeCorrect, PTL

---------------------------------------------------------------------------
\* A token is renewed at most twice: before a request, and after the 401 that the
\* renewed one still gets.
Renewals == [old |-> 2, dead |-> 1, good |-> 0]

\* How many steps a command has left at most.
StepsLeft ==
    IF exit # -1 THEN 0
    ELSE 1 + Renewals[login.token] + (IF at \in DOMAIN plan THEN Len(plan) + 1 - at ELSE 0)

\* Every step brings the command nearer to its exit code, and it takes none after.
Dwindle == [][StepsLeft' < StepsLeft]_vars
LeftIsBounded == StepsLeft \in 0..(Len(plan) + 3) /\ (StepsLeft = 0 <=> exit # -1)

LEMMA RenewalFacts == Renewals["old"] = 2 /\ Renewals["dead"] = 1 /\ Renewals["good"] = 0
BY DEF Renewals

\* What StepsLeft ranges over, at each position of a plan.
LEMMA LeftTypes ==
    ASSUME NEW p \in Seq(Steps), NEW n \in Nat \ {0}, NEW t \in {"good", "old", "dead"}
    PROVE  /\ Renewals[t] \in 0..2 /\ Len(p) \in Nat
           /\ n \in DOMAIN p => n <= Len(p)
           /\ n \notin DOMAIN p => n > Len(p)
<1>1. DOMAIN p = 1..Len(p) /\ Len(p) \in Nat
  OBVIOUS
<1>2. QED
  BY <1>1, RenewalFacts

LEMMA LeftBounds ==
    ASSUME TypeOK
    PROVE  LeftIsBounded
<1>1. plan \in Seq(Steps) /\ at \in Nat \ {0} /\ login.token \in {"good", "old", "dead"}
  BY DEF TypeOK, Logins
<1>2. /\ Renewals[login.token] \in 0..2 /\ Len(plan) \in Nat
      /\ at \in DOMAIN plan => at <= Len(plan)
  BY <1>1, LeftTypes
<1>3. QED
  BY <1>1, <1>2 DEF LeftIsBounded, StepsLeft

\* A step that ends the command, goes on in the plan, or renews the token.
LEMMA StepFalls ==
    ASSUME TypeOK, TypeOK', plan' = plan, exit = -1,
           \/ exit' # -1
           \/ /\ exit' = -1 /\ at \in DOMAIN plan /\ at' > at
              /\ login' = login
           \/ /\ exit' = -1 /\ at' = at
              /\ Renewals[login'.token] < Renewals[login.token]
    PROVE  StepsLeft' < StepsLeft
<1>1. /\ plan \in Seq(Steps) /\ at \in Nat \ {0} /\ login.token \in {"good", "old", "dead"}
      /\ at' \in Nat \ {0} /\ login'.token \in {"good", "old", "dead"}
  BY DEF TypeOK, Logins
<1>2. /\ Renewals[login.token] \in 0..2 /\ Renewals[login'.token] \in 0..2 /\ Len(plan) \in Nat
      /\ at \in DOMAIN plan => at <= Len(plan)
      /\ at' \in DOMAIN plan => at' <= Len(plan)
  BY <1>1, LeftTypes
<1>3. CASE exit' # -1
  BY <1>1, <1>2, <1>3 DEF StepsLeft
<1>4. CASE exit' = -1 /\ at \in DOMAIN plan /\ at' > at /\ login' = login
  BY <1>1, <1>2, <1>4 DEF StepsLeft
<1>5. CASE exit' = -1 /\ at' = at /\ Renewals[login'.token] < Renewals[login.token]
  BY <1>1, <1>2, <1>5 DEF StepsLeft
<1>6. QED
  BY <1>3, <1>4, <1>5

\* Every step of a command is one of these.
LEMMA StepMoves ==
    ASSUME TypeOK, Next
    PROVE  /\ exit = -1
           /\ \/ exit' # -1
              \/ exit' = -1 /\ at \in DOMAIN plan /\ at' > at /\ login' = login
              \/ exit' = -1 /\ at' = at /\ Renewals[login'.token] < Renewals[login.token]
<1>1. at \in Nat \ {0} /\ plan \in Seq(Steps) /\ login \in Logins
  BY DEF TypeOK
<1>2. ASSUME at \in DOMAIN plan
      PROVE  step.rescue \in Nat
  BY <1>1, <1>2, StepsOfPlan DEF step
<1>3. ASSUME NEW codes \in SUBSET {1, 2, 3}, Throw(codes), at \in DOMAIN plan, exit = -1
      PROVE  exit' # -1 \/ (exit' = -1 /\ at' > at)
  BY <1>1, <1>2, <1>3, Thrown
<1>4. ASSUME Sending
      PROVE  exit = -1 /\ at \in DOMAIN plan
  BY <1>4 DEF Sending, Asking, Running
<1>5. CASE RefuseInput \/ Finish
  BY <1>5 DEF RefuseInput, Finish, End, ExitCode
<1>6. CASE LeaveOut
  BY <1>1, <1>6 DEF LeaveOut, Running, Advance
<1>7. CASE Keep
  <2>1. exit = -1 /\ at \in DOMAIN plan /\ login' = login
    BY <1>7 DEF Keep, Running
  <2>2. CASE Advance(1)
    BY <1>1, <2>1, <2>2 DEF Advance
  <2>3. CASE Throw({1, 2})
    BY <1>3, <2>1, <2>3
  <2>4. QED
    BY <1>7, <2>2, <2>3 DEF Keep
<1>8. CASE RenewBefore
  <2>1. exit = -1 /\ login.token = "old" /\ exit' = exit /\ at' = at
    BY <1>8 DEF RenewBefore, Asking, Running
  <2>2. login'.token \in {"good", "dead"}
    BY <1>1, <1>8 DEF RenewBefore, Logins
  <2>3. QED
    BY <2>1, <2>2, RenewalFacts
<1>9. CASE Preview
  <2>1. exit = -1 /\ at \in DOMAIN plan /\ login' = login
    BY <1>9 DEF Preview, Asking, Running
  <2>2. CASE End(ExitCode)
    BY <2>1, <2>2 DEF End, ExitCode
  <2>3. CASE step.rescue > 0 /\ Advance(step.rescue)
    BY <1>1, <1>2, <2>1, <2>3 DEF Advance
  <2>4. QED
    BY <1>9, <2>2, <2>3 DEF Preview
<1>10. CASE Answered \/ AnsweredInPart
  BY <1>1, <1>4, <1>10 DEF Answered, AnsweredInPart, Advance
<1>11. CASE Refused \/ Lost
  <2>1. login' = login /\ exit = -1 /\ at \in DOMAIN plan
    BY <1>4, <1>11 DEF Refused, Lost
  <2>2. \E codes \in SUBSET {1, 2, 3} : Throw(codes)
    BY <1>11 DEF Refused, Lost
  <2>3. QED
    BY <1>3, <2>1, <2>2
<1>12. CASE RenewAfter401
  <2>1. exit = -1 /\ login.token \in {"old", "dead"} /\ exit' = exit /\ at' = at
    BY <1>1, <1>4, <1>12 DEF RenewAfter401, Logins
  <2>2. login'.token = "good"
    BY <1>1, <1>12 DEF RenewAfter401, Logins
  <2>3. QED
    BY <2>1, <2>2, RenewalFacts
<1>13. QED
  BY <1>5, <1>6, <1>7, <1>8, <1>9, <1>10, <1>11, <1>12 DEF Next

\* A command of any table ends: after at most as many steps as its plan has, two
\* renewals and its exit, and after that it does nothing (runCli, authFetch).
THEOREM StepsDwindle == Spec => Dwindle /\ []LeftIsBounded
<1>1. (TypeOK /\ TypeOK' /\ [Next]_vars) => [StepsLeft' < StepsLeft]_vars
  <2>1. SUFFICES ASSUME TypeOK, TypeOK', Next
                 PROVE  StepsLeft' < StepsLeft
    OBVIOUS
  <2>2. plan' = plan
    BY <2>1, TypedStays DEF typed
  <2>3. QED
    BY <2>1, <2>2, StepFalls, StepMoves
<1>2. Spec => [][StepsLeft' < StepsLeft]_vars
  BY <1>1, TypeCorrect, PTL DEF Spec
<1>3. TypeOK => LeftIsBounded
  BY LeftBounds
<1>4. Spec => []LeftIsBounded
  BY <1>3, TypeCorrect, PTL
<1>5. QED
  BY <1>2, <1>4 DEF Dwindle
=============================================================================
