------------------------ MODULE OperationAttemptsProofs ------------------------
(***************************************************************************)
(* Proofs about OperationAttempts for every set of calls and every choice  *)
(* of their maxAttempts.  One inductive invariant, IInv, carries them all. *)
(***************************************************************************)
EXTENDS OperationAttempts, TLAPS

\* An operation that is not registered has no attempt.
AttemptShape == op.status = "absent" <=> op.attempt = 0

\* A call that owns the pending attempt owns the one Core has pending, alone.
OneHolder ==
  \A c \in Calls : Holding(c) =>
    /\ op.status = "pending" /\ op.attempt = current[c].attempt
    /\ current[c].status = "pending"
    /\ \A d \in Calls : Holding(d) => d = c

\* Where the callback has run: never in a later attempt than Core's, not in one
\* that is still to be claimed, and not yet for a call about to execute.
RunsBehind ==
  /\ \A n \in Ordinals : n > op.attempt => runs[n] = 0
  /\ op.status = "ready" => runs[op.attempt] = 0
  /\ \A c \in Calls : pc[c] = "decide" /\ Authorized(c) => runs[current[c].attempt] = 0

\* The operation is closed to executions for good.
Closed ==
  \/ op.status = "completed"
  \/ op.status = "failed" /\ ~op.retryable
  \/ op.status = "pending" /\ \A c \in Calls : ~Holding(c)

\* A call that ended with its value, or with a final error, closed it.
EndsClosed ==
  \A c \in Calls :
    /\ outcome[c] # "none" <=> pc[c] = "done"
    /\ outcome[c] = "value" => Closed
    /\ pc[c] = "done" /\ caught[c] /\ ~retryable[c] => Closed
    /\ caught[c] => pc[c] \in {"failing", "retry", "ensure", "done"}
    /\ caught[c] /\ pc[c] \in {"retry", "ensure"} => retryable[c]

\* Where a "completed" comes from.
CompletedMeans ==
  /\ op.status = "completed" => \E c \in Calls : outcome[c] = "value"
  /\ \A c \in Calls : current[c].status = "completed" => op.status = "completed"
  /\ \A c \in Calls : returned[c] = "completed" => op.status = "completed"

IInv ==
  /\ TypeOK
  /\ AttemptShape
  /\ OneHolder
  /\ RunsBehind
  /\ OneRunPerAttempt
  /\ EndsClosed
  /\ CompletedMeans
  /\ RunsAreRecorded

\* What Core's records look like, for the type invariant.
LEMMA CoreTypes ==
  ASSUME TypeOK, AttemptShape
  PROVE  /\ Ensured \in Attempts /\ Ensured.status \in Statuses
         /\ EnsureAnswer \in Results
         /\ LaggingAnswers \subseteq Results
         /\ Retried \in Attempts
  <1> USE AttemptLimitAssumption, LaggingAssumption
      DEF TypeOK, AttemptShape, Attempts, Results, Ordinals, Statuses
  <1>1. Ensured \in Attempts /\ Ensured.status \in Statuses
    BY DEF Ensured
  <1>2. EnsureAnswer \in Results
    BY <1>1 DEF EnsureAnswer
  <1>3. LaggingAnswers \subseteq Results
    <2>1. SUFFICES ASSUME op.status = "ready"
                   PROVE  [attempt |-> op.attempt - 1, status |-> "failed",
                           retryable |-> TRUE, execute |-> FALSE] \in Results
      BY DEF LaggingAnswers
    <2>2. op.attempt - 1 \in {0} \cup Ordinals
      BY <2>1
    <2>3. QED
      BY <2>2
  <1>4. Retried \in Attempts
    BY DEF Retried, MayRetry
  <1>5. QED
    BY <1>1, <1>2, <1>3, <1>4

\* A step of one call leaves what the others hold alone.
LEMMA Frame ==
  ASSUME TypeOK, NEW c \in Calls, Step(c), NEW d \in Calls, d # c
  PROVE  /\ pc'[d] = pc[d] /\ current'[d] = current[d] /\ caught'[d] = caught[d]
         /\ retryable'[d] = retryable[d] /\ outcome'[d] = outcome[d] /\ returned'[d] = returned[d]
         /\ Holding(d)' <=> Holding(d)
  BY DEF TypeOK, Step, EnsureAnswered, EnsureLagged, DidNotAdvance, EnsureLost, Recover, GiveUp,
     TryAgain, Refuse, Execute, ExecuteReturns, ExecuteThrows, CompleteAnswered, CompleteLost,
     FailAnswered, FailLost, RetryAnswered, RetryLost, Look, Move, End, Throw, Holding

\* A step other than the start of an execution keeps every receipt, and a call
\* that lets go of its attempt has recorded one for it.
LEMMA StepRecords ==
  ASSUME TypeOK, AttemptShape, OneHolder, NEW c \in Calls, Step(c)
  PROVE  /\ \A n \in Ordinals : receipts[n] # "none" => receipts'[n] # "none"
         /\ \A n \in Ordinals : runs'[n] > runs[n] => Holding(c)' /\ current'[c].attempt = n
         /\ Holding(c) => \/ Holding(c)' /\ current'[c] = current[c]
                          \/ receipts'[current[c].attempt] # "none"
  <1> USE DEF TypeOK, AttemptShape, OneHolder, Holding, Authorized, Record, Move, End, Throw, Look, LastReceipt,
              Attempts, Results, Ordinals, Statuses
  <1>1. CASE EnsureAnswered(c)
    BY <1>1 DEF EnsureAnswered
  <1>2. CASE EnsureLagged(c)
    BY <1>2 DEF EnsureLagged
  <1>3. CASE DidNotAdvance(c)
    BY <1>3 DEF DidNotAdvance
  <1>4. CASE EnsureLost(c)
    BY <1>4 DEF EnsureLost
  <1>5. CASE Recover(c)
    BY <1>5 DEF Recover
  <1>6. CASE GiveUp(c)
    BY <1>6 DEF GiveUp
  <1>7. CASE TryAgain(c)
    BY <1>7 DEF TryAgain
  <1>8. CASE Refuse(c)
    <2>1. ~Holding(c)
      BY <1>8 DEF Refuse
    <2>2. receipts' = receipts /\ runs' = runs
      BY <1>8 DEF Refuse
    <2>3. QED
      BY <2>1, <2>2
  <1>9. CASE Execute(c)
    BY <1>9 DEF Execute
  <1>10. CASE ExecuteReturns(c)
    BY <1>10 DEF ExecuteReturns
  <1>11. CASE ExecuteThrows(c)
    BY <1>11 DEF ExecuteThrows
  <1>12. CASE CompleteAnswered(c)
    <2>1. current[c].attempt \in Ordinals
      BY <1>12 DEF CompleteAnswered
    <2>2. receipts' = [receipts EXCEPT ![current[c].attempt] = "completed"] /\ runs' = runs
      BY <1>12 DEF CompleteAnswered
    <2>3. QED
      BY <2>1, <2>2
  <1>13. CASE CompleteLost(c)
    BY <1>13 DEF CompleteLost
  <1>14. CASE FailAnswered(c)
    BY <1>14 DEF FailAnswered
  <1>15. CASE FailLost(c)
    BY <1>15 DEF FailLost
  <1>16. CASE RetryAnswered(c)
    BY <1>16 DEF RetryAnswered
  <1>17. CASE RetryLost(c)
    BY <1>17 DEF RetryLost
  <1>18. QED
    BY <1>1, <1>2, <1>3, <1>4, <1>5, <1>6, <1>7, <1>8, <1>9, <1>10, <1>11,
       <1>12, <1>13, <1>14, <1>15, <1>16, <1>17 DEF Step

\* Each step keeps the types.
LEMMA StepTypeOK ==
  ASSUME IInv, NEW c \in Calls, Step(c) PROVE TypeOK'
  <1> USE AttemptLimitAssumption
      DEF IInv, TypeOK, Ordinals, Statuses, Steps, Outcomes, Attempts, Results,
          Move, End, Throw, Record, Look, Authorized, Advanced, LastReceipt,
          AttemptShape, OneHolder, Holding
  <1>1. CASE EnsureAnswered(c)
    BY <1>1, CoreTypes DEF EnsureAnswered
  <1>2. CASE EnsureLagged(c)
    BY <1>2, CoreTypes DEF EnsureLagged
  <1>3. CASE DidNotAdvance(c)
    BY <1>3, CoreTypes DEF DidNotAdvance
  <1>4. CASE EnsureLost(c)
    BY <1>4, CoreTypes DEF EnsureLost
  <1>5. CASE Recover(c)
    BY <1>5 DEF Recover
  <1>6. CASE GiveUp(c)
    BY <1>6 DEF GiveUp
  <1>7. CASE TryAgain(c)
    BY <1>7 DEF TryAgain
  <1>8. CASE Refuse(c)
    BY <1>8 DEF Refuse
  <1>9. CASE Execute(c)
    BY <1>9 DEF Execute
  <1>10. CASE ExecuteReturns(c)
    BY <1>10 DEF ExecuteReturns
  <1>11. CASE ExecuteThrows(c)
    BY <1>11 DEF ExecuteThrows
  <1>12. CASE CompleteAnswered(c)
    BY <1>12 DEF CompleteAnswered, Finished
  <1>13. CASE CompleteLost(c)
    BY <1>13 DEF CompleteLost, Finished
  <1>14. CASE FailAnswered(c)
    <2>1. op' \in Attempts
      BY <1>14 DEF FailAnswered, Finished
    <2>2. receipts' \in [Ordinals -> Statuses \cup {"none"}]
      BY <1>14 DEF FailAnswered
    <2>3. CASE Move(c, "retry") /\ UNCHANGED <<outcome, returned>>
      BY <1>14, <2>1, <2>2, <2>3 DEF FailAnswered
    <2>4. CASE End(c, "executeError", "none")
      BY <1>14, <2>1, <2>2, <2>4 DEF FailAnswered
    <2>5. QED
      BY <1>14, <2>3, <2>4 DEF FailAnswered
  <1>15. CASE FailLost(c)
    <2>1. op' \in Attempts
      <3>1. retryable[c] \in BOOLEAN
        OBVIOUS
      <3>2. [op EXCEPT !.status = "failed", !.retryable = retryable[c]] \in Attempts
        BY <3>1
      <3>3. QED
        BY <1>15, <3>2 DEF FailLost, Finished
    <2>2. receipts' \in [Ordinals -> Statuses \cup {"none"}]
      BY <1>15 DEF FailLost
    <2>3. pc' \in [Calls -> Steps]
      BY <1>15 DEF FailLost
    <2>4. outcome' \in [Calls -> Outcomes]
      BY <1>15 DEF FailLost
    <2>5. returned' \in [Calls -> Statuses \cup {"none"}]
      BY <1>15 DEF FailLost
    <2>6. QED
      BY <1>15, <2>1, <2>2, <2>3, <2>4, <2>5 DEF FailLost
  <1>16. CASE RetryAnswered(c)
    BY <1>16, CoreTypes DEF RetryAnswered
  <1>17. CASE RetryLost(c)
    BY <1>17, CoreTypes DEF RetryLost
  <1>18. QED
    BY <1>1, <1>2, <1>3, <1>4, <1>5, <1>6, <1>7, <1>8, <1>9, <1>10, <1>11,
       <1>12, <1>13, <1>14, <1>15, <1>16, <1>17 DEF Step

\* Each step keeps a receipt for every execution that is over.
LEMMA StepRunsAreRecorded ==
  ASSUME IInv, NEW c \in Calls, Step(c) PROVE RunsAreRecorded'
  <1>1. SUFFICES ASSUME NEW n \in Ordinals, runs'[n] > 0, receipts'[n] = "none"
                 PROVE  \E d \in Calls : Holding(d)' /\ current'[d].attempt = n
    BY DEF RunsAreRecorded
  <1> USE StepRecords, Frame DEF IInv
  <1>2. CASE runs'[n] > runs[n]
    BY <1>1, <1>2
  <1>3. CASE ~(runs'[n] > runs[n])
    <2>1. PICK d \in Calls : Holding(d) /\ current[d].attempt = n
      <3>1. runs[n] > 0 /\ receipts[n] = "none"
        BY <1>1, <1>3, StepTypeOK DEF TypeOK
      <3>2. QED
        BY <3>1 DEF RunsAreRecorded
    <2>2. CASE d = c
      BY <1>1, <2>1, <2>2
    <2>3. CASE d # c
      BY <2>1, <2>3
    <2>4. QED
      BY <2>2, <2>3
  <1>4. QED
    BY <1>2, <1>3

\* What TypeOK and RunsAreRecorded leave of the invariant.
Rest == AttemptShape /\ OneHolder /\ RunsBehind /\ OneRunPerAttempt /\ EndsClosed /\ CompletedMeans

\* An ensure that throws: its claim, if it made one, is nobody's.
LEMMA EnsureThrows ==
  ASSUME IInv, NEW c \in Calls, pc[c] = "ensure", op' \in {op, Ensured}, Step(c),
         NEW e \in {"OperationFailed", "traceError"}, Throw(c, e),
         UNCHANGED <<current, caught, retryable, receipts, runs>>
  PROVE  Rest'
  <1> USE AttemptLimitAssumption, Frame
      DEF IInv, TypeOK, Ordinals, Statuses, Steps, Outcomes, Attempts, Results, Move, End, Throw
  <1>1. CASE op' = op
    <2>1. AttemptShape'
      BY <1>1 DEF AttemptShape
    <2>2. OneHolder'
      BY <1>1 DEF OneHolder, Holding
    <2>3. RunsBehind' /\ OneRunPerAttempt'
      BY <1>1 DEF RunsBehind, OneRunPerAttempt, Authorized, AttemptShape,
         Holding, OneHolder
    <2>4. EndsClosed'
      BY <1>1 DEF EndsClosed, Closed, Holding, OneHolder
    <2>5. CompletedMeans'
      BY <1>1 DEF CompletedMeans, EndsClosed
    <2>6. QED
      BY <2>1, <2>2, <2>3, <2>4, <2>5 DEF Rest
  <1>2. CASE op.status \in {"absent", "ready"} /\ op' = Ensured
    <2>1. AttemptShape'
      BY <1>2 DEF Ensured, AttemptShape
    <2>2. OneHolder'
      BY <1>2 DEF Ensured, OneHolder, Holding
    <2>3. RunsBehind' /\ OneRunPerAttempt'
      BY <1>2 DEF Ensured, RunsBehind, OneRunPerAttempt, Authorized,
         AttemptShape, Holding, OneHolder
    <2>4. EndsClosed'
      BY <1>2 DEF Ensured, EndsClosed, Closed, Holding, OneHolder
    <2>5. CompletedMeans'
      BY <1>2 DEF Ensured, CompletedMeans, EndsClosed
    <2>6. QED
      BY <2>1, <2>2, <2>3, <2>4, <2>5 DEF Rest
  <1>3. QED
    BY <1>1, <1>2 DEF Ensured

\* Each step keeps the rest of the invariant.
LEMMA StepRest == ASSUME IInv, NEW c \in Calls, Step(c) PROVE Rest'
  <1> USE AttemptLimitAssumption, Frame
      DEF IInv, TypeOK, Ordinals, Statuses, Steps, Outcomes, Attempts, Results,
          Move, End, Throw, Record, Look, Authorized, Advanced, LastReceipt
  <1>1. CASE EnsureAnswered(c)
    <2>1. CASE op.status \in {"absent", "ready"}
      <3>1. AttemptShape'
        BY <1>1, <2>1 DEF EnsureAnswered, Ensured, EnsureAnswer,
           AttemptShape, OneHolder, Holding
      <3>2. OneHolder'
        BY <1>1, <2>1 DEF EnsureAnswered, Ensured, EnsureAnswer, OneHolder,
           Holding, AttemptShape
      <3>3. RunsBehind' /\ OneRunPerAttempt'
        BY <1>1, <2>1 DEF EnsureAnswered, Ensured, EnsureAnswer, RunsBehind,
           OneRunPerAttempt, Authorized, AttemptShape, Holding, OneHolder
      <3>4. EndsClosed'
        BY <1>1, <2>1 DEF EnsureAnswered, Ensured, EnsureAnswer, EndsClosed,
           Closed, Holding, OneHolder
      <3>5. CompletedMeans'
        BY <1>1, <2>1 DEF EnsureAnswered, Ensured, EnsureAnswer,
           CompletedMeans, EndsClosed, OneHolder, Holding, Closed
      <3>6. QED
        BY <3>1, <3>2, <3>3, <3>4, <3>5 DEF Rest
    <2>2. CASE op.status \notin {"absent", "ready"}
      <3>a. Ensured = op
        BY <2>2 DEF Ensured
      <3>b. EnsureAnswer = [attempt |-> op.attempt, status |-> op.status,
                            retryable |-> op.retryable, execute |-> FALSE]
        <4>1. (op.status \in {"absent", "ready"}) = FALSE
          BY <2>2
        <4>2. QED
          BY <3>a, <4>1 DEF EnsureAnswer
      <3>0. op' = op /\ current'[c] = [attempt |-> op.attempt, status |-> op.status,
                                       retryable |-> op.retryable, execute |-> FALSE]
        BY <1>1, <3>a, <3>b DEF EnsureAnswered
      <3>1. AttemptShape'
        BY <1>1, <2>2, <3>0 DEF EnsureAnswered, AttemptShape, OneHolder,
           Holding
      <3>2. OneHolder'
        BY <1>1, <2>2, <3>0 DEF EnsureAnswered, OneHolder, Holding,
           AttemptShape
      <3>3. RunsBehind' /\ OneRunPerAttempt'
        BY <1>1, <2>2, <3>0 DEF EnsureAnswered, RunsBehind, OneRunPerAttempt,
           Authorized, AttemptShape, Holding, OneHolder
      <3>4. EndsClosed'
        BY <1>1, <2>2, <3>0 DEF EnsureAnswered, EndsClosed, Closed, Holding,
           OneHolder
      <3>5. CompletedMeans'
        BY <1>1, <2>2, <3>0 DEF EnsureAnswered, CompletedMeans, EndsClosed,
           OneHolder, Holding, Closed
      <3>6. QED
        BY <3>1, <3>2, <3>3, <3>4, <3>5 DEF Rest
    <2>3. QED
      BY <2>1, <2>2
  <1>2. CASE EnsureLagged(c)
    <2>1. AttemptShape'
      BY <1>2 DEF EnsureLagged, LaggingAnswers, AttemptShape, OneHolder,
         Holding
    <2>2. OneHolder'
      BY <1>2 DEF EnsureLagged, LaggingAnswers, OneHolder, Holding,
         AttemptShape
    <2>3. RunsBehind' /\ OneRunPerAttempt'
      BY <1>2 DEF EnsureLagged, LaggingAnswers, RunsBehind, OneRunPerAttempt,
         Authorized, AttemptShape, Holding, OneHolder
    <2>4. EndsClosed'
      BY <1>2 DEF EnsureLagged, LaggingAnswers, EndsClosed, Closed, Holding,
         OneHolder
    <2>5. CompletedMeans'
      BY <1>2 DEF EnsureLagged, LaggingAnswers, CompletedMeans, EndsClosed,
         OneHolder, Holding, Closed
    <2>6. QED
      BY <2>1, <2>2, <2>3, <2>4, <2>5 DEF Rest
  <1>3. CASE DidNotAdvance(c)
    BY <1>3, EnsureThrows DEF DidNotAdvance
  <1>4. CASE EnsureLost(c)
    BY <1>4, EnsureThrows DEF EnsureLost
  <1>5. CASE Recover(c)
    <2>1. AttemptShape'
      BY <1>5 DEF Recover, AttemptShape, OneHolder, Holding
    <2>2. OneHolder'
      BY <1>5 DEF Recover, OneHolder, Holding, AttemptShape
    <2>3. RunsBehind' /\ OneRunPerAttempt'
      BY <1>5 DEF Recover, RunsBehind, OneRunPerAttempt, Authorized,
         AttemptShape, Holding, OneHolder
    <2>4. EndsClosed'
      BY <1>5 DEF Recover, EndsClosed, Closed, Holding, OneHolder
    <2>5. CompletedMeans'
      BY <1>5 DEF Recover, CompletedMeans, EndsClosed, OneHolder, Holding,
         Closed
    <2>6. QED
      BY <2>1, <2>2, <2>3, <2>4, <2>5 DEF Rest
  <1>6. CASE GiveUp(c)
    <2>1. AttemptShape'
      BY <1>6 DEF GiveUp, AttemptShape, OneHolder, Holding
    <2>2. OneHolder'
      BY <1>6 DEF GiveUp, OneHolder, Holding, AttemptShape
    <2>3. RunsBehind' /\ OneRunPerAttempt'
      BY <1>6 DEF GiveUp, RunsBehind, OneRunPerAttempt, Authorized,
         AttemptShape, Holding, OneHolder
    <2>4. EndsClosed'
      BY <1>6 DEF GiveUp, EndsClosed, Closed, Holding, OneHolder
    <2>5. CompletedMeans'
      BY <1>6 DEF GiveUp, CompletedMeans, EndsClosed, OneHolder, Holding,
         Closed
    <2>6. QED
      BY <2>1, <2>2, <2>3, <2>4, <2>5 DEF Rest
  <1>7. CASE TryAgain(c)
    <2>1. AttemptShape'
      BY <1>7 DEF TryAgain, AttemptShape, OneHolder, Holding
    <2>2. OneHolder'
      BY <1>7 DEF TryAgain, OneHolder, Holding, AttemptShape
    <2>3. RunsBehind' /\ OneRunPerAttempt'
      BY <1>7 DEF TryAgain, RunsBehind, OneRunPerAttempt, Authorized,
         AttemptShape, Holding, OneHolder
    <2>4. EndsClosed'
      BY <1>7 DEF TryAgain, EndsClosed, Closed, Holding, OneHolder
    <2>5. CompletedMeans'
      BY <1>7 DEF TryAgain, CompletedMeans, EndsClosed, OneHolder, Holding,
         Closed
    <2>6. QED
      BY <2>1, <2>2, <2>3, <2>4, <2>5 DEF Rest
  <1>8. CASE Refuse(c)
    <2>1. AttemptShape'
      BY <1>8 DEF Refuse, AttemptShape, OneHolder, Holding
    <2>2. OneHolder'
      BY <1>8 DEF Refuse, OneHolder, Holding, AttemptShape
    <2>3. RunsBehind' /\ OneRunPerAttempt'
      BY <1>8 DEF Refuse, RunsBehind, OneRunPerAttempt, Authorized,
         AttemptShape, Holding, OneHolder
    <2>4. EndsClosed'
      BY <1>8 DEF Refuse, EndsClosed, Closed, Holding, OneHolder
    <2>5. CompletedMeans'
      BY <1>8 DEF Refuse, CompletedMeans, EndsClosed, OneHolder, Holding,
         Closed
    <2>6. QED
      BY <2>1, <2>2, <2>3, <2>4, <2>5 DEF Rest
  <1>9. CASE Execute(c)
    <2>1. AttemptShape'
      BY <1>9 DEF Execute, AttemptShape, OneHolder, Holding
    <2>2. OneHolder'
      BY <1>9 DEF Execute, OneHolder, Holding, AttemptShape
    <2>3. RunsBehind' /\ OneRunPerAttempt'
      BY <1>9 DEF Execute, RunsBehind, OneRunPerAttempt, Authorized,
         AttemptShape, Holding, OneHolder
    <2>4. EndsClosed'
      BY <1>9 DEF Execute, EndsClosed, Closed, Holding, OneHolder
    <2>5. CompletedMeans'
      BY <1>9 DEF Execute, CompletedMeans, EndsClosed, OneHolder, Holding,
         Closed
    <2>6. QED
      BY <2>1, <2>2, <2>3, <2>4, <2>5 DEF Rest
  <1>10. CASE ExecuteReturns(c)
    <2>1. AttemptShape'
      BY <1>10 DEF ExecuteReturns, AttemptShape, OneHolder, Holding
    <2>2. OneHolder'
      BY <1>10 DEF ExecuteReturns, OneHolder, Holding, AttemptShape
    <2>3. RunsBehind' /\ OneRunPerAttempt'
      BY <1>10 DEF ExecuteReturns, RunsBehind, OneRunPerAttempt, Authorized,
         AttemptShape, Holding, OneHolder
    <2>4. EndsClosed'
      BY <1>10 DEF ExecuteReturns, EndsClosed, Closed, Holding, OneHolder
    <2>5. CompletedMeans'
      BY <1>10 DEF ExecuteReturns, CompletedMeans, EndsClosed, OneHolder,
         Holding, Closed
    <2>6. QED
      BY <2>1, <2>2, <2>3, <2>4, <2>5 DEF Rest
  <1>11. CASE ExecuteThrows(c)
    <2>1. AttemptShape'
      BY <1>11 DEF ExecuteThrows, AttemptShape, OneHolder, Holding
    <2>2. OneHolder'
      BY <1>11 DEF ExecuteThrows, OneHolder, Holding, AttemptShape
    <2>3. RunsBehind' /\ OneRunPerAttempt'
      BY <1>11 DEF ExecuteThrows, RunsBehind, OneRunPerAttempt, Authorized,
         AttemptShape, Holding, OneHolder
    <2>4. EndsClosed'
      BY <1>11 DEF ExecuteThrows, EndsClosed, Closed, Holding, OneHolder
    <2>5. CompletedMeans'
      BY <1>11 DEF ExecuteThrows, CompletedMeans, EndsClosed, OneHolder,
         Holding, Closed
    <2>6. QED
      BY <2>1, <2>2, <2>3, <2>4, <2>5 DEF Rest
  <1>12. CASE CompleteAnswered(c)
    <2>1. AttemptShape'
      BY <1>12 DEF CompleteAnswered, Finished, AttemptShape, OneHolder,
         Holding
    <2>2. OneHolder'
      BY <1>12 DEF CompleteAnswered, Finished, OneHolder, Holding,
         AttemptShape
    <2>3. RunsBehind' /\ OneRunPerAttempt'
      BY <1>12 DEF CompleteAnswered, Finished, RunsBehind, OneRunPerAttempt,
         Authorized, AttemptShape, Holding, OneHolder
    <2>4. EndsClosed'
      BY <1>12 DEF CompleteAnswered, Finished, EndsClosed, Closed, Holding,
         OneHolder
    <2>5. CompletedMeans'
      BY <1>12 DEF CompleteAnswered, Finished, CompletedMeans, EndsClosed,
         OneHolder, Holding, Closed
    <2>6. QED
      BY <2>1, <2>2, <2>3, <2>4, <2>5 DEF Rest
  <1>13. CASE CompleteLost(c)
    <2>1. CASE op' = op
      <3>1. AttemptShape'
        BY <1>13, <2>1 DEF CompleteLost, AttemptShape, OneHolder, Holding
      <3>2. OneHolder'
        BY <1>13, <2>1 DEF CompleteLost, OneHolder, Holding, AttemptShape
      <3>3. RunsBehind' /\ OneRunPerAttempt'
        BY <1>13, <2>1 DEF CompleteLost, RunsBehind, OneRunPerAttempt,
           Authorized, AttemptShape, Holding, OneHolder
      <3>4. EndsClosed'
        BY <1>13, <2>1 DEF CompleteLost, EndsClosed, Closed, Holding,
           OneHolder
      <3>5. CompletedMeans'
        BY <1>13, <2>1 DEF CompleteLost, CompletedMeans, EndsClosed,
           OneHolder, Holding, Closed
      <3>6. QED
        BY <3>1, <3>2, <3>3, <3>4, <3>5 DEF Rest
    <2>2. CASE op' = Finished(current[c].attempt, "completed", FALSE)
      <3>1. AttemptShape'
        BY <1>13, <2>2 DEF CompleteLost, Finished, AttemptShape, OneHolder,
           Holding
      <3>2. OneHolder'
        BY <1>13, <2>2 DEF CompleteLost, Finished, OneHolder, Holding,
           AttemptShape
      <3>3. RunsBehind' /\ OneRunPerAttempt'
        BY <1>13, <2>2 DEF CompleteLost, Finished, RunsBehind,
           OneRunPerAttempt, Authorized, AttemptShape, Holding, OneHolder
      <3>4. EndsClosed'
        BY <1>13, <2>2 DEF CompleteLost, Finished, EndsClosed, Closed,
           Holding, OneHolder
      <3>5. CompletedMeans'
        BY <1>13, <2>2 DEF CompleteLost, Finished, CompletedMeans,
           EndsClosed, OneHolder, Holding, Closed
      <3>6. QED
        BY <3>1, <3>2, <3>3, <3>4, <3>5 DEF Rest
    <2>3. QED
      BY <1>13, <2>1, <2>2 DEF CompleteLost
  <1>14. CASE FailAnswered(c)
    <2>1. AttemptShape'
      BY <1>14 DEF FailAnswered, Finished, AttemptShape, OneHolder, Holding
    <2>2. OneHolder'
      BY <1>14 DEF FailAnswered, Finished, OneHolder, Holding, AttemptShape
    <2>3. RunsBehind' /\ OneRunPerAttempt'
      BY <1>14 DEF FailAnswered, Finished, RunsBehind, OneRunPerAttempt,
         Authorized, AttemptShape, Holding, OneHolder
    <2>4. EndsClosed'
      BY <1>14 DEF FailAnswered, Finished, EndsClosed, Closed, Holding,
         OneHolder
    <2>5. CompletedMeans'
      BY <1>14 DEF FailAnswered, Finished, CompletedMeans, EndsClosed,
         OneHolder, Holding, Closed
    <2>6. QED
      BY <2>1, <2>2, <2>3, <2>4, <2>5 DEF Rest
  <1>15. CASE FailLost(c)
    <2>1. CASE op' = op
      <3>1. AttemptShape'
        BY <1>15, <2>1 DEF FailLost, AttemptShape, OneHolder, Holding
      <3>2. OneHolder'
        BY <1>15, <2>1 DEF FailLost, OneHolder, Holding, AttemptShape
      <3>3. RunsBehind' /\ OneRunPerAttempt'
        BY <1>15, <2>1 DEF FailLost, RunsBehind, OneRunPerAttempt,
           Authorized, AttemptShape, Holding, OneHolder
      <3>4. EndsClosed'
        BY <1>15, <2>1 DEF FailLost, EndsClosed, Closed, Holding, OneHolder
      <3>5. CompletedMeans'
        BY <1>15, <2>1 DEF FailLost, CompletedMeans, EndsClosed, OneHolder,
           Holding, Closed
      <3>6. QED
        BY <3>1, <3>2, <3>3, <3>4, <3>5 DEF Rest
    <2>2. CASE op' = Finished(current[c].attempt, "failed", retryable[c])
      <3>1. AttemptShape'
        BY <1>15, <2>2 DEF FailLost, Finished, AttemptShape, OneHolder,
           Holding
      <3>2. OneHolder'
        BY <1>15, <2>2 DEF FailLost, Finished, OneHolder, Holding,
           AttemptShape
      <3>3. RunsBehind' /\ OneRunPerAttempt'
        BY <1>15, <2>2 DEF FailLost, Finished, RunsBehind, OneRunPerAttempt,
           Authorized, AttemptShape, Holding, OneHolder
      <3>4. EndsClosed'
        BY <1>15, <2>2 DEF FailLost, Finished, EndsClosed, Closed, Holding,
           OneHolder
      <3>5. CompletedMeans'
        BY <1>15, <2>2 DEF FailLost, Finished, CompletedMeans, EndsClosed,
           OneHolder, Holding, Closed
      <3>6. QED
        BY <3>1, <3>2, <3>3, <3>4, <3>5 DEF Rest
    <2>3. QED
      BY <1>15, <2>1, <2>2 DEF FailLost
  <1>16. CASE RetryAnswered(c)
    <2>1. AttemptShape'
      BY <1>16 DEF RetryAnswered, Retried, MayRetry, AttemptShape, OneHolder,
         Holding
    <2>2. OneHolder'
      BY <1>16 DEF RetryAnswered, Retried, MayRetry, OneHolder, Holding,
         AttemptShape
    <2>3. RunsBehind' /\ OneRunPerAttempt'
      BY <1>16 DEF RetryAnswered, Retried, MayRetry, RunsBehind,
         OneRunPerAttempt, Authorized, AttemptShape, Holding, OneHolder
    <2>4. EndsClosed'
      BY <1>16 DEF RetryAnswered, Retried, MayRetry, EndsClosed, Closed,
         Holding, OneHolder
    <2>5. CompletedMeans'
      BY <1>16 DEF RetryAnswered, Retried, MayRetry, CompletedMeans,
         EndsClosed, OneHolder, Holding, Closed
    <2>6. QED
      BY <2>1, <2>2, <2>3, <2>4, <2>5 DEF Rest
  <1>17. CASE RetryLost(c)
    <2>1. CASE op' = op
      <3>1. AttemptShape'
        BY <1>17, <2>1 DEF RetryLost, AttemptShape, OneHolder, Holding
      <3>2. OneHolder'
        BY <1>17, <2>1 DEF RetryLost, OneHolder, Holding, AttemptShape
      <3>3. RunsBehind' /\ OneRunPerAttempt'
        BY <1>17, <2>1 DEF RetryLost, RunsBehind, OneRunPerAttempt,
           Authorized, AttemptShape, Holding, OneHolder
      <3>4. EndsClosed'
        BY <1>17, <2>1 DEF RetryLost, EndsClosed, Closed, Holding, OneHolder
      <3>5. CompletedMeans'
        <4>1. \A d \in Calls : outcome[d] = "value" => outcome'[d] = "value"
          BY <1>17 DEF RetryLost, EndsClosed
        <4>2. QED
          BY <1>17, <2>1, <4>1 DEF RetryLost, CompletedMeans
      <3>6. QED
        BY <3>1, <3>2, <3>3, <3>4, <3>5 DEF Rest
    <2>2. CASE op' = Retried
      <3>1. AttemptShape'
        BY <1>17, <2>2 DEF RetryLost, Retried, MayRetry, AttemptShape,
           OneHolder, Holding
      <3>2. OneHolder'
        BY <1>17, <2>2 DEF RetryLost, Retried, MayRetry, OneHolder, Holding,
           AttemptShape
      <3>3. RunsBehind' /\ OneRunPerAttempt'
        BY <1>17, <2>2 DEF RetryLost, Retried, MayRetry, RunsBehind,
           OneRunPerAttempt, Authorized, AttemptShape, Holding, OneHolder
      <3>4. EndsClosed'
        BY <1>17, <2>2 DEF RetryLost, Retried, MayRetry, EndsClosed, Closed,
           Holding, OneHolder
      <3>5. CompletedMeans'
        <4>1. CASE MayRetry
          <5>1. op.status = "failed" /\ op'.status = "ready"
            BY <2>2, <4>1 DEF MayRetry, Retried
          <5>2. \A d \in Calls :
                  current[d].status # "completed" /\ returned[d] # "completed"
            BY <5>1 DEF CompletedMeans
          <5>3. \A d \in Calls : returned'[d] # "completed"
            BY <1>17, <5>2 DEF RetryLost
          <5>4. current' = current
            BY <1>17 DEF RetryLost
          <5>5. QED
            BY <5>1, <5>2, <5>3, <5>4 DEF CompletedMeans
        <4>2. CASE ~MayRetry
          <5>1. op' = op
            BY <2>2, <4>2 DEF Retried
          <5>2. \A d \in Calls : outcome[d] = "value" => outcome'[d] = "value"
            BY <1>17 DEF RetryLost, EndsClosed
          <5>3. QED
            BY <1>17, <5>1, <5>2 DEF RetryLost, CompletedMeans
        <4>3. QED
          BY <4>1, <4>2
      <3>6. QED
        BY <3>1, <3>2, <3>3, <3>4, <3>5 DEF Rest
    <2>3. QED
      BY <1>17, <2>1, <2>2 DEF RetryLost
  <1>18. QED
    BY <1>1, <1>2, <1>3, <1>4, <1>5, <1>6, <1>7, <1>8, <1>9, <1>10, <1>11,
       <1>12, <1>13, <1>14, <1>15, <1>16, <1>17 DEF Step

\* The calls start in the invariant.
LEMMA InitIInv == Init => IInv
  BY AttemptLimitAssumption
     DEF Init, IInv, TypeOK, AttemptShape, OneHolder, RunsBehind, OneRunPerAttempt, EndsClosed,
         CompletedMeans, RunsAreRecorded, Holding, Authorized, Closed, Unasked, Attempts, Results,
         Ordinals, Steps, Statuses, Outcomes

\* Every step of the calls keeps it.
LEMMA NextIInv == IInv /\ [Next]_vars => IInv'
  <1>1. SUFFICES ASSUME IInv, [Next]_vars PROVE IInv'
    OBVIOUS
  <1>2. CASE Next
    BY <1>1, <1>2, StepTypeOK, StepRunsAreRecorded, StepRest DEF Next, IInv, Rest
  <1>3. CASE UNCHANGED vars
    BY <1>1, <1>3 DEF IInv, TypeOK, AttemptShape, OneHolder, RunsBehind, OneRunPerAttempt,
       EndsClosed, CompletedMeans, RunsAreRecorded, Holding, Authorized, Closed, vars
  <1>4. QED
    BY <1>1, <1>2, <1>3

\* The inductive invariant holds of every behaviour of the calls.
THEOREM Invariance == Spec => []IInv
  BY InitIInv, NextIInv, PTL DEF Spec

\* Every state of the operation, of the calls and of the receipts has its type.
THEOREM TypeCorrect == Spec => []TypeOK
  BY Invariance, PTL DEF IInv

\* The callback runs at most once per attempt, for any number of calls.
THEOREM RunsOnce == Spec => []OneRunPerAttempt
  BY Invariance, PTL DEF IInv

\* An execution that is over has left a receipt in the scope.
THEOREM Recorded == Spec => []RunsAreRecorded
  BY Invariance, PTL DEF IInv

\* A receipt a caller gets back as completed is one Core has completed.
THEOREM Truthful == Spec => []ReceiptTellsTruth
  <1>1. IInv => ReceiptTellsTruth
    BY DEF IInv, CompletedMeans, ReceiptTellsTruth, Succeeded
  <1>2. QED
    BY Invariance, <1>1, PTL

--------------------------------------------------------------------------------
\* The refinement.

Running == \E c \in Calls : pc[c] = "executing"

\* While a call holds the pending attempt, nobody else runs the callback, and it
\* has neither returned nor failed for good, unless in that call.
LEMMA HolderAlone ==
  ASSUME IInv, NEW c \in Calls, Holding(c)
  PROVE  /\ \A d \in Calls : pc[d] = "executing" => d = c
         /\ Succeeded => pc[c] = "completing"
         /\ Failed => pc[c] = "failing"
  <1>1. op.status = "pending" /\ \A d \in Calls : Holding(d) => d = c
    BY DEF IInv, OneHolder
  <1>2. ~Closed
    BY <1>1 DEF Closed
  <1>3. \A d \in Calls : pc[d] = "executing" => d = c
    BY <1>1 DEF Holding
  <1>4. Succeeded => pc[c] = "completing"
    BY <1>1, <1>2 DEF Succeeded, Holding, IInv, EndsClosed
  <1>5. Failed => pc[c] = "failing"
    BY <1>1, <1>2 DEF Failed, Holding, IInv, EndsClosed
  <1>6. QED
    BY <1>3, <1>4, <1>5

\* Each step of a call is a step of the promise, or leaves the phase alone.
LEMMA PhaseStep ==
  ASSUME IInv, NEW c \in Calls, Step(c)
  PROVE  Promise!Next \/ UNCHANGED Phase
  <1> USE Frame DEF IInv, TypeOK, EndsClosed
  <1>1. CASE Execute(c)
    <2>1. Holding(c) /\ pc[c] = "decide"
      BY <1>1 DEF Execute, Authorized, Holding
    <2>2. Phase = "ready"
      BY <2>1, HolderAlone DEF Phase
    <2>3. ~Succeeded' /\ Running'
      BY <1>1, <2>1, HolderAlone DEF Execute, Move, Succeeded, Running
    <2>4. Phase' = "running"
      BY <2>3 DEF Phase, Running
    <2>5. QED
      BY <2>2, <2>4 DEF Promise!Next, Promise!Start
  <1>2. CASE ExecuteReturns(c)
    <2>1. Holding(c) /\ pc[c] = "executing"
      BY <1>2 DEF ExecuteReturns, Holding
    <2>2. Phase = "running"
      BY <2>1, HolderAlone DEF Phase
    <2>3. Succeeded'
      BY <1>2 DEF ExecuteReturns, Move, Succeeded
    <2>4. Phase' = "succeeded"
      BY <2>3 DEF Phase
    <2>5. QED
      BY <2>2, <2>4 DEF Promise!Next, Promise!Succeed
  <1>3. CASE ExecuteThrows(c)
    <2>1. Holding(c) /\ pc[c] = "executing"
      BY <1>3 DEF ExecuteThrows, Holding
    <2>2. Phase = "running"
      BY <2>1, HolderAlone DEF Phase
    <2>3. ~Succeeded' /\ ~Running'
      BY <1>3, <2>1, HolderAlone DEF ExecuteThrows, Move, Succeeded, Running
    <2>4. QED
      BY <2>2, <2>3 DEF Phase, Running, Promise!Next, Promise!Fail
  <1>4. CASE EnsureAnswered(c)
    <2>1. Succeeded' = Succeeded
      BY <1>4 DEF EnsureAnswered, Look, Move, End, Throw, Succeeded
    <2>2. Running' = Running
      BY <1>4 DEF EnsureAnswered, Look, Move, End, Throw, Running
    <2>3. Failed' = Failed
      BY <1>4 DEF EnsureAnswered, Look, Move, End, Throw, Failed
    <2>4. QED
      BY <2>1, <2>2, <2>3 DEF Phase, Running
  <1>5. CASE EnsureLagged(c)
    <2>1. Succeeded' = Succeeded
      BY <1>5 DEF EnsureLagged, Look, Move, End, Throw, Succeeded
    <2>2. Running' = Running
      BY <1>5 DEF EnsureLagged, Look, Move, End, Throw, Running
    <2>3. Failed' = Failed
      BY <1>5 DEF EnsureLagged, Look, Move, End, Throw, Failed
    <2>4. QED
      BY <2>1, <2>2, <2>3 DEF Phase, Running
  <1>6. CASE DidNotAdvance(c)
    <2>1. Succeeded' = Succeeded
      BY <1>6 DEF DidNotAdvance, Move, End, Throw, Succeeded
    <2>2. Running' = Running
      BY <1>6 DEF DidNotAdvance, Move, End, Throw, Running
    <2>3. Failed' = Failed
      BY <1>6 DEF DidNotAdvance, Move, End, Throw, Failed
    <2>4. QED
      BY <2>1, <2>2, <2>3 DEF Phase, Running
  <1>7. CASE EnsureLost(c)
    <2>1. Succeeded' = Succeeded
      BY <1>7 DEF EnsureLost, Move, End, Throw, Succeeded
    <2>2. Running' = Running
      BY <1>7 DEF EnsureLost, Move, End, Throw, Running
    <2>3. Failed' = Failed
      BY <1>7 DEF EnsureLost, Move, End, Throw, Failed
    <2>4. QED
      BY <2>1, <2>2, <2>3 DEF Phase, Running
  <1>8. CASE Recover(c)
    <2>1. Succeeded' = Succeeded
      BY <1>8 DEF Recover, Move, End, Throw, Succeeded
    <2>2. Running' = Running
      BY <1>8 DEF Recover, Move, End, Throw, Running
    <2>3. Failed' = Failed
      BY <1>8 DEF Recover, Move, End, Throw, Failed
    <2>4. QED
      BY <2>1, <2>2, <2>3 DEF Phase, Running
  <1>9. CASE GiveUp(c)
    <2>1. Succeeded' = Succeeded
      BY <1>9 DEF GiveUp, Move, End, Throw, Succeeded
    <2>2. Running' = Running
      BY <1>9 DEF GiveUp, Move, End, Throw, Running
    <2>3. Failed' = Failed
      BY <1>9 DEF GiveUp, Move, End, Throw, Failed
    <2>4. QED
      BY <2>1, <2>2, <2>3 DEF Phase, Running
  <1>10. CASE TryAgain(c)
    <2>1. Succeeded' = Succeeded
      BY <1>10 DEF TryAgain, Move, End, Throw, Succeeded
    <2>2. Running' = Running
      BY <1>10 DEF TryAgain, Move, End, Throw, Running
    <2>3. Failed' = Failed
      BY <1>10 DEF TryAgain, Move, End, Throw, Failed
    <2>4. QED
      BY <2>1, <2>2, <2>3 DEF Phase, Running
  <1>11. CASE Refuse(c)
    <2>1. Succeeded' = Succeeded
      BY <1>11 DEF Refuse, Move, End, Throw, Succeeded
    <2>2. Running' = Running
      BY <1>11 DEF Refuse, Move, End, Throw, Running
    <2>3. Failed' = Failed
      BY <1>11 DEF Refuse, Move, End, Throw, Failed
    <2>4. QED
      BY <2>1, <2>2, <2>3 DEF Phase, Running
  <1>12. CASE CompleteAnswered(c)
    <2>1. Succeeded' = Succeeded
      BY <1>12 DEF CompleteAnswered, Move, End, Throw, Succeeded
    <2>2. Running' = Running
      BY <1>12 DEF CompleteAnswered, Move, End, Throw, Running
    <2>3. Failed' = Failed
      BY <1>12 DEF CompleteAnswered, Move, End, Throw, Failed
    <2>4. QED
      BY <2>1, <2>2, <2>3 DEF Phase, Running
  <1>13. CASE CompleteLost(c)
    <2>1. Succeeded' = Succeeded
      BY <1>13 DEF CompleteLost, Move, End, Throw, Succeeded
    <2>2. Running' = Running
      BY <1>13 DEF CompleteLost, Move, End, Throw, Running
    <2>3. Failed' = Failed
      BY <1>13 DEF CompleteLost, Move, End, Throw, Failed
    <2>4. QED
      BY <2>1, <2>2, <2>3 DEF Phase, Running
  <1>14. CASE FailAnswered(c)
    <2>1. Succeeded' = Succeeded
      BY <1>14 DEF FailAnswered, Move, End, Throw, Succeeded
    <2>2. Running' = Running
      BY <1>14 DEF FailAnswered, Move, End, Throw, Running
    <2>3. Failed' = Failed
      BY <1>14 DEF FailAnswered, Move, End, Throw, Failed
    <2>4. QED
      BY <2>1, <2>2, <2>3 DEF Phase, Running
  <1>15. CASE FailLost(c)
    <2>1. Succeeded' = Succeeded
      BY <1>15 DEF FailLost, Move, End, Throw, Succeeded
    <2>2. Running' = Running
      BY <1>15 DEF FailLost, Move, End, Throw, Running
    <2>3. Failed' = Failed
      BY <1>15 DEF FailLost, Move, End, Throw, Failed
    <2>4. QED
      BY <2>1, <2>2, <2>3 DEF Phase, Running
  <1>16. CASE RetryAnswered(c)
    <2>1. Succeeded' = Succeeded
      BY <1>16 DEF RetryAnswered, Move, End, Throw, Succeeded
    <2>2. Running' = Running
      BY <1>16 DEF RetryAnswered, Move, End, Throw, Running
    <2>3. Failed' = Failed
      BY <1>16 DEF RetryAnswered, Move, End, Throw, Failed
    <2>4. QED
      BY <2>1, <2>2, <2>3 DEF Phase, Running
  <1>17. CASE RetryLost(c)
    <2>1. Succeeded' = Succeeded
      BY <1>17 DEF RetryLost, Move, End, Throw, Succeeded
    <2>2. Running' = Running
      BY <1>17 DEF RetryLost, Move, End, Throw, Running
    <2>3. Failed' = Failed
      BY <1>17 DEF RetryLost, Move, End, Throw, Failed
    <2>4. QED
      BY <2>1, <2>2, <2>3 DEF Phase, Running
  <1>18. QED
    BY <1>1, <1>2, <1>3, <1>4, <1>5, <1>6, <1>7, <1>8, <1>9, <1>10, <1>11,
       <1>12, <1>13, <1>14, <1>15, <1>16, <1>17 DEF Step

\* Every behaviour of the calls is, for the callback, one of OperationPromise.
THEOREM Implements == Spec => KeepsPromise
  <1>1. Init => Promise!Init
    BY DEF Init, Promise!Init, Phase, Succeeded, Failed
  <1>2. IInv /\ [Next]_vars => [Promise!Next]_Phase
    <2>1. SUFFICES ASSUME IInv, [Next]_vars PROVE Promise!Next \/ UNCHANGED Phase
      OBVIOUS
    <2>2. CASE Next
      BY <2>1, <2>2, PhaseStep DEF Next
    <2>3. CASE UNCHANGED vars
      BY <2>3 DEF vars, Phase, Succeeded, Failed
    <2>4. QED
      BY <2>1, <2>2, <2>3
  <1>3. QED
    BY <1>1, <1>2, Invariance, PTL DEF Spec, KeepsPromise, Promise!Spec

--------------------------------------------------------------------------------
\* What is left of a call, which is what CallsEnd rests on.

\* The attempts a call may still look at before it gives up.
AttemptsLeft(c) ==
  IF current[c].attempt < MaxAttempts[c] THEN MaxAttempts[c] - current[c].attempt ELSE 0

\* The steps that follow in one round of the loop.
InRound == [decide |-> 5, executing |-> 4, completing |-> 3, failing |-> 3, retry |-> 2,
            ensure |-> 1]

\* The most steps a call can still make.
StepsLeft(c) == IF pc[c] = "done" THEN 0 ELSE 5 * AttemptsLeft(c) + InRound[pc[c]]

\* A call asks for another attempt only while it has one left, and knows what to
\* do with every answer it looks at.
InLoop(c) ==
  /\ pc[c] \in {"ensure", "retry"} => current[c].attempt < MaxAttempts[c]
  /\ pc[c] \notin {"ensure", "done"} => current[c].attempt > 0
  /\ pc[c] = "decide" => current[c].status \in Statuses

\* A call is over when nothing is left of it, and never goes round its loop more
\* than maxAttempts times, whatever the other calls and Core do.
LoopIsBounded ==
  \A c \in Calls :
    /\ InLoop(c)
    /\ StepsLeft(c) \in 0 .. 5 * MaxAttempts[c] + 1
    /\ StepsLeft(c) = 0 <=> pc[c] = "done"

\* Each step is one of a call that has fewer left after it, and costs the others
\* nothing: that Core "did not advance" ends the call is what makes it so.
Dwindle ==
  [][\E c \in Calls :
       /\ StepsLeft(c)' < StepsLeft(c)
       /\ \A d \in Calls \ {c} : StepsLeft(d)' = StepsLeft(d)]_vars

\* A round that starts with a later attempt leaves one fewer.
LEMMA LaterAttempt ==
  ASSUME NEW m \in Nat, NEW a \in Nat, NEW b \in Nat, a < m, a < b
  PROVE  (IF b < m THEN m - b ELSE 0) < (IF a < m THEN m - a ELSE 0)
  OBVIOUS

\* The attempts are numbered.
LEMMA AttemptTypes ==
  ASSUME TypeOK, NEW c \in Calls
  PROVE  current[c].attempt \in Nat /\ MaxAttempts[c] \in Nat
  <1>1. current[c] \in Results
    BY DEF TypeOK
  <1>2. current[c].attempt \in {0} \cup Ordinals
    BY <1>1 DEF Results
  <1>3. MaxAttempts[c] \in 1 .. 10
    BY MaxAttemptsAssumption
  <1>4. QED
    BY <1>2, <1>3, AttemptLimitAssumption DEF Ordinals

\* What is left of a call counts.
LEMMA LeftTypes ==
  ASSUME TypeOK, NEW c \in Calls
  PROVE  /\ AttemptsLeft(c) \in 0 .. MaxAttempts[c] /\ MaxAttempts[c] \in Nat
         /\ pc[c] = "ensure" \/ pc[c] = "done" \/ InRound[pc[c]] \in 2 .. 5
         /\ InRound["ensure"] = 1
  <1>1. MaxAttempts[c] \in Nat /\ current[c].attempt \in Nat
    BY AttemptTypes
  <1>2. pc[c] = "ensure" \/ pc[c] = "done" \/ InRound[pc[c]] \in 2 .. 5
    BY DEF TypeOK, Steps, InRound
  <1>3. InRound["ensure"] = 1
    BY DEF InRound
  <1>4. QED
    BY <1>1, <1>2, <1>3 DEF AttemptsLeft

\* A step stays in the loop, on the way out of it or at its start again.
LEMMA StepInLoop ==
  ASSUME IInv, NEW c \in Calls, InLoop(c), Step(c)
  PROVE  /\ InLoop(c)'
         /\ \/ pc'[c] = "done" /\ pc[c] # "done"
            \/ /\ current'[c] = current[c] /\ pc[c] \in DOMAIN InRound
               /\ pc'[c] \in DOMAIN InRound /\ InRound[pc'[c]] < InRound[pc[c]]
            \/ /\ pc[c] = "ensure" /\ pc'[c] = "decide"
               /\ current'[c].attempt > current[c].attempt
  <1>0. current[c].attempt \in Nat
    BY AttemptTypes DEF IInv
  <1> USE DEF IInv, TypeOK, InLoop, Move, End, Throw, InRound
  <1>1. CASE EnsureAnswered(c)
    <2>1. EnsureAnswer.status \in Statuses
      BY CoreTypes DEF EnsureAnswer
    <2>2. pc[c] = "ensure" /\ pc'[c] = "decide" /\ current'[c] = EnsureAnswer
          /\ EnsureAnswer.attempt > current[c].attempt
      BY <1>1 DEF EnsureAnswered, Look, Advanced
    <2>a. EnsureAnswer.attempt \in Nat
      <3>1. EnsureAnswer \in Results
        BY CoreTypes
      <3>2. EnsureAnswer.attempt \in {0} \cup Ordinals
        BY <3>1 DEF Results
      <3>3. QED
        BY <3>2, AttemptLimitAssumption DEF Ordinals
    <2>3. QED
      BY <1>0, <2>1, <2>a, <2>2
  <1>2. CASE EnsureLagged(c)
    <2>1. PICK answer \in LaggingAnswers : Advanced(c, answer) /\ Look(c, answer)
      BY <1>2 DEF EnsureLagged
    <2>2. answer.status = "failed"
      BY DEF LaggingAnswers
    <2>3. pc[c] = "ensure" /\ pc'[c] = "decide" /\ current'[c] = answer
          /\ answer.attempt > current[c].attempt
      BY <1>2, <2>1 DEF EnsureLagged, Look, Advanced
    <2>4. answer.attempt \in Nat
      <3>1. answer \in Results
        BY CoreTypes
      <3>2. answer.attempt \in {0} \cup Ordinals
        BY <3>1 DEF Results
      <3>3. QED
        BY <3>2, AttemptLimitAssumption DEF Ordinals
    <2>5. QED
      BY <1>0, <2>2, <2>3, <2>4 DEF Statuses
  <1>3. CASE DidNotAdvance(c) \/ EnsureLost(c)
    BY <1>3 DEF DidNotAdvance, EnsureLost
  <1>4. CASE Recover(c) \/ GiveUp(c) \/ Refuse(c)
    BY <1>4 DEF Recover, GiveUp, Refuse
  <1>5. CASE TryAgain(c)
    BY <1>5 DEF TryAgain
  <1>6. CASE Execute(c) \/ ExecuteReturns(c) \/ ExecuteThrows(c)
    BY <1>6 DEF Execute, ExecuteReturns, ExecuteThrows
  <1>7. CASE CompleteAnswered(c) \/ CompleteLost(c) \/ FailLost(c)
    BY <1>7 DEF CompleteAnswered, CompleteLost, FailLost
  <1>8. CASE FailAnswered(c)
    BY <1>8 DEF FailAnswered
  <1>9. CASE RetryAnswered(c) \/ RetryLost(c)
    BY <1>9 DEF RetryAnswered, RetryLost
  <1>10. QED
    BY <1>1, <1>2, <1>3, <1>4, <1>5, <1>6, <1>7, <1>8, <1>9 DEF Step

\* A step of a call leaves less of it.
LEMMA StepDwindles ==
  ASSUME IInv, TypeOK', NEW c \in Calls, InLoop(c), Step(c)
  PROVE  StepsLeft(c)' < StepsLeft(c)
  <1>0. TypeOK
    BY DEF IInv
  <1>1. /\ AttemptsLeft(c) \in Nat
        /\ pc[c] = "ensure" \/ pc[c] = "done" \/ InRound[pc[c]] \in 2 .. 5
        /\ InRound["ensure"] = 1
    BY <1>0, LeftTypes
  <1>a. current'[c] \in Results
    BY DEF TypeOK
  <1>b. current'[c].attempt \in {0} \cup Ordinals
    BY <1>a DEF Results
  <1>c. current[c].attempt \in Nat /\ current'[c].attempt \in Nat /\ MaxAttempts[c] \in Nat
    BY <1>0, <1>b, AttemptTypes, AttemptLimitAssumption DEF Ordinals
  <1>2. AttemptsLeft(c)' \in Nat
    BY <1>c DEF AttemptsLeft
  <1>3. CASE pc'[c] = "done" /\ pc[c] # "done"
    BY <1>1, <1>3 DEF StepsLeft
  <1>4. CASE /\ current'[c] = current[c] /\ pc[c] \in DOMAIN InRound
             /\ pc'[c] \in DOMAIN InRound /\ InRound[pc'[c]] < InRound[pc[c]]
    <2>1. pc[c] # "done" /\ pc'[c] # "done" /\ InRound[pc[c]] \in Nat /\ InRound[pc'[c]] \in Nat
      BY <1>4 DEF InRound
    <2>2. AttemptsLeft(c)' = AttemptsLeft(c)
      BY <1>4 DEF AttemptsLeft
    <2>3. QED
      BY <1>1, <1>4, <2>1, <2>2 DEF StepsLeft
  <1>5. CASE /\ pc[c] = "ensure" /\ pc'[c] = "decide"
             /\ current'[c].attempt > current[c].attempt
    <2>1. AttemptsLeft(c)' < AttemptsLeft(c)
      <3>2. current[c].attempt < MaxAttempts[c]
        BY <1>5 DEF InLoop
      <3>3. QED
        BY <1>5, <1>c, <3>2, LaterAttempt DEF AttemptsLeft
    <2>2. InRound[pc'[c]] = 5 /\ InRound[pc[c]] = 1 /\ pc[c] # "done" /\ pc'[c] # "done"
      BY <1>5 DEF InRound
    <2>3. QED
      BY <1>1, <1>2, <2>1, <2>2 DEF StepsLeft
  <1>6. QED
    BY <1>3, <1>4, <1>5, StepInLoop

\* The calls stay in their loops.
LEMMA StaysInLoop ==
  ASSUME IInv, [Next]_vars, \A c \in Calls : InLoop(c)
  PROVE  \A c \in Calls : InLoop(c)'
  <1>1. CASE UNCHANGED vars
    BY <1>1 DEF vars, InLoop
  <1>2. CASE Next
    <2>1. PICK c \in Calls : Step(c)
      BY <1>2 DEF Next
    <2>2. SUFFICES ASSUME NEW d \in Calls, d # c PROVE InLoop(d)'
      BY <2>1, StepInLoop
    <2>3. pc'[d] = pc[d] /\ current'[d] = current[d]
      BY <2>1, <2>2, Frame DEF IInv
    <2>4. QED
      BY <2>3 DEF InLoop
  <1>3. QED
    BY <1>1, <1>2

\* maxAttempts bounds the loop of every call, for any number of calls and any
\* answers of Core, and no answer leaves a call without a step to make.
THEOREM LoopsBounded == Spec => []LoopIsBounded
  <1> DEFINE AllInLoop == \A c \in Calls : InLoop(c)
  <1>1. Init => AllInLoop
    BY MaxAttemptsAssumption DEF Init, InLoop, Unasked
  <1>2. IInv /\ AllInLoop /\ [Next]_vars => AllInLoop'
    BY StaysInLoop
  <1>3. IInv /\ AllInLoop => LoopIsBounded
    <2>1. SUFFICES ASSUME IInv, NEW c \in Calls, InLoop(c)
                   PROVE  /\ StepsLeft(c) \in 0 .. 5 * MaxAttempts[c] + 1
                          /\ StepsLeft(c) = 0 <=> pc[c] = "done"
      BY DEF LoopIsBounded
    <2>2. /\ AttemptsLeft(c) \in 0 .. MaxAttempts[c] /\ MaxAttempts[c] \in Nat
          /\ pc[c] = "ensure" \/ pc[c] = "done" \/ InRound[pc[c]] \in 2 .. 5
          /\ InRound["ensure"] = 1
      BY <2>1, LeftTypes DEF IInv
    <2>3. current[c].attempt \in Nat
      BY <2>1, AttemptTypes DEF IInv
    <2>4. pc[c] \notin {"ensure", "done"} => AttemptsLeft(c) < MaxAttempts[c]
      BY <2>1, <2>2, <2>3, MaxAttemptsAssumption DEF InLoop, AttemptsLeft
    <2>5. QED
      BY <2>2, <2>4 DEF StepsLeft
  <1>4. QED
    BY <1>1, <1>2, <1>3, Invariance, PTL DEF Spec

\* Every step of the calls brings one of them nearer to its end and takes none
\* further from it, so that a call is over after 5 * maxAttempts + 1 steps.
THEOREM StepsDwindle == Spec => Dwindle
  <1> DEFINE Less == \E c \in Calls :
                       /\ StepsLeft(c)' < StepsLeft(c)
                       /\ \A d \in Calls \ {c} : StepsLeft(d)' = StepsLeft(d)
  <1>1. IInv /\ LoopIsBounded /\ [Next]_vars => [Less]_vars
    <2>1. SUFFICES ASSUME IInv, LoopIsBounded, Next PROVE Less
      OBVIOUS
    <2>2. PICK c \in Calls : Step(c)
      BY <2>1 DEF Next
    <2>3. StepsLeft(c)' < StepsLeft(c)
      BY <2>1, <2>2, StepDwindles, StepTypeOK DEF LoopIsBounded
    <2>4. \A d \in Calls \ {c} : StepsLeft(d)' = StepsLeft(d)
      BY <2>1, <2>2, Frame DEF IInv, StepsLeft, AttemptsLeft
    <2>5. QED
      BY <2>3, <2>4
  <1>2. QED
    BY <1>1, Invariance, LoopsBounded, PTL DEF Spec, Dwindle
================================================================================
