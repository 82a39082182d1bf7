--------------------------- MODULE OperationAttempts ---------------------------
(***************************************************************************)
(* ManagedTrace.runOperation (src/managed-trace.ts): the calls of one      *)
(* interaction that share an operation_key, side by side or one after the  *)
(* other, against Trace Core, which holds the attempts of the operation.   *)
(*                                                                         *)
(* Trace Core is external.  It is modelled from how the wrapper uses it: an*)
(* ensure registers the operation or claims a ready attempt, and is then   *)
(* the one answer that carries execute = TRUE; a retry opens the next      *)
(* attempt after a retryable failure; complete and fail end the attempt    *)
(* they name.  Any call may fail before or after Core applied it, and an   *)
(* ensure may be answered from before the retry that preceded it, which    *)
(* the wrapper's "did not advance" check expects.                          *)
(***************************************************************************)
EXTENDS Naturals, FiniteSets

CONSTANTS
  Calls,        \* the runOperation calls that share the operation_key
  MaxAttempts,  \* input.maxAttempts of each call
  Lagging,      \* Core may answer an ensure from before the retry that preceded it
  AttemptLimit  \* bound of the model: Core opens no attempt beyond it

ASSUME MaxAttemptsAssumption == MaxAttempts \in [Calls -> 1 .. 10]
ASSUME LaggingAssumption == Lagging \in BOOLEAN
ASSUME AttemptLimitAssumption == AttemptLimit \in Nat \ {0}

VARIABLES
  op,         \* Core: the latest attempt of the operation
  pc,         \* where each call stands
  current,    \* each call's `current`: the last ensure answer it looked at
  caught,     \* the call is inside `catch (executeError)`
  retryable,  \* isExplicitlyRetryable(executeError) of its last execution
  receipts,   \* the scope's receipts, by the attempt they belong to
  outcome,    \* how each call ended
  returned,   \* the receipt_status of the receipt a call returned
  runs        \* the executions of the callback that were started, by attempt

vars == <<op, pc, current, caught, retryable, receipts, outcome, returned, runs>>

Ordinals == 1 .. AttemptLimit
Statuses == {"pending", "completed", "failed"}

Steps == {"ensure", "decide", "retry", "executing", "completing", "failing", "done"}

Outcomes == {"none", "value", "recovered", "executeError", "OperationFailed",
             "OperationPending", "traceError"}

Attempts == [attempt : {0} \cup Ordinals, status : Statuses \cup {"absent", "ready"},
             retryable : BOOLEAN]

Results == [attempt : {0} \cup Ordinals, status : Statuses \cup {"absent"},
            retryable : BOOLEAN, execute : BOOLEAN]

Unasked == [attempt |-> 0, status |-> "absent", retryable |-> FALSE, execute |-> FALSE]

Init ==
  /\ op = [attempt |-> 0, status |-> "absent", retryable |-> FALSE]
  /\ pc = [c \in Calls |-> "ensure"]
  /\ current = [c \in Calls |-> Unasked]
  /\ caught = [c \in Calls |-> FALSE]
  /\ retryable = [c \in Calls |-> FALSE]
  /\ receipts = [n \in Ordinals |-> "none"]
  /\ outcome = [c \in Calls |-> "none"]
  /\ returned = [c \in Calls |-> "none"]
  /\ runs = [n \in Ordinals |-> 0]

--------------------------------------------------------------------------------
\* Trace Core

\* ensureOperation registers the operation, claims a ready attempt, and
\* changes nothing otherwise.
Ensured ==
  CASE op.status = "absent" -> [attempt |-> 1, status |-> "pending", retryable |-> FALSE]
    [] op.status = "ready"  -> [op EXCEPT !.status = "pending"]
    [] OTHER                -> op

\* Its answer; only the claim authorizes the execution.
EnsureAnswer ==
  [attempt |-> Ensured.attempt, status |-> Ensured.status,
   retryable |-> Ensured.retryable, execute |-> op.status \in {"absent", "ready"}]

\* Another answer it may give: from before the attempt that is now ready.
LaggingAnswers ==
  {a \in {[attempt |-> op.attempt - 1, status |-> "failed", retryable |-> TRUE,
           execute |-> FALSE]} : Lagging /\ op.status = "ready"}

\* retryOperationAttempt opens the next attempt, once.
MayRetry == op.status = "failed" /\ op.retryable /\ op.attempt < AttemptLimit
Retried ==
  IF MayRetry
  THEN [attempt |-> op.attempt + 1, status |-> "ready", retryable |-> FALSE]
  ELSE op

\* complete and fail end the pending attempt n.
Finished(n, s, r) ==
  IF op.attempt = n /\ op.status = "pending"
  THEN [op EXCEPT !.status = s, !.retryable = r]
  ELSE op

--------------------------------------------------------------------------------
\* The wrapper

Move(c, step) == pc' = [pc EXCEPT ![c] = step]

End(c, result, receipt) ==
  /\ Move(c, "done")
  /\ outcome' = [outcome EXCEPT ![c] = result]
  /\ returned' = [returned EXCEPT ![c] = receipt]

\* A Trace call failed, or Core did not advance: inside catch (executeError)
\* the business error is rethrown, elsewhere the failure itself is thrown.
Throw(c, error) == End(c, IF caught[c] THEN "executeError" ELSE error, "none")

\* Mutant of Record: a receipt that is still pending is not worth recording.
RecordTerminal(c, s) ==
  receipts' = IF s = "pending" THEN receipts ELSE [receipts EXCEPT ![current[c].attempt] = s]

\* recordReceipt: one entry per receipt_id, the latest call's wins.
Record(c, s) == receipts' = [receipts EXCEPT ![current[c].attempt] = s]

\* Mutant of Advanced: no check.
AdvancedUnchecked(c, answer) == TRUE

\* The attempt Core answers with is later than the one last seen.
Advanced(c, answer) == answer.attempt > current[c].attempt

\* An ensure is answered and looked at; `continue` then leaves the catch block
\* and drops executeError.
Look(c, answer) ==
  /\ Move(c, "decide")
  /\ current' = [current EXCEPT ![c] = answer]
  /\ caught' = [caught EXCEPT ![c] = FALSE]
  /\ UNCHANGED <<outcome, returned>>

\* The ensureOperation call, before the loop and after each retry, when the
\* attempt must have advanced.
EnsureAnswered(c) ==
  /\ pc[c] = "ensure"
  /\ Advanced(c, EnsureAnswer)
  /\ op' = Ensured
  /\ Look(c, EnsureAnswer)
  /\ UNCHANGED <<retryable, receipts, runs>>

EnsureLagged(c) ==
  /\ pc[c] = "ensure"
  /\ \E answer \in LaggingAnswers :
       Advanced(c, answer) /\ Look(c, answer)
  /\ UNCHANGED <<op, retryable, receipts, runs>>

\* The check: Core answered with an attempt already seen.
DidNotAdvance(c) ==
  /\ pc[c] = "ensure"
  /\ \E answer \in LaggingAnswers \cup {EnsureAnswer} :
       /\ ~Advanced(c, answer)
       /\ op' = IF answer = EnsureAnswer THEN Ensured ELSE op
  /\ Throw(c, "OperationFailed")
  /\ UNCHANGED <<current, caught, retryable, receipts, runs>>

EnsureLost(c) ==
  /\ pc[c] = "ensure"
  /\ op' \in {op, Ensured}
  /\ Throw(c, "traceError")
  /\ UNCHANGED <<current, caught, retryable, receipts, runs>>

\* isCompletedReceipt: the operation was done before.
Recover(c) ==
  /\ pc[c] = "decide"
  /\ current[c].status = "completed"
  /\ Record(c, "completed")
  /\ End(c, "recovered", "completed")
  /\ UNCHANGED <<op, current, caught, retryable, runs>>

\* isFailedReceipt, with no attempt left or a final failure.
GiveUp(c) ==
  /\ pc[c] = "decide"
  /\ current[c].status = "failed"
  /\ ~current[c].retryable \/ current[c].attempt >= MaxAttempts[c]
  /\ Record(c, "failed")
  /\ Throw(c, "OperationFailed")
  /\ UNCHANGED <<op, current, caught, retryable, runs>>

\* isFailedReceipt, with another attempt to ask for.
TryAgain(c) ==
  /\ pc[c] = "decide"
  /\ current[c].status = "failed"
  /\ current[c].retryable
  /\ current[c].attempt < MaxAttempts[c]
  /\ Record(c, "failed")
  /\ Move(c, "retry")
  /\ UNCHANGED <<op, current, caught, retryable, outcome, returned, runs>>

\* Mutant of Authorized: the execute flag is not read.
AuthorizedUnread(c) == current[c].status = "pending"

\* Core gave this call the pending attempt.
Authorized(c) == current[c].status = "pending" /\ current[c].execute

\* Pending under another call, or under one whose answer was lost.
Refuse(c) ==
  /\ pc[c] = "decide"
  /\ current[c].status = "pending"
  /\ ~Authorized(c)
  /\ Throw(c, "OperationPending")
  /\ UNCHANGED <<op, current, caught, retryable, receipts, runs>>

Execute(c) ==
  /\ pc[c] = "decide"
  /\ Authorized(c)
  /\ runs' = [runs EXCEPT ![current[c].attempt] = @ + 1]
  /\ Move(c, "executing")
  /\ UNCHANGED <<op, current, caught, retryable, receipts, outcome, returned>>

ExecuteReturns(c) ==
  /\ pc[c] = "executing"
  /\ Move(c, "completing")
  /\ UNCHANGED <<op, current, caught, retryable, receipts, outcome, returned, runs>>

ExecuteThrows(c) ==
  /\ pc[c] = "executing"
  /\ \E r \in BOOLEAN : retryable' = [retryable EXCEPT ![c] = r]
  /\ caught' = [caught EXCEPT ![c] = TRUE]
  /\ Move(c, "failing")
  /\ UNCHANGED <<op, current, receipts, outcome, returned, runs>>

\* Mutant of LastReceipt: a completion is taken for granted.
LastReceiptCompleted(c) == "completed"

\* The receipt a call holds when Core does not answer with a newer one.
LastReceipt(c) == current[c].status

\* completeOperationAttempt; its failure leaves the value and the receipt
\* that was pending when the execution began.
CompleteAnswered(c) ==
  /\ pc[c] = "completing"
  /\ op.attempt = current[c].attempt /\ op.status = "pending"
  /\ op' = Finished(current[c].attempt, "completed", FALSE)
  /\ Record(c, "completed")
  /\ End(c, "value", "completed")
  /\ UNCHANGED <<current, caught, retryable, runs>>

\* Mutant of CompleteLost: the lost completion is handled as a failed execution.
CompleteLostAsFailure(c) ==
  /\ pc[c] = "completing"
  /\ op' \in {op, Finished(current[c].attempt, "completed", FALSE)}
  /\ Move(c, "failing")
  /\ caught' = [caught EXCEPT ![c] = TRUE]
  /\ retryable' = [retryable EXCEPT ![c] = TRUE]
  /\ UNCHANGED <<current, receipts, outcome, returned, runs>>

CompleteLost(c) ==
  /\ pc[c] = "completing"
  /\ op' \in {op, Finished(current[c].attempt, "completed", FALSE)}
  /\ Record(c, LastReceipt(c))
  /\ End(c, "value", LastReceipt(c))
  /\ UNCHANGED <<current, caught, retryable, runs>>

\* failOperationAttempt
FailAnswered(c) ==
  /\ pc[c] = "failing"
  /\ op.attempt = current[c].attempt /\ op.status = "pending"
  /\ op' = Finished(current[c].attempt, "failed", retryable[c])
  /\ Record(c, "failed")
  /\ IF retryable[c] /\ current[c].attempt < MaxAttempts[c]
     THEN Move(c, "retry") /\ UNCHANGED <<outcome, returned>>
     ELSE Throw(c, "executeError")
  /\ UNCHANGED <<current, caught, retryable, runs>>

FailLost(c) ==
  /\ pc[c] = "failing"
  /\ op' \in {op, Finished(current[c].attempt, "failed", retryable[c])}
  /\ Record(c, LastReceipt(c))
  /\ Throw(c, "executeError")
  /\ UNCHANGED <<current, caught, retryable, runs>>

\* retryOperationAttempt; what it answers is not read.
RetryAnswered(c) ==
  /\ pc[c] = "retry"
  /\ MayRetry \/ op.status = "ready"
  /\ op' = Retried
  /\ Move(c, "ensure")
  /\ UNCHANGED <<current, caught, retryable, receipts, outcome, returned, runs>>

RetryLost(c) ==
  /\ pc[c] = "retry"
  /\ op' \in {op, Retried}
  /\ Throw(c, "traceError")
  /\ UNCHANGED <<current, caught, retryable, receipts, runs>>

Step(c) ==
  \/ EnsureAnswered(c) \/ EnsureLagged(c) \/ DidNotAdvance(c) \/ EnsureLost(c)
  \/ Recover(c) \/ GiveUp(c) \/ TryAgain(c) \/ Refuse(c) \/ Execute(c)
  \/ ExecuteReturns(c) \/ ExecuteThrows(c)
  \/ CompleteAnswered(c) \/ CompleteLost(c)
  \/ FailAnswered(c) \/ FailLost(c)
  \/ RetryAnswered(c) \/ RetryLost(c)

Next == \E c \in Calls : Step(c)

Spec == Init /\ [][Next]_vars

\* Every request ends, in an answer or in a failure, and the callback ends.
FairSpec == Spec /\ \A c \in Calls : WF_vars(Step(c))

--------------------------------------------------------------------------------
TypeOK ==
  /\ op \in Attempts
  /\ pc \in [Calls -> Steps]
  /\ current \in [Calls -> Results]
  /\ caught \in [Calls -> BOOLEAN]
  /\ retryable \in [Calls -> BOOLEAN]
  /\ receipts \in [Ordinals -> Statuses \cup {"none"}]
  /\ outcome \in [Calls -> Outcomes]
  /\ returned \in [Calls -> Statuses \cup {"none"}]
  /\ runs \in [Ordinals -> Nat]

\* The callback runs at most once per attempt, however many calls share the
\* operation and whichever answers are lost: execute = TRUE is given once.
OneRunPerAttempt == \A n \in Ordinals : runs[n] <= 1

\* The calls that own the pending attempt: between the claim and its end.
Holding(c) ==
  \/ pc[c] = "decide" /\ current[c].status = "pending" /\ current[c].execute
  \/ pc[c] \in {"executing", "completing", "failing"}

\* The callback has returned in some call.
Succeeded == \E c \in Calls : pc[c] = "completing" \/ outcome[c] = "value"

\* A caller can rely on a returned receipt: "completed" was persisted by Core,
\* and a recovered result means that an execution really returned.
ReceiptTellsTruth ==
  \A c \in Calls : returned[c] = "completed" => op.status = "completed" /\ Succeeded

\* Every attempt that ran and is over has a receipt in the scope, so the
\* completion manifest names it whichever Trace calls failed.
RunsAreRecorded ==
  \A n \in Ordinals : runs[n] > 0 =>
    \/ receipts[n] # "none"
    \/ \E c \in Calls : Holding(c) /\ current[c].attempt = n

\* Every call returns to its caller.
CallsEnd == \A c \in Calls : <>(pc[c] = "done")

\* The callback has thrown an error that does not declare itself retryable.
Failed == \E c \in Calls : caught[c] /\ ~retryable[c]

\* The callback as the callers know it.
Phase ==
  IF Succeeded THEN "succeeded"
  ELSE IF \E c \in Calls : pc[c] = "executing" THEN "running"
  ELSE IF Failed THEN "failed" ELSE "ready"

Promise == INSTANCE OperationPromise WITH phase <- Phase

\* What the callers of one operation get, whatever they share it with and
\* whichever Trace calls fail: the callback runs one execution at a time, again
\* only after a retryable failure, and never after it has returned.
KeepsPromise == Promise!Spec

\* src/managed-trace.ts:86 of maxAttempts: "Maximum authoritative attempt ordinal,
\* including the current attempt".
WithinMaxAttempts ==
  \A n \in Ordinals : runs[n] > 0 => \E c \in Calls : n <= MaxAttempts[c]

\* TRACE.md:28: the error object that execute throws stays unchanged, so a call
\* whose execution threw ends with that error, or with a success.
ExecuteErrorKept ==
  \A c \in Calls : pc[c] = "done" /\ retryable[c] =>
    outcome[c] \in {"executeError", "value", "recovered"}
================================================================================
